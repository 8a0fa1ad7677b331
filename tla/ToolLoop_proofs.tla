--------------------------- MODULE ToolLoop_proofs ---------------------------
(***************************************************************************)
(* Proofs about ToolLoop, for any tools, lists of the token, models,       *)
(* openings of the client and answers of the provider, and any number of   *)
(* rounds. LoopInv says that the client's messages and those of the loop   *)
(* are conversations, in which each result follows the call it answers,    *)
(* and that an answer, whole or put together from a stream, is such as a   *)
(* conversation can be extended with. Translation keeps that for OpenAI    *)
(* and for Bedrock. A list that a recursion computes is reasoned about     *)
(* step by step, by induction on the number of its steps. HalfwayInv says  *)
(* of a stream that the events still to come make of what was accumulated  *)
(* what the answer says that the bridge would return as a whole.           *)
(***************************************************************************)
EXTENDS ToolLoop, FiniteSetTheorems, WellFoundedInduction, TLAPS

-----------------------------------------------------------------------------
\* Lists.

\* Induction, for a set of numbers.
LEMMA SetInduction ==
  ASSUME NEW S, 0 \in S, \A n \in Nat : n \in S => n + 1 \in S
  PROVE  Nat \subseteq S
<1>. DEFINE T == Nat \ S
<1>. SUFFICES ASSUME T # {} PROVE FALSE
  OBVIOUS
<1>1. PICK n \in T : \A m \in T : <<m, n>> \notin OpToRel(<, Nat)
  BY NatLessThanWellFounded, WFMin, T \subseteq Nat
<1>2. n - 1 \in Nat /\ (n - 1) + 1 = n
  OBVIOUS
<1>3. n - 1 \in T
  BY <1>2
<1>4. <<n - 1, n>> \in OpToRel(<, Nat)
  BY <1>2 DEF OpToRel
<1>. QED  BY <1>1, <1>3, <1>4

\* A list is a function on the numbers up to its length.
LEMMA ListIs ==
  ASSUME NEW s
  PROVE  /\ IsList(s) => /\ Len(s) \in Nat
                         /\ DOMAIN s = 1..Len(s)
                         /\ \A i \in 1..Len(s) : s[i] \in ToSet(s)
                         /\ \A x \in ToSet(s) : \E i \in 1..Len(s) : s[i] = x
         /\ \A E : s \in Seq(E) => IsList(s) /\ ToSet(s) \subseteq E
<1>1. ASSUME NEW E, s \in Seq(E)
      PROVE  IsList(s) /\ ToSet(s) \subseteq E
  <2>1. DOMAIN s = 1..Len(s) /\ Len(s) \in Nat /\ s = [i \in 1..Len(s) |-> s[i]]
    BY <1>1
  <2>2. \A i \in 1..Len(s) : s[i] \in ToSet(s) /\ s[i] \in E
    BY <1>1, <2>1 DEF ToSet
  <2>3. ToSet(s) \subseteq E
    BY <2>1, <2>2 DEF ToSet
  <2>. HIDE DEF ToSet
  <2>. QED  BY <2>1, <2>2, <2>3 DEF IsList
<1>2. ASSUME IsList(s)
      PROVE  /\ Len(s) \in Nat
             /\ DOMAIN s = 1..Len(s)
             /\ \A i \in 1..Len(s) : s[i] \in ToSet(s)
             /\ \A x \in ToSet(s) : \E i \in 1..Len(s) : s[i] = x
  <2>1. DOMAIN s = 1..Len(s) /\ Len(s) \in Nat
    BY <1>2 DEF IsList
  <2>. QED  BY <2>1 DEF ToSet
<1>. QED  BY <1>1, <1>2

\* A function on the numbers up to one is a list.
LEMMA FunctionList ==
  ASSUME NEW n \in Nat, NEW f, f = [i \in 1..n |-> f[i]]
  PROVE  IsList(f) /\ Len(f) = n
<1>1. \A i \in 1..n : f[i] \in ToSet(f)
  BY DEF ToSet
<1>2. f \in Seq(ToSet(f)) /\ Len(f) = n
  <2>. HIDE DEF ToSet
  <2>. QED  BY <1>1
<1>. QED  BY <1>2 DEF IsList

\* One list after another.
LEMMA Joined ==
  ASSUME NEW s, NEW t, IsList(s), IsList(t)
  PROVE  /\ IsList(s \o t)
         /\ Len(s \o t) = Len(s) + Len(t)
         /\ \A i \in 1..Len(s) : (s \o t)[i] = s[i]
         /\ \A i \in 1..Len(t) : (s \o t)[Len(s) + i] = t[i]
         /\ \A m \in 1..Len(s \o t) : m \in 1..Len(s) \/ \E i \in 1..Len(t) : m = Len(s) + i
         /\ ToSet(s \o t) = ToSet(s) \cup ToSet(t)
<1>. DEFINE E == ToSet(s) \cup ToSet(t)
<1>1. s \in Seq(E) /\ t \in Seq(E)
  <2>1. s \in Seq(ToSet(s)) /\ t \in Seq(ToSet(t))
    BY DEF IsList
  <2>2. \A A, B : A \subseteq B => Seq(A) \subseteq Seq(B)
    OBVIOUS
  <2>. QED  BY <2>1, <2>2
<1>2. /\ s \o t \in Seq(E)
      /\ Len(s \o t) = Len(s) + Len(t)
      /\ Len(s) \in Nat /\ Len(t) \in Nat
      /\ \A i \in 1..Len(s) : (s \o t)[i] = s[i]
      /\ \A i \in 1..Len(t) : (s \o t)[Len(s) + i] = t[i]
  <2>. HIDE DEF E
  <2>. QED  BY <1>1
<1>3. \A m \in 1..Len(s \o t) : m \in 1..Len(s) \/ \E i \in 1..Len(t) : m = Len(s) + i
  <2>1. ASSUME NEW m \in 1..Len(s \o t), m \notin 1..Len(s)
        PROVE  \E i \in 1..Len(t) : m = Len(s) + i
    <3>1. m - Len(s) \in 1..Len(t) /\ m = Len(s) + (m - Len(s))
      BY <1>2, <2>1
    <3>. QED  BY <3>1
  <2>. QED  BY <2>1
<1>4. IsList(s \o t) /\ ToSet(s \o t) \subseteq E
  <2>. HIDE DEF E
  <2>. QED  BY <1>2, ListIs
<1>5. \A x \in E : x \in ToSet(s \o t)
  <2>1. ASSUME NEW x \in ToSet(s) PROVE x \in ToSet(s \o t)
    <3>1. PICK i \in 1..Len(s) : s[i] = x
      BY ListIs
    <3>2. i \in 1..Len(s \o t) /\ (s \o t)[i] = x
      BY <1>2, <3>1
    <3>. QED  BY <1>4, <3>2, ListIs
  <2>2. ASSUME NEW x \in ToSet(t) PROVE x \in ToSet(s \o t)
    <3>1. PICK i \in 1..Len(t) : t[i] = x
      BY ListIs
    <3>2. Len(s) + i \in 1..Len(s \o t) /\ (s \o t)[Len(s) + i] = x
      BY <1>2, <3>1
    <3>. QED  BY <1>4, <3>2, ListIs
  <2>. QED  BY <2>1, <2>2
<1>. QED  BY <1>2, <1>3, <1>4, <1>5, Zenon

\* What FlattenSeq computes, step by step.
Flattens(f, q, n) == f = [i \in 1..n |-> IF i = 1 THEN q[i] ELSE f[i - 1] \o q[i]]

\* Its recursion has a result.
LEMMA FlattenDefined ==
  ASSUME NEW q, NEW n \in Nat
  PROVE  \E f : Flattens(f, q, n)
<1>. DEFINE S == {k \in Nat : \E f : Flattens(f, q, k)}
<1>1. 0 \in S
  <2>1. Flattens([i \in 1..0 |-> q[i]], q, 0)
    BY DEF Flattens
  <2>. QED  BY <2>1
<1>2. ASSUME NEW k \in Nat, k \in S PROVE k + 1 \in S
  <2>1. PICK f : Flattens(f, q, k)
    BY <1>2
  <2>. DEFINE step(g, i) == IF i = 1 THEN q[i] ELSE g[i - 1] \o q[i]
              g == [i \in 1..(k + 1) |-> IF i <= k THEN f[i] ELSE step(f, i)]
  <2>2. \A i \in 1..k : f[i] = step(f, i)
    BY <2>1 DEF Flattens
  <2>3. ASSUME NEW i \in 1..(k + 1) PROVE g[i] = step(g, i)
    <3>1. g[i] = step(f, i)
      BY <2>2
    <3>2. i # 1 => i - 1 \in 1..(k + 1) /\ i - 1 <= k
      OBVIOUS
    <3>3. i # 1 => g[i - 1] = f[i - 1]
      BY <3>2
    <3>. QED  BY <3>1, <3>3
  <2>4. g = [i \in 1..(k + 1) |-> step(g, i)]
    <3>1. g = [i \in 1..(k + 1) |-> g[i]]
      OBVIOUS
    <3>. HIDE DEF g
    <3>. QED  BY <2>3, <3>1
  <2>5. Flattens(g, q, k + 1)
    <3>. HIDE DEF g
    <3>. QED  BY <2>4 DEF Flattens
  <2>. QED  BY <2>5
<1>3. Nat \subseteq S
  <2>. HIDE DEF S
  <2>. QED  BY <1>1, <1>2, SetInduction
<1>. QED  BY <1>3

\* f has what is in the first n of the lists q and nothing else, in their order.
InOrder(f, q, n) ==
    /\ IsList(f)
    /\ \A i \in 1..n : ToSet(q[i]) \subseteq ToSet(f)
    /\ \A m \in 1..Len(f) : \E i \in 1..n :
          /\ f[m] \in ToSet(q[i])
          /\ \A j \in 1..i - 1 : \A x \in ToSet(q[j]) : \E k \in 1..m - 1 : f[k] = x

\* One list more.
LEMMA OneMore ==
  ASSUME NEW q, NEW n \in Nat, NEW f, InOrder(f, q, n), IsList(q[n + 1])
  PROVE  InOrder(f \o q[n + 1], q, n + 1)
<1>. DEFINE t == q[n + 1]
            g == f \o t
<1>1. /\ IsList(f) /\ IsList(t)
      /\ \A i \in 1..n : ToSet(q[i]) \subseteq ToSet(f)
  BY DEF InOrder
<1>2. /\ IsList(g)
      /\ Len(g) = Len(f) + Len(t) /\ Len(f) \in Nat /\ Len(t) \in Nat
      /\ \A i \in 1..Len(f) : g[i] = f[i]
      /\ \A i \in 1..Len(t) : g[Len(f) + i] = t[i]
      /\ \A m \in 1..Len(g) : m \in 1..Len(f) \/ \E i \in 1..Len(t) : m = Len(f) + i
      /\ ToSet(g) = ToSet(f) \cup ToSet(t)
  <2>. HIDE DEF t
  <2>. QED  BY <1>1, Joined, ListIs
<1>3. \A i \in 1..(n + 1) : ToSet(q[i]) \subseteq ToSet(g)
  <2>. HIDE DEF g
  <2>1. ASSUME NEW i \in 1..(n + 1) PROVE ToSet(q[i]) \subseteq ToSet(g)
    <3>1. CASE i \in 1..n
      BY <1>1, <1>2, <3>1
    <3>2. CASE i \notin 1..n
      <4>1. i = n + 1
        BY <3>2
      <4>. QED  BY <1>2, <4>1
    <3>. QED  BY <3>1, <3>2
  <2>. QED  BY <2>1
<1>4. ASSUME NEW m \in 1..Len(g)
      PROVE  \E i \in 1..(n + 1) :
                /\ g[m] \in ToSet(q[i])
                /\ \A j \in 1..i - 1 : \A x \in ToSet(q[j]) : \E k \in 1..m - 1 : g[k] = x
  <2>. HIDE DEF g, t
  <2>1. CASE m \in 1..Len(f)
    <3>1. PICK i \in 1..n :
             /\ f[m] \in ToSet(q[i])
             /\ \A j \in 1..i - 1 : \A x \in ToSet(q[j]) : \E k \in 1..m - 1 : f[k] = x
      BY <2>1 DEF InOrder
    <3>2. ASSUME NEW j \in 1..i - 1, NEW x \in ToSet(q[j])
          PROVE  \E k \in 1..m - 1 : g[k] = x
      <4>1. PICK k \in 1..m - 1 : f[k] = x
        BY <3>1
      <4>2. k \in 1..Len(f)
        BY <1>2, <2>1
      <4>. QED  BY <1>2, <4>1, <4>2
    <3>3. i \in 1..(n + 1) /\ g[m] = f[m]
      BY <1>2, <2>1
    <3>. QED  BY <3>1, <3>2, <3>3
  <2>2. ASSUME NEW l \in 1..Len(t), m = Len(f) + l
        PROVE  /\ g[m] \in ToSet(t)
               /\ \A j \in 1..n : \A x \in ToSet(q[j]) : \E k \in 1..m - 1 : g[k] = x
    <3>1. g[m] \in ToSet(t)
      <4>1. t[l] \in ToSet(t)
        BY <1>1, ListIs
      <4>. QED  BY <1>2, <2>2, <4>1
    <3>2. ASSUME NEW j \in 1..n, NEW x \in ToSet(q[j])
          PROVE  \E k \in 1..m - 1 : g[k] = x
      <4>1. PICK k \in 1..Len(f) : f[k] = x
        BY <1>1, ListIs
      <4>2. k \in 1..m - 1 /\ g[k] = x
        BY <1>2, <2>2, <4>1
      <4>. QED  BY <4>2
    <3>. QED  BY <3>1, <3>2
  <2>3. n + 1 \in 1..(n + 1) /\ (n + 1) - 1 = n
    OBVIOUS
  <2>4. CASE m \notin 1..Len(f)
    <3>1. /\ g[m] \in ToSet(t)
          /\ \A j \in 1..n : \A x \in ToSet(q[j]) : \E k \in 1..m - 1 : g[k] = x
      BY <1>2, <2>2, <2>4
    <3>2. g[m] \in ToSet(q[n + 1])
      BY <3>1 DEF t
    <3>. QED  BY <2>3, <3>1, <3>2
  <2>. QED  BY <2>1, <2>4
<1>. QED  BY <1>2, <1>3, <1>4 DEF InOrder

\* FlattenSeq keeps what is in the lists, in their order, and adds nothing.
LEMMA Flattened ==
  ASSUME NEW n \in Nat, NEW q, q = [i \in 1..n |-> q[i]], \A i \in 1..n : IsList(q[i])
  PROVE  InOrder(FlattenSeq(q), q, n)
<1>1. Len(q) = n /\ IsList(q)
  BY FunctionList
<1>2. CASE n = 0
  <2>1. FlattenSeq(q) = q
    BY <1>1, <1>2 DEF FlattenSeq
  <2>. QED  BY <1>1, <1>2, <2>1 DEF InOrder
<1>3. CASE n # 0
  <2>1. PICK f : Flattens(f, q, n) /\ FlattenSeq(q) = f[n]
    <3>. DEFINE f == CHOOSE f : Flattens(f, q, n)
    <3>1. Flattens(f, q, n)
      BY FlattenDefined
    <3>2. FlattenSeq(q) = f[n]
      BY <1>1, <1>3, Zenon DEF FlattenSeq, Flattens
    <3>. QED  BY <3>1, <3>2, Zenon
  <2>2. \A i \in 1..n : f[i] = IF i = 1 THEN q[i] ELSE f[i - 1] \o q[i]
    <3>. DEFINE step(i) == IF i = 1 THEN q[i] ELSE f[i - 1] \o q[i]
    <3>1. f = [i \in 1..n |-> step(i)]
      BY <2>1, Zenon DEF Flattens
    <3>2. \A i \in 1..n : f[i] = step(i)
      <4>. HIDE DEF step
      <4>. QED  BY <3>1, Zenon
    <3>. QED  BY <3>2, Zenon
  <2>. DEFINE S == {k \in Nat : k + 1 \in 1..n => InOrder(f[k + 1], q, k + 1)}
  <2>3. 0 \in S
    <3>1. f[1] = q[1] /\ IsList(q[1])
      BY <1>3, <2>2
    <3>2. InOrder(q[1], q, 1)
      <4>1. \A m \in 1..Len(q[1]) : q[1][m] \in ToSet(q[1])
        BY <3>1, ListIs
      <4>2. \A i \in 1..1 : i = 1
        OBVIOUS
      <4>3. 1..(1 - 1) = {} /\ 1 \in 1..1
        OBVIOUS
      <4>. QED  BY <3>1, <4>1, <4>2, <4>3, Zenon DEF InOrder
    <3>. QED  BY <3>1, <3>2
  <2>4. ASSUME NEW k \in Nat, k \in S PROVE k + 1 \in S
    <3>1. ASSUME (k + 1) + 1 \in 1..n
          PROVE  InOrder(f[(k + 1) + 1], q, (k + 1) + 1)
      <4>1. k + 1 \in 1..n /\ k + 1 \in Nat /\ (k + 1) + 1 # 1 /\ (k + 1) + 1 - 1 = k + 1
        BY <3>1
      <4>2. InOrder(f[k + 1], q, k + 1) /\ IsList(q[(k + 1) + 1])
        BY <2>4, <3>1, <4>1
      <4>3. f[(k + 1) + 1] = f[k + 1] \o q[(k + 1) + 1]
        <5>. DEFINE join(a, b) == a \o b
        <5>1. \A i \in 1..n : f[i] = IF i = 1 THEN q[i] ELSE join(f[i - 1], q[i])
          BY <2>2, Zenon
        <5>2. f[(k + 1) + 1] = join(f[(k + 1) + 1 - 1], q[(k + 1) + 1])
          <6>. HIDE DEF join
          <6>. QED  BY <3>1, <4>1, <5>1
        <5>. QED  BY <4>1, <5>2, Zenon
      <4>. QED  BY <4>1, <4>2, <4>3, OneMore, Zenon
    <3>. QED  BY <3>1
  <2>5. Nat \subseteq S
    <3>. HIDE DEF S
    <3>. QED  BY <2>3, <2>4, SetInduction
  <2>6. n - 1 \in Nat /\ (n - 1) + 1 = n /\ n \in 1..n
    BY <1>3
  <2>. QED  BY <2>1, <2>5, <2>6
<1>. QED  BY <1>2, <1>3

\* Lists of none and one.
LEMMA ShortLists ==
  /\ IsList(<<>>) /\ ToSet(<<>>) = {} /\ Len(<<>>) = 0
  /\ \A x : IsList(<<x>>) /\ ToSet(<<x>>) = {x} /\ Len(<<x>>) = 1
<1>1. ASSUME NEW x PROVE IsList(<<x>>) /\ ToSet(<<x>>) = {x} /\ Len(<<x>>) = 1
  <2>1. ToSet(<<x>>) = {x}
    BY DEF ToSet
  <2>2. <<x>> \in Seq({x}) /\ Len(<<x>>) = 1
    OBVIOUS
  <2>. QED  BY <2>1, <2>2, ListIs
<1>2. ToSet(<<>>) = {}
  BY DEF ToSet
<1>3. <<>> \in Seq({}) /\ Len(<<>>) = 0
  OBVIOUS
<1>. QED  BY <1>1, <1>2, <1>3, ListIs

\* Only(s, set) has the elements of s that are in the set.
LEMMA OnlyThose ==
  ASSUME NEW s, IsList(s), NEW set
  PROVE  IsList(Only(s, set)) /\ ToSet(Only(s, set)) = ToSet(s) \cap set
<1>. DEFINE q == [i \in DOMAIN s |-> IF s[i] \in set THEN <<s[i]>> ELSE <<>>]
<1>1. DOMAIN s = 1..Len(s) /\ Len(s) \in Nat
  BY ListIs
<1>2. \A i \in 1..Len(s) : /\ IsList(q[i])
                           /\ s[i] \in set => ToSet(q[i]) = {s[i]}
                           /\ s[i] \notin set => ToSet(q[i]) = {}
  BY <1>1, ShortLists
<1>3. q = [i \in 1..Len(s) |-> q[i]]
  BY <1>1
<1>4. InOrder(FlattenSeq(q), q, Len(s))
  <2>. HIDE DEF q
  <2>. QED  BY <1>1, <1>2, <1>3, Flattened
<1>. DEFINE f == FlattenSeq(q)
<1>5. Only(s, set) = f
  BY Zenon DEF Only
<1>6. IsList(f)
  <2>. HIDE DEF q, f
  <2>. QED  BY <1>4 DEF InOrder, f
<1>7. ASSUME NEW x \in ToSet(f) PROVE x \in ToSet(s) \cap set
  <2>. HIDE DEF q
  <2>1. PICK m \in 1..Len(f) : f[m] = x
    BY <1>6, ListIs
  <2>2. PICK i \in 1..Len(s) : x \in ToSet(q[i])
    BY <1>4, <2>1 DEF InOrder
  <2>3. x = s[i] /\ x \in set
    BY <1>2, <2>2
  <2>. QED  BY <2>3, ListIs
<1>8. ASSUME NEW x \in ToSet(s) \cap set PROVE x \in ToSet(f)
  <2>. HIDE DEF q
  <2>1. PICK i \in 1..Len(s) : s[i] = x
    BY ListIs
  <2>2. x \in ToSet(q[i])
    BY <1>2, <2>1
  <2>. QED  BY <1>4, <2>2 DEF InOrder
<1>. HIDE DEF q, f
<1>. QED  BY <1>5, <1>6, <1>7, <1>8

-----------------------------------------------------------------------------
\* More messages, each result of a call that was made before them.
LEMMA Extended ==
  ASSUME NEW ms, Conversation(ms), NEW more, IsList(more),
         \A m \in ToSet(more) :
            /\ MessageTyped(m)
            /\ m.role = "tool" => \E a \in ToSet(ms) : Makes(a, m.answers)
  PROVE  /\ Conversation(ms \o more)
         /\ ToSet(ms \o more) = ToSet(ms) \cup ToSet(more)
<1>. DEFINE all == ms \o more
<1>1. IsList(ms)
  BY DEF Conversation
<1>2. /\ IsList(all)
      /\ Len(all) = Len(ms) + Len(more) /\ Len(ms) \in Nat /\ Len(more) \in Nat
      /\ \A i \in 1..Len(ms) : all[i] = ms[i]
      /\ \A i \in 1..Len(more) : all[Len(ms) + i] = more[i]
      /\ \A m \in 1..Len(all) : m \in 1..Len(ms) \/ \E i \in 1..Len(more) : m = Len(ms) + i
      /\ ToSet(all) = ToSet(ms) \cup ToSet(more)
  BY <1>1, Joined, ListIs
<1>. HIDE DEF all
<1>3. ASSUME NEW i \in 1..Len(all)
      PROVE  /\ MessageTyped(all[i])
             /\ all[i].role = "tool" => \E j \in 1..i - 1 : Makes(all[j], all[i].answers)
  <2>1. CASE i \in 1..Len(ms)
    <3>1. all[i] = ms[i]
      BY <1>2, <2>1
    <3>2. ASSUME all[i].role = "tool"
          PROVE  \E j \in 1..i - 1 : Makes(all[j], all[i].answers)
      <4>1. PICK j \in 1..i - 1 : Makes(ms[j], ms[i].answers)
        BY <2>1, <3>1, <3>2 DEF Conversation
      <4>2. j \in 1..Len(ms)
        BY <1>2, <2>1
      <4>. QED  BY <1>2, <3>1, <4>1, <4>2
    <3>. QED  BY <2>1, <3>1, <3>2 DEF Conversation
  <2>2. ASSUME NEW l \in 1..Len(more), i = Len(ms) + l
        PROVE  /\ MessageTyped(all[i])
               /\ all[i].role = "tool" => \E j \in 1..i - 1 : Makes(all[j], all[i].answers)
    <3>1. all[i] = more[l] /\ more[l] \in ToSet(more)
      BY <1>2, <2>2, ListIs
    <3>2. ASSUME all[i].role = "tool"
          PROVE  \E j \in 1..i - 1 : Makes(all[j], all[i].answers)
      <4>1. PICK a \in ToSet(ms) : Makes(a, all[i].answers)
        BY <3>1, <3>2
      <4>2. PICK j \in 1..Len(ms) : ms[j] = a
        BY <1>1, ListIs
      <4>3. j \in 1..i - 1 /\ all[j] = a
        BY <1>2, <2>2, <4>2
      <4>. QED  BY <4>1, <4>3
    <3>. QED  BY <3>1, <3>2
  <2>. QED  BY <1>2, <2>1, <2>2
<1>. QED  BY <1>2, <1>3, Zenon DEF Conversation, all

\* The parts of a message are no results.
LEMMA PartsPlain ==
  ASSUME NEW m, MessageTyped(m)
  PROVE  LET plain == [j \in DOMAIN m.parts |-> Block(m.parts[j], None, None)] \o m.calls
             bedrock == Parts(m, BedrockParts) \o m.calls
         IN  \A s \in {plain, bedrock} :
                /\ IsList(s)
                /\ \A b \in ToSet(s) : b.kind # "result"
                /\ ToSet(m.calls) \subseteq ToSet(s)
<1>. DEFINE plain == [j \in DOMAIN m.parts |-> Block(m.parts[j], None, None)]
            bedrock == Parts(m, BedrockParts)
<1>1. /\ IsList(m.parts) /\ DOMAIN m.parts = 1..Len(m.parts) /\ Len(m.parts) \in Nat
      /\ \A j \in 1..Len(m.parts) : m.parts[j] \in {"text", "data", "link"}
      /\ IsList(m.calls) /\ \A c \in ToSet(m.calls) : c.kind = "call"
  BY ListIs DEF MessageTyped, AreCalls
<1>2. IsList(plain) /\ \A b \in ToSet(plain) : b.kind # "result"
  <2>1. plain = [j \in 1..Len(m.parts) |-> plain[j]]
    BY <1>1
  <2>2. IsList(plain) /\ Len(plain) = Len(m.parts)
    <3>. HIDE DEF plain
    <3>. QED  BY <1>1, <2>1, FunctionList
  <2>3. \A j \in 1..Len(m.parts) : plain[j].kind # "result"
    BY <1>1 DEF Block
  <2>. HIDE DEF plain
  <2>. QED  BY <2>2, <2>3, ListIs
<1>3. IsList(bedrock) /\ \A b \in ToSet(bedrock) : b.kind # "result"
  <2>1. bedrock = [j \in 1..Len(m.parts) |-> bedrock[j]]
    BY <1>1 DEF Parts
  <2>2. IsList(bedrock) /\ Len(bedrock) = Len(m.parts)
    <3>. HIDE DEF bedrock
    <3>. QED  BY <1>1, <2>1, FunctionList
  <2>3. \A j \in 1..Len(m.parts) : bedrock[j].kind # "result"
    BY <1>1 DEF Block, Parts, BedrockParts
  <2>. HIDE DEF bedrock
  <2>. QED  BY <2>2, <2>3, ListIs
<1>4. ASSUME NEW s \in {plain, bedrock}
      PROVE  /\ IsList(s \o m.calls)
             /\ \A b \in ToSet(s \o m.calls) : b.kind # "result"
             /\ ToSet(m.calls) \subseteq ToSet(s \o m.calls)
  <2>. HIDE DEF plain, bedrock
  <2>1. IsList(s) /\ \A b \in ToSet(s) : b.kind # "result"
    BY <1>2, <1>3
  <2>2. IsList(s \o m.calls) /\ ToSet(s \o m.calls) = ToSet(s) \cup ToSet(m.calls)
    BY <1>1, <2>1, Joined
  <2>. QED  BY <1>1, <2>1, <2>2
<1>. HIDE DEF plain, bedrock
<1>5. \A s \in {plain \o m.calls, bedrock \o m.calls} :
         /\ IsList(s)
         /\ \A b \in ToSet(s) : b.kind # "result"
         /\ ToSet(m.calls) \subseteq ToSet(s)
  BY <1>4
<1>. QED  BY <1>5, Zenon DEF plain, bedrock

\* The client's own dialect has a turn for each message.
LEMMA OpenAIAnswered ==
  ASSUME NEW ms, Conversation(ms)
  PROVE  Answered(OpenAITurns(ms))
<1>. DEFINE turns == OpenAITurns(ms)
            plain(m) == [j \in DOMAIN m.parts |-> Block(m.parts[j], None, None)] \o m.calls
<1>1. IsList(ms) /\ DOMAIN ms = 1..Len(ms) /\ Len(ms) \in Nat
  BY ListIs DEF Conversation
<1>2. /\ DOMAIN turns = 1..Len(ms)
      /\ \A i \in 1..Len(ms) :
            turns[i].blocks = IF ms[i].role = "tool" THEN <<Block("result", ms[i].answers, None)>>
                              ELSE plain(ms[i])
  BY <1>1 DEF OpenAITurns, Turn
<1>3. \A i \in 1..Len(ms) :
         /\ \A b \in ToSet(plain(ms[i])) : b.kind # "result"
         /\ ToSet(ms[i].calls) \subseteq ToSet(plain(ms[i]))
         /\ \A c \in ToSet(ms[i].calls) : c.kind = "call"
  <2>1. \A i \in 1..Len(ms) : MessageTyped(ms[i])
    BY DEF Conversation
  <2>2. \A m : MessageTyped(m) => /\ \A b \in ToSet(plain(m)) : b.kind # "result"
                                 /\ ToSet(m.calls) \subseteq ToSet(plain(m))
    BY PartsPlain, Zenon
  <2>3. \A m : MessageTyped(m) => \A c \in ToSet(m.calls) : c.kind = "call"
    BY DEF MessageTyped, AreCalls
  <2>. HIDE DEF plain
  <2>. QED  BY <2>1, <2>2, <2>3
<1>. HIDE DEF turns, plain
<1>4. ASSUME NEW i \in 1..Len(ms), NEW b \in ToSet(turns[i].blocks), b.kind = "result"
      PROVE  \E c \in CallsBefore(turns, i) : c.id = b.id
  <2>1. ms[i].role = "tool" /\ b \in ToSet(<<Block("result", ms[i].answers, None)>>)
    BY <1>2, <1>3, <1>4
  <2>2. b.id = ms[i].answers
    <3>1. b = Block("result", ms[i].answers, None)
      BY <2>1, ShortLists
    <3>. QED  BY <3>1 DEF Block
  <2>3. PICK j \in 1..i - 1 : Makes(ms[j], ms[i].answers)
    BY <2>1 DEF Conversation
  <2>4. j \in 1..Len(ms)
    BY <1>1
  <2>5. PICK c \in ToSet(ms[j].calls) : c.id = ms[i].answers
    BY <2>3 DEF Makes
  <2>6. ms[j].role # "tool"
    BY <2>3 DEF Makes
  <2>7. c \in ToSet(turns[j].blocks) /\ c.kind = "call"
    BY <1>2, <1>3, <2>4, <2>5, <2>6
  <2>8. c \in CallsBefore(turns, i)
    BY <2>7 DEF CallsBefore
  <2>. QED  BY <2>2, <2>5, <2>8
<1>. QED  BY <1>2, <1>4 DEF Answered, turns

\* For Bedrock turns without content are left out; those with calls stay, and
\* in their places.
LEMMA BedrockAnswered ==
  ASSUME NEW ms, Conversation(ms)
  PROVE  Answered(BedrockTurns(ms))
<1>. DEFINE bedrock(m) == Parts(m, BedrockParts) \o m.calls
            turnsOf(m) ==
                CASE System(m) -> <<>>
                  [] m.role \in {"user", "assistant"} -> UnlessEmpty(m.role, bedrock(m))
                  [] m.role = "tool" -> <<Turn("user", <<Block("result", m.answers, None)>>)>>
            q == [i \in DOMAIN ms |-> turnsOf(ms[i])]
            turns == FlattenSeq(q)
<1>1. IsList(ms) /\ DOMAIN ms = 1..Len(ms) /\ Len(ms) \in Nat
  BY ListIs DEF Conversation
<1>2. ASSUME NEW i \in 1..Len(ms), ms[i].role = "tool"
      PROVE  IsList(q[i]) /\ ToSet(q[i]) = {Turn("user", <<Block("result", ms[i].answers, None)>>)}
  <2>1. q[i] = <<Turn("user", <<Block("result", ms[i].answers, None)>>)>>
    BY <1>1, <1>2 DEF System
  <2>. HIDE DEF q
  <2>. QED  BY <2>1, ShortLists
<1>3. ASSUME NEW i \in 1..Len(ms), ms[i].role # "tool"
      PROVE  /\ IsList(q[i])
             /\ \A x \in ToSet(q[i]) : x = Turn(ms[i].role, bedrock(ms[i]))
             /\ ms[i].role = "assistant" /\ bedrock(ms[i]) # <<>> =>
                    Turn(ms[i].role, bedrock(ms[i])) \in ToSet(q[i])
  <2>1. ms[i].role \in {"system", "user", "assistant"}
    BY <1>3 DEF Conversation, MessageTyped
  <2>2. \/ q[i] = <<>> /\ (ms[i].role # "assistant" \/ bedrock(ms[i]) = <<>>)
        \/ q[i] = <<Turn(ms[i].role, bedrock(ms[i]))>>
    <3>. DEFINE x == UnlessEmpty(ms[i].role, bedrock(ms[i]))
    <3>1. q[i] = IF ms[i].role = "system" THEN <<>> ELSE x
      <4>. HIDE DEF bedrock, x
      <4>1. i \in DOMAIN ms
        BY <1>1
      <4>. QED  BY <2>1, <4>1 DEF System, x
    <3>2. x = IF bedrock(ms[i]) = <<>> THEN <<>> ELSE <<Turn(ms[i].role, bedrock(ms[i]))>>
      BY Zenon DEF UnlessEmpty
    <3>. HIDE DEF bedrock, x, q
    <3>. QED  BY <2>1, <3>1, <3>2
  <2>. HIDE DEF q, bedrock
  <2>. QED  BY <2>2, ShortLists
<1>4. ASSUME NEW i \in 1..Len(ms)
      PROVE  /\ \A b \in ToSet(bedrock(ms[i])) : b.kind # "result"
             /\ ToSet(ms[i].calls) \subseteq ToSet(bedrock(ms[i]))
             /\ \A c \in ToSet(ms[i].calls) : c.kind = "call"
  <2>1. MessageTyped(ms[i])
    BY DEF Conversation
  <2>2. /\ \A b \in ToSet(bedrock(ms[i])) : b.kind # "result"
        /\ ToSet(ms[i].calls) \subseteq ToSet(bedrock(ms[i]))
    BY <2>1, PartsPlain, Zenon
  <2>3. \A c \in ToSet(ms[i].calls) : c.kind = "call"
    BY <2>1 DEF MessageTyped, AreCalls
  <2>. QED  BY <2>2, <2>3, Zenon
<1>. HIDE DEF bedrock, turnsOf
<1>5. q = [i \in 1..Len(ms) |-> q[i]]
  BY <1>1
<1>. HIDE DEF q
<1>6. InOrder(turns, q, Len(ms))
  BY <1>1, <1>2, <1>3, <1>5, Flattened
<1>7. BedrockTurns(ms) = turns
  BY Zenon DEF BedrockTurns, q, bedrock, turnsOf
<1>. HIDE DEF turns
<1>8. DOMAIN turns = 1..Len(turns) /\ Len(turns) \in Nat
  BY <1>6, ListIs DEF InOrder
<1>9. ASSUME NEW m \in 1..Len(turns), NEW b \in ToSet(turns[m].blocks), b.kind = "result"
      PROVE  \E c \in CallsBefore(turns, m) : c.id = b.id
  <2>1. PICK i \in 1..Len(ms) :
           /\ turns[m] \in ToSet(q[i])
           /\ \A j \in 1..i - 1 : \A x \in ToSet(q[j]) : \E k \in 1..m - 1 : turns[k] = x
    BY <1>6 DEF InOrder
  <2>2. ms[i].role = "tool"
    <3>1. SUFFICES ASSUME ms[i].role # "tool" PROVE FALSE
      OBVIOUS
    <3>2. turns[m] = Turn(ms[i].role, bedrock(ms[i]))
      BY <1>3, <2>1, <3>1
    <3>3. turns[m].blocks = bedrock(ms[i])
      BY <3>2 DEF Turn
    <3>. QED  BY <1>4, <1>9, <3>3
  <2>3. b.id = ms[i].answers
    <3>1. turns[m] = Turn("user", <<Block("result", ms[i].answers, None)>>)
      BY <1>2, <2>1, <2>2
    <3>2. turns[m].blocks = <<Block("result", ms[i].answers, None)>>
      BY <3>1 DEF Turn
    <3>3. b = Block("result", ms[i].answers, None)
      BY <1>9, <3>2, ShortLists
    <3>. QED  BY <3>3 DEF Block
  <2>4. PICK j \in 1..i - 1 : Makes(ms[j], ms[i].answers)
    BY <2>2 DEF Conversation
  <2>5. j \in 1..Len(ms) /\ ms[j].role = "assistant"
    BY <1>1, <2>4 DEF Makes
  <2>6. PICK c \in ToSet(ms[j].calls) : c.id = ms[i].answers
    BY <2>4 DEF Makes
  <2>7. c \in ToSet(bedrock(ms[j])) /\ c.kind = "call"
    BY <1>4, <2>5, <2>6
  <2>8. bedrock(ms[j]) # <<>>
    BY <2>7, ShortLists
  <2>9. PICK k \in 1..m - 1 : turns[k] = Turn(ms[j].role, bedrock(ms[j]))
    BY <1>3, <2>1, <2>5, <2>8
  <2>10. turns[k].blocks = bedrock(ms[j])
    BY <2>9 DEF Turn
  <2>11. c \in CallsBefore(turns, m)
    BY <2>7, <2>10 DEF CallsBefore
  <2>. QED  BY <2>3, <2>6, <2>11
<1>10. Answered(turns)
  BY <1>8, <1>9 DEF Answered
<1>. QED  BY <1>7, <1>10

-----------------------------------------------------------------------------
\* What an accumulator has at any time.
AccTyped(a) ==
    /\ a = [texts |-> a.texts, calls |-> a.calls, finish |-> a.finish, done |-> a.done]
    /\ IsList(a.texts) /\ IsList(a.calls) /\ a.done \in BOOLEAN

\* What is on the wire. Only Gemini has no kinds of events.
EventTyped(e) ==
    /\ e.index \in Nat
    /\ Provider = "gemini" \/ e.kind \in {"message", "start", "delta", "stopping", "end"}

EventsTyped(s) == IsList(s) /\ \A e \in ToSet(s) : EventTyped(e)

\* What the bridge makes of an event.
DeltaTyped(d) ==
    /\ d.index \in Nat
    /\ d.kind \in {"text", "call", "arguments", "finish", "done", "role"}

DeltasTyped(s) == IsList(s) /\ \A d \in ToSet(s) : DeltaTyped(d)

\* A delta more keeps it one.
LEMMA PushKeeps ==
  ASSUME NEW a, AccTyped(a), NEW d, DeltaTyped(d)
  PROVE  AccTyped(Push(a, d))
<1>. DEFINE at == Padded(a.calls, d.index)
            i == d.index + 1
            named == [at EXCEPT ![i].id = d.block.id, ![i].names = Append(@, d.block.tool)]
            argued == [at EXCEPT ![i].arguments = Append(@, d.block.id)]
            n == IF Len(a.calls) > d.index THEN Len(a.calls) ELSE d.index + 1
<1>1. n \in Nat /\ at = [k \in 1..n |-> at[k]]
  BY ListIs DEF AccTyped, DeltaTyped, Padded
<1>2. IsList(named) /\ IsList(argued)
  <2>1. named = [k \in 1..n |-> named[k]] /\ argued = [k \in 1..n |-> argued[k]]
    <3>. HIDE DEF at, n, i
    <3>. QED  BY <1>1
  <2>. HIDE DEF named, argued, n
  <2>. QED  BY <1>1, <2>1, FunctionList
<1>3. IsList(Append(a.texts, d.block))
  <2>1. Append(a.texts, d.block) = a.texts \o <<d.block>>
    BY DEF AccTyped, IsList
  <2>. QED  BY <2>1, Joined, ShortLists DEF AccTyped
<1>4. \/ Push(a, d) = a
      \/ Push(a, d) = [a EXCEPT !.texts = Append(a.texts, d.block)]
      \/ Push(a, d) = [a EXCEPT !.calls = named]
      \/ Push(a, d) = [a EXCEPT !.calls = argued]
      \/ Push(a, d) = [a EXCEPT !.finish = d.stop]
      \/ Push(a, d) = [a EXCEPT !.done = TRUE]
  BY DEF Push, DeltaTyped
<1>. HIDE DEF named, argued
<1>. QED  BY <1>2, <1>3, <1>4 DEF AccTyped

\* What PushAll computes, step by step.
Pushes(f, a, s, k) == f = [n \in 0..k |-> IF n = 0 THEN a ELSE Push(f[n - 1], s[n])]

\* Its recursion has a result, whose every step is an accumulator.
LEMMA PushAllKeeps ==
  ASSUME NEW a, AccTyped(a), NEW s, DeltasTyped(s)
  PROVE  AccTyped(PushAll(a, s))
<1>. DEFINE S == {k \in Nat : \E f : Pushes(f, a, s, k)}
<1>1. 0 \in S
  <2>1. Pushes([n \in 0..0 |-> a], a, s, 0)
    BY DEF Pushes
  <2>. QED  BY <2>1
<1>2. ASSUME NEW k \in Nat, k \in S PROVE k + 1 \in S
  <2>1. PICK f : Pushes(f, a, s, k)
    BY <1>2
  <2>. DEFINE step(g, n) == IF n = 0 THEN a ELSE Push(g[n - 1], s[n])
              g == [n \in 0..(k + 1) |-> IF n <= k THEN f[n] ELSE step(f, n)]
  <2>2. \A n \in 0..k : f[n] = step(f, n)
    BY <2>1 DEF Pushes
  <2>3. ASSUME NEW n \in 0..(k + 1) PROVE g[n] = step(g, n)
    <3>1. g[n] = step(f, n)
      BY <2>2
    <3>2. n # 0 => n - 1 \in 0..(k + 1) /\ n - 1 <= k
      OBVIOUS
    <3>3. n # 0 => g[n - 1] = f[n - 1]
      BY <3>2
    <3>. QED  BY <3>1, <3>3
  <2>4. g = [n \in 0..(k + 1) |-> step(g, n)]
    <3>1. g = [n \in 0..(k + 1) |-> g[n]]
      OBVIOUS
    <3>. HIDE DEF g
    <3>. QED  BY <2>3, <3>1
  <2>5. Pushes(g, a, s, k + 1)
    <3>. HIDE DEF g
    <3>. QED  BY <2>4 DEF Pushes
  <2>. QED  BY <2>5
<1>3. Nat \subseteq S
  <2>. HIDE DEF S
  <2>. QED  BY <1>1, <1>2, SetInduction
<1>4. Len(s) \in Nat /\ \A n \in 1..Len(s) : DeltaTyped(s[n])
  BY ListIs DEF DeltasTyped
<1>5. PICK f : Pushes(f, a, s, Len(s)) /\ PushAll(a, s) = f[Len(s)]
  <2>. DEFINE f == CHOOSE f : Pushes(f, a, s, Len(s))
  <2>1. Pushes(f, a, s, Len(s))
    BY <1>3, <1>4
  <2>2. PushAll(a, s) = f[Len(s)]
    BY Zenon DEF PushAll, Pushes
  <2>. QED  BY <2>1, <2>2, Zenon
<1>6. \A n \in 0..Len(s) : f[n] = IF n = 0 THEN a ELSE Push(f[n - 1], s[n])
  <2>. DEFINE step(n) == IF n = 0 THEN a ELSE Push(f[n - 1], s[n])
  <2>1. f = [n \in 0..Len(s) |-> step(n)]
    BY <1>5, Zenon DEF Pushes
  <2>2. \A n \in 0..Len(s) : f[n] = step(n)
    <3>. HIDE DEF step
    <3>. QED  BY <2>1, Zenon
  <2>. QED  BY <2>2, Zenon
<1>. DEFINE T == {n \in Nat : n \in 0..Len(s) => AccTyped(f[n])}
<1>7. 0 \in T
  BY <1>4, <1>6
<1>8. ASSUME NEW n \in Nat, n \in T PROVE n + 1 \in T
  <2>1. ASSUME n + 1 \in 0..Len(s) PROVE AccTyped(f[n + 1])
    <3>1. n \in 0..Len(s) /\ n + 1 \in 1..Len(s) /\ n + 1 # 0 /\ (n + 1) - 1 = n
      BY <1>4, <2>1
    <3>2. f[n + 1] = Push(f[n], s[n + 1])
      BY <1>6, <2>1, <3>1
    <3>3. AccTyped(f[n]) /\ DeltaTyped(s[n + 1])
      BY <1>4, <1>8, <3>1
    <3>. QED  BY <3>2, <3>3, PushKeeps
  <2>. QED  BY <2>1
<1>9. Nat \subseteq T
  <2>. HIDE DEF T
  <2>. QED  BY <1>7, <1>8, SetInduction
<1>. QED  BY <1>4, <1>5, <1>9

\* Deltas, one list after another.
LEMMA DeltasJoined ==
  /\ \A s, t : DeltasTyped(s) /\ DeltasTyped(t) => DeltasTyped(s \o t)
  /\ \A d : DeltaTyped(d) => DeltasTyped(<<d>>)
  /\ DeltasTyped(<<>>)
  /\ \A q : \A n \in Nat : q = [i \in 1..n |-> q[i]] /\ (\A i \in 1..n : DeltasTyped(q[i]))
        => DeltasTyped(FlattenSeq(q))
<1>1. ASSUME NEW s, NEW t, DeltasTyped(s), DeltasTyped(t) PROVE DeltasTyped(s \o t)
  <2>1. IsList(s) /\ IsList(t) /\ \A d \in ToSet(s) \cup ToSet(t) : DeltaTyped(d)
    BY <1>1 DEF DeltasTyped
  <2>2. IsList(s \o t) /\ ToSet(s \o t) = ToSet(s) \cup ToSet(t)
    BY <2>1, Joined
  <2>. QED  BY <2>1, <2>2, Zenon DEF DeltasTyped
<1>2. ASSUME NEW d, DeltaTyped(d) PROVE DeltasTyped(<<d>>)
  BY <1>2, ShortLists, Zenon DEF DeltasTyped
<1>3. DeltasTyped(<<>>)
  BY ShortLists, Zenon DEF DeltasTyped
<1>4. ASSUME NEW q, NEW n \in Nat, q = [i \in 1..n |-> q[i]], \A i \in 1..n : DeltasTyped(q[i])
      PROVE  DeltasTyped(FlattenSeq(q))
  <2>. DEFINE f == FlattenSeq(q)
  <2>1. \A i \in 1..n : IsList(q[i]) /\ \A d \in ToSet(q[i]) : DeltaTyped(d)
    BY <1>4 DEF DeltasTyped
  <2>2. InOrder(f, q, n)
    BY <1>4, <2>1, Flattened
  <2>. HIDE DEF f
  <2>3. IsList(f) /\ \A m \in 1..Len(f) : DeltaTyped(f[m])
    BY <2>1, <2>2 DEF InOrder
  <2>4. \A d \in ToSet(f) : DeltaTyped(d)
    BY <2>3, ListIs
  <2>5. DeltasTyped(f)
    BY <2>3, <2>4 DEF DeltasTyped
  <2>. QED  BY <2>5 DEF f
<1>. QED  BY <1>1, <1>2, <1>3, <1>4, Zenon

\* The same of Delta.
LEMMA DeltaMade ==
  ASSUME NEW index \in Nat, NEW e
  PROVE  DeltasTyped(Delta(index, e))
<1>1. DeltaTyped(Event("text", 0, e.block, None)) /\ DeltaTyped(Event("arguments", index, e.block, None))
  BY DEF DeltaTyped, Event
<1>. QED  BY <1>1, DeltasJoined, Zenon DEF Delta

\* What a chunk is translated to.
LEMMA ChunkMade ==
  ASSUME NEW es, EventsTyped(es)
  PROVE  DeltasTyped(TranslateChunk(Provider, es))
<1>1. DOMAIN es = 1..Len(es) /\ Len(es) \in Nat /\ \A i \in 1..Len(es) : EventTyped(es[i])
  BY ListIs DEF EventsTyped
<1>2. CASE Provider = "gemini"
  <2>. DEFINE index(i) == Cardinality({j \in 1..i - 1 : es[j].block.kind = "call"})
              part(i)  == IF es[i].block.kind = "text" THEN Delta(0, es[i])
                          ELSE <<Event("call", index(i), es[i].block, None)>> \o Delta(index(i), es[i])
              reason(i) == IF es[i].stop = None THEN <<>>
                           ELSE <<Event("finish", 0, None,
                                        IF es[i].stop = "RECITATION" THEN "stop"
                                        ELSE Stops("gemini")[es[i].stop])>>
              q == [i \in DOMAIN es |-> part(i) \o reason(i)]
  <2>1. ASSUME NEW i \in 1..Len(es) PROVE index(i) \in Nat
    <3>1. IsFiniteSet(1..i - 1)
      BY <1>1, FS_Interval
    <3>. QED  BY <3>1, FS_Subset, FS_CardinalityType
  <2>. HIDE DEF index
  <2>2. ASSUME NEW i \in 1..Len(es) PROVE DeltasTyped(part(i))
    <3>1. DeltaTyped(Event("call", index(i), es[i].block, None))
      BY <2>1 DEF DeltaTyped, Event
    <3>2. /\ DeltasTyped(<<Event("call", index(i), es[i].block, None)>>)
          /\ DeltasTyped(Delta(0, es[i])) /\ DeltasTyped(Delta(index(i), es[i]))
      BY <2>1, <3>1, DeltaMade, DeltasJoined
    <3>. QED  BY <3>2, DeltasJoined, Zenon
  <2>3. ASSUME NEW i \in 1..Len(es) PROVE DeltasTyped(reason(i))
    <3>1. \A s : DeltaTyped(Event("finish", 0, None, s))
      BY DEF DeltaTyped, Event
    <3>. QED  BY <3>1, DeltasJoined, Zenon
  <2>. HIDE DEF part, reason
  <2>4. DeltasTyped(FlattenSeq(q))
    <3>1. q = [i \in 1..Len(es) |-> q[i]] /\ \A i \in 1..Len(es) : q[i] = part(i) \o reason(i)
      BY <1>1
    <3>2. \A i \in 1..Len(es) : DeltasTyped(part(i) \o reason(i))
      BY <2>2, <2>3, DeltasJoined, Zenon
    <3>. HIDE DEF q
    <3>3. \A i \in 1..Len(es) : DeltasTyped(q[i])
      BY <3>1, <3>2, Zenon
    <3>. QED  BY <1>1, <3>1, <3>3, DeltasJoined, Zenon
  <2>5. DeltasTyped(<<Signal("role")>>) /\ DeltasTyped(<<Done>>)
    <3>1. DeltaTyped(Signal("role")) /\ DeltaTyped(Done)
      BY DEF DeltaTyped, Signal, Done, Event
    <3>. QED  BY <3>1, DeltasJoined, Zenon
  <2>6. DeltasTyped(<<Signal("role")>> \o FlattenSeq(q) \o <<Done>>)
    <3>. HIDE DEF q
    <3>. QED  BY <2>4, <2>5, DeltasJoined, Zenon
  <2>7. TranslateChunk(Provider, es) = <<Signal("role")>> \o FlattenSeq(q) \o <<Done>>
    BY <1>2, Zenon DEF TranslateChunk, GeminiDeltas, index, part, reason
  <2>. HIDE DEF q
  <2>. QED  BY <2>6, <2>7, Zenon
<1>3. CASE Provider # "gemini"
  <2>. DEFINE q == [i \in DOMAIN es |-> MessageDeltas(Provider, es[i])]
  <2>1. ASSUME NEW i \in 1..Len(es) PROVE DeltasTyped(MessageDeltas(Provider, es[i]))
    <3>. DEFINE e == es[i]
                finish == Event("finish", 0, None, IF e.stop = "guardrail_intervened" THEN "stop"
                                                   ELSE Stops(Provider)[e.stop])
                last == IF Provider = "bedrock" THEN <<Done>> ELSE <<>>
    <3>1. e.index \in Nat /\ e.kind \in {"message", "start", "delta", "stopping", "end"}
      BY <1>1, <1>3 DEF EventTyped
    <3>2. /\ DeltaTyped(Signal("role")) /\ DeltaTyped(Done) /\ DeltaTyped(finish)
          /\ DeltaTyped(Event("call", e.index, e.block, None))
      BY <3>1 DEF DeltaTyped, Signal, Done, Event
    <3>. HIDE DEF finish
    <3>3. /\ DeltasTyped(<<Signal("role")>>) /\ DeltasTyped(<<Done>>) /\ DeltasTyped(<<finish>>)
          /\ DeltasTyped(<<Event("call", e.index, e.block, None)>>) /\ DeltasTyped(<<>>)
      BY <3>2, DeltasJoined, Zenon
    <3>4. DeltasTyped(last)
      BY <3>3, Zenon
    <3>5. DeltasTyped(<<finish>> \o last)
      <4>. HIDE DEF last
      <4>. QED  BY <3>3, <3>4, DeltasJoined, Zenon
    <3>6. DeltasTyped(Delta(e.index, e))
      BY <3>1, DeltaMade, Zenon
    <3>7. \/ MessageDeltas(Provider, e) = <<Signal("role")>>
          \/ MessageDeltas(Provider, e) = <<Event("call", e.index, e.block, None)>>
          \/ MessageDeltas(Provider, e) = Delta(e.index, e)
          \/ MessageDeltas(Provider, e) = <<finish>> \o last
          \/ MessageDeltas(Provider, e) = <<>>
          \/ MessageDeltas(Provider, e) = <<Done>>
      <4>. HIDE DEF e, last
      <4>. QED  BY <3>1 DEF MessageDeltas, finish, last
    <3>. HIDE DEF last, e
    <3>8. DeltasTyped(MessageDeltas(Provider, e))
      BY <3>3, <3>5, <3>6, <3>7, Zenon
    <3>. QED  BY <3>8, Zenon DEF e
  <2>2. q = [i \in 1..Len(es) |-> q[i]] /\ \A i \in 1..Len(es) : DeltasTyped(q[i])
    BY <1>1, <2>1
  <2>3. DeltasTyped(FlattenSeq(q))
    <3>. HIDE DEF q
    <3>. QED  BY <1>1, <2>2, DeltasJoined, Zenon
  <2>. QED  BY <1>3, <2>3, Zenon DEF TranslateChunk
<1>. QED  BY <1>2, <1>3

\* What a provider sends.
LEMMA EventsMade ==
  ASSUME NEW a, IsList(a.blocks)
  PROVE  EventsTyped(Events(Provider, a))
<1>. DEFINE n == Len(a.blocks)
<1>1. DOMAIN a.blocks = 1..n /\ n \in Nat
  BY ListIs
<1>2. CASE Provider = "gemini"
  <2>. DEFINE event(i) == Event("part", 0, a.blocks[i], IF i = n THEN a.stop ELSE None)
              es == [i \in DOMAIN a.blocks |-> event(i)]
  <2>1. \A i \in 1..n : EventTyped(event(i))
    BY <1>2 DEF EventTyped, Event
  <2>. HIDE DEF event
  <2>2. es = [i \in 1..n |-> es[i]] /\ \A i \in 1..n : es[i] = event(i)
    BY <1>1
  <2>3. Events(Provider, a) = es
    BY <1>2, Zenon DEF Events, event
  <2>. HIDE DEF es
  <2>4. IsList(es) /\ Len(es) = n
    BY <1>1, <2>2, FunctionList
  <2>5. \A i \in 1..n : EventTyped(es[i])
    BY <2>1, <2>2, Zenon
  <2>6. \A e \in ToSet(es) : EventTyped(e)
    BY <2>4, <2>5, ListIs
  <2>. QED  BY <2>3, <2>4, <2>6 DEF EventsTyped
<1>3. CASE Provider # "gemini"
  <2>. DEFINE start(i) == Event("start", i - 1, a.blocks[i], None)
              delta(i) == Event("delta", i - 1, a.blocks[i], None)
              of(i) == IF a.blocks[i].kind = "call" THEN <<start(i), delta(i)>> ELSE <<delta(i)>>
              q == [i \in DOMAIN a.blocks |-> of(i)]
              between == FlattenSeq(q)
              after == <<Event("stopping", 0, None, a.stop), Signal("end")>>
              es == <<Signal("message")>> \o between \o after
  <2>1. ASSUME NEW i \in 1..n PROVE EventsTyped(of(i))
    <3>1. EventTyped(start(i)) /\ EventTyped(delta(i))
      BY <1>1 DEF EventTyped, Event
    <3>. HIDE DEF start, delta
    <3>2. \/ of(i) = <<delta(i)>>
          \/ of(i) = <<start(i)>> \o <<delta(i)>>
      OBVIOUS
    <3>3. /\ IsList(<<delta(i)>>) /\ ToSet(<<delta(i)>>) = {delta(i)}
          /\ IsList(<<start(i)>>) /\ ToSet(<<start(i)>>) = {start(i)}
      BY ShortLists, Zenon
    <3>4. /\ IsList(<<start(i)>> \o <<delta(i)>>)
          /\ ToSet(<<start(i)>> \o <<delta(i)>>) = {start(i)} \cup {delta(i)}
      BY <3>3, Joined
    <3>. HIDE DEF of
    <3>. QED  BY <3>1, <3>2, <3>3, <3>4 DEF EventsTyped
  <2>. HIDE DEF of
  <2>2. q = [i \in 1..n |-> q[i]] /\ \A i \in 1..n : q[i] = of(i)
    BY <1>1
  <2>. HIDE DEF q
  <2>3. \A i \in 1..n : IsList(q[i]) /\ \A e \in ToSet(q[i]) : EventTyped(e)
    BY <2>1, <2>2 DEF EventsTyped
  <2>4. InOrder(between, q, n)
    BY <1>1, <2>2, <2>3, Flattened
  <2>. HIDE DEF between
  <2>5. IsList(between) /\ \A e \in ToSet(between) : EventTyped(e)
    BY <2>3, <2>4, ListIs DEF InOrder
  <2>6. IsList(after) /\ \A e \in ToSet(after) : EventTyped(e)
    <3>. DEFINE x == Event("stopping", 0, None, a.stop)
                y == Signal("end")
    <3>1. EventTyped(x) /\ EventTyped(y)
      BY DEF EventTyped, Event, Signal
    <3>. HIDE DEF x, y
    <3>2. after = <<x>> \o <<y>>
      BY DEF x, y
    <3>3. IsList(<<x>>) /\ ToSet(<<x>>) = {x} /\ IsList(<<y>>) /\ ToSet(<<y>>) = {y}
      BY ShortLists, Zenon
    <3>4. IsList(<<x>> \o <<y>>) /\ ToSet(<<x>> \o <<y>>) = {x} \cup {y}
      BY <3>3, Joined
    <3>. HIDE DEF after
    <3>. QED  BY <3>1, <3>2, <3>4
  <2>7. /\ IsList(<<Signal("message")>>)
        /\ \A e \in ToSet(<<Signal("message")>>) : EventTyped(e)
    <3>1. EventTyped(Signal("message"))
      BY DEF EventTyped, Event, Signal
    <3>. QED  BY <3>1, ShortLists
  <2>. HIDE DEF after
  <2>8. /\ IsList(<<Signal("message")>> \o between)
        /\ \A e \in ToSet(<<Signal("message")>> \o between) : EventTyped(e)
    BY <2>5, <2>7, Joined
  <2>9. IsList(es) /\ \A e \in ToSet(es) : EventTyped(e)
    BY <2>6, <2>8, Joined
  <2>10. Events(Provider, a) = es
    BY <1>3, Zenon DEF Events, BlockEvents, es, between, after, q, of, start, delta
  <2>. HIDE DEF es
  <2>. QED  BY <2>9, <2>10, Zenon DEF EventsTyped
<1>. QED  BY <1>2, <1>3

\* An answer's texts and calls, once translated.
LEMMA ResponseTyped ==
  ASSUME NEW p, NEW a, IsList(a.blocks),
         \A b \in ToSet(a.blocks) : b = Block(b.kind, b.id, b.tool)
  PROVE  LET r == TranslateResponse(p, a) IN IsList(r.texts) /\ AreCalls(r.calls)
<1>. DEFINE texts == OfKind(a.blocks, "text")
            calls == OfKind(a.blocks, "call")
<1>1. IsList(texts) /\ IsList(calls) /\ ToSet(calls) \subseteq ToSet(a.blocks)
      /\ \A c \in ToSet(calls) : c.kind = "call"
  BY OnlyThose DEF OfKind
<1>. HIDE DEF texts, calls
<1>2. AreCalls(calls)
  BY <1>1 DEF AreCalls
<1>3. IsList(FirstOf(texts))
  BY ShortLists, Zenon DEF FirstOf
<1>4. AreCalls(Numbered(calls))
  <2>. DEFINE f == Numbered(calls)
  <2>1. DOMAIN calls = 1..Len(calls) /\ Len(calls) \in Nat
        /\ \A i \in 1..Len(calls) : calls[i] \in ToSet(calls)
    BY <1>1, ListIs
  <2>2. f = [i \in 1..Len(calls) |-> f[i]]
    BY <2>1 DEF Numbered
  <2>3. \A i \in 1..Len(calls) : f[i].kind = "call"
    <3>1. ASSUME NEW i \in 1..Len(calls) PROVE f[i].kind = "call"
      <4>1. calls[i] = Block(calls[i].kind, calls[i].id, calls[i].tool) /\ calls[i].kind = "call"
        BY <1>1, <2>1
      <4>2. f[i] = [calls[i] EXCEPT !.id = <<"call", i - 1>>]
        BY <2>1 DEF Numbered
      <4>. QED  BY <4>1, <4>2 DEF Block
    <3>. QED  BY <3>1
  <2>. HIDE DEF f
  <2>4. IsList(f) /\ Len(f) = Len(calls)
    BY <2>1, <2>2, FunctionList
  <2>5. AreCalls(f)
    BY <2>3, <2>4, ListIs DEF AreCalls
  <2>. QED  BY <2>5 DEF f
<1>. DEFINE r == TranslateResponse(p, a)
<1>5. \/ \E z : r = Answer(FirstOf(texts), calls, z)
      \/ \E z : r = Answer(FirstOf(texts), Numbered(calls), z)
      \/ \E z : r = Answer(texts, calls, z)
  BY Zenon DEF TranslateResponse, AnthropicResponse, GeminiResponse, BedrockResponse, texts, calls
<1>. HIDE DEF r
<1>6. r.texts \in {texts, FirstOf(texts)} /\ r.calls \in {calls, Numbered(calls)}
  BY <1>5 DEF Answer
<1>7. IsList(r.texts) /\ AreCalls(r.calls)
  BY <1>1, <1>2, <1>3, <1>4, <1>6
<1>. QED  BY <1>7, Zenon DEF r

-----------------------------------------------------------------------------
\* A stream says what the whole answer says: lists that are joined, what the
\* accumulator makes of the events of an answer, and what the bridge makes of
\* the provider's frames.

\* The steps of FlattenSeq.
LEMMA FlattenSteps ==
  ASSUME NEW n \in Nat, NEW q, q = [i \in 1..n |-> q[i]], \A i \in 1..n : IsList(q[i])
  PROVE  \E f : /\ f[0] = <<>> /\ \A i \in 1..n : f[i] = f[i - 1] \o q[i]
                /\ \A i \in 0..n : IsList(f[i])
                /\ FlattenSeq(q) = f[n]
<1>1. Len(q) = n /\ IsList(q)
  BY FunctionList
<1>2. CASE n = 0
  <2>1. FlattenSeq(q) = q /\ q = <<>>
    BY <1>1, <1>2 DEF FlattenSeq
  <2>. DEFINE f == [i \in 0..0 |-> q]
  <2>2. f[0] = <<>> /\ f[n] = q /\ \A i \in 0..n : f[i] = <<>>
    BY <1>2, <2>1
  <2>3. \A i \in 1..n : f[i] = f[i - 1] \o q[i]
    BY <1>2
  <2>. HIDE DEF f
  <2>. QED  BY <2>1, <2>2, <2>3, ShortLists, Zenon
<1>3. CASE n # 0
  <2>1. PICK f : Flattens(f, q, n) /\ FlattenSeq(q) = f[n]
    <3>. DEFINE f == CHOOSE f : Flattens(f, q, n)
    <3>1. Flattens(f, q, n)
      BY FlattenDefined
    <3>2. FlattenSeq(q) = f[n]
      BY <1>1, <1>3, Zenon DEF FlattenSeq, Flattens
    <3>. QED  BY <3>1, <3>2, Zenon
  <2>2. \A i \in 1..n : f[i] = IF i = 1 THEN q[i] ELSE f[i - 1] \o q[i]
    <3>. DEFINE step(i) == IF i = 1 THEN q[i] ELSE f[i - 1] \o q[i]
    <3>1. f = [i \in 1..n |-> step(i)]
      BY <2>1, Zenon DEF Flattens
    <3>2. \A i \in 1..n : f[i] = step(i)
      <4>. HIDE DEF step
      <4>. QED  BY <3>1, Zenon
    <3>. QED  BY <3>2, Zenon
  <2>. DEFINE g == [i \in 0..n |-> IF i = 0 THEN <<>> ELSE f[i]]
  <2>3. g[0] = <<>> /\ g[n] = f[n] /\ \A i \in 1..n : g[i] = f[i]
    BY <1>3
  <2>4. \A i \in 1..n : g[i] = g[i - 1] \o q[i]
    <3>1. ASSUME NEW i \in 1..n, i = 1 PROVE g[i] = g[i - 1] \o q[i]
      <4>1. g[i] = q[i] /\ g[i - 1] = <<>>
        BY <2>2, <2>3, <3>1
      <4>2. q[i] \in Seq(ToSet(q[i]))
        BY DEF IsList
      <4>. QED  BY <4>1, <4>2
    <3>2. ASSUME NEW i \in 1..n, i # 1 PROVE g[i] = g[i - 1] \o q[i]
      <4>1. f[i] = f[i - 1] \o q[i]
        BY <2>2, <3>2
      <4>2. i - 1 \in 1..n
        BY <3>2
      <4>. HIDE DEF g
      <4>. QED  BY <2>3, <4>1, <4>2
    <3>. QED  BY <3>1, <3>2
  <2>. HIDE DEF g
  <2>. DEFINE S == {k \in Nat : k \in 0..n => IsList(g[k])}
  <2>5. 0 \in S
    BY <2>3, ShortLists
  <2>6. ASSUME NEW k \in Nat, k \in S PROVE k + 1 \in S
    <3>1. ASSUME k + 1 \in 0..n PROVE IsList(g[k + 1])
      <4>1. k \in 0..n /\ k + 1 \in 1..n /\ (k + 1) - 1 = k
        BY <3>1
      <4>2. IsList(g[k]) /\ IsList(q[k + 1]) /\ g[k + 1] = g[k] \o q[k + 1]
        BY <2>4, <2>6, <4>1
      <4>. QED  BY <4>2, Joined
    <3>. QED  BY <3>1
  <2>7. Nat \subseteq S
    <3>. HIDE DEF S
    <3>. QED  BY <2>5, <2>6, SetInduction
  <2>8. \A i \in 0..n : IsList(g[i])
    BY <2>7
  <2>. QED  BY <2>1, <2>3, <2>4, <2>8
<1>. QED  BY <1>2, <1>3

\* There is one such result.
LEMMA FlattenIs ==
  ASSUME NEW n \in Nat, NEW q, q = [i \in 1..n |-> q[i]], \A i \in 1..n : IsList(q[i]),
         NEW g, g[0] = <<>>, \A i \in 1..n : g[i] = g[i - 1] \o q[i]
  PROVE  FlattenSeq(q) = g[n]
<1>1. PICK f : /\ f[0] = <<>> /\ \A i \in 1..n : f[i] = f[i - 1] \o q[i]
               /\ FlattenSeq(q) = f[n]
  BY FlattenSteps
<1>. DEFINE S == {k \in Nat : k \in 0..n => f[k] = g[k]}
<1>2. 0 \in S
  BY <1>1
<1>3. ASSUME NEW k \in Nat, k \in S PROVE k + 1 \in S
  <2>1. ASSUME k + 1 \in 0..n PROVE f[k + 1] = g[k + 1]
    <3>1. k \in 0..n /\ k + 1 \in 1..n /\ (k + 1) - 1 = k
      BY <2>1
    <3>2. f[k + 1] = f[k] \o q[k + 1] /\ g[k + 1] = g[k] \o q[k + 1] /\ f[k] = g[k]
      BY <1>1, <1>3, <3>1
    <3>. QED  BY <3>2
  <2>. QED  BY <2>1
<1>4. Nat \subseteq S
  <2>. HIDE DEF S
  <2>. QED  BY <1>2, <1>3, SetInduction
<1>. QED  BY <1>1, <1>4

\* Joining lists is associative.
LEMMA Associative ==
  ASSUME NEW x, NEW y, NEW z, IsList(x), IsList(y), IsList(z)
  PROVE  x \o (y \o z) = (x \o y) \o z
<1>. DEFINE E == ToSet(x) \cup ToSet(y) \cup ToSet(z)
<1>1. x \in Seq(E) /\ y \in Seq(E) /\ z \in Seq(E)
  <2>1. \A A, B : A \subseteq B => Seq(A) \subseteq Seq(B)
    OBVIOUS
  <2>. QED  BY <2>1 DEF IsList
<1>. HIDE DEF E
<1>. QED  BY <1>1

\* Two lists of lists, one after the other.
LEMMA FlattenJoined ==
  ASSUME NEW q, NEW r, IsList(q), IsList(r),
         \A i \in 1..Len(q) : IsList(q[i]), \A i \in 1..Len(r) : IsList(r[i])
  PROVE  FlattenSeq(q \o r) = FlattenSeq(q) \o FlattenSeq(r)
<1>. DEFINE n == Len(q)
            m == Len(r)
            all == q \o r
<1>1. /\ n \in Nat /\ m \in Nat /\ q = [i \in 1..n |-> q[i]] /\ r = [i \in 1..m |-> r[i]]
  BY DEF IsList
<1>2. /\ all = [i \in 1..(n + m) |-> all[i]]
      /\ \A i \in 1..n : all[i] = q[i]
      /\ \A i \in 1..m : all[n + i] = r[i]
  <2>1. /\ IsList(all) /\ Len(all) = n + m
        /\ \A i \in 1..n : all[i] = q[i]
        /\ \A i \in 1..m : all[n + i] = r[i]
    BY Joined
  <2>. HIDE DEF all
  <2>2. all = [i \in 1..Len(all) |-> all[i]]
    BY <2>1 DEF IsList
  <2>. QED  BY <2>1, <2>2
<1>3. PICK f : /\ f[0] = <<>> /\ \A i \in 1..n : f[i] = f[i - 1] \o q[i]
               /\ \A i \in 0..n : IsList(f[i])
               /\ FlattenSeq(q) = f[n]
  BY <1>1, FlattenSteps
<1>4. PICK g : /\ g[0] = <<>> /\ \A i \in 1..m : g[i] = g[i - 1] \o r[i]
               /\ \A i \in 0..m : IsList(g[i])
               /\ FlattenSeq(r) = g[m]
  BY <1>1, FlattenSteps
<1>. HIDE DEF n, m, all
<1>. DEFINE h == [i \in 0..(n + m) |-> IF i <= n THEN f[i] ELSE f[n] \o g[i - n]]
<1>5. /\ \A i \in 0..n : h[i] = f[i]
      /\ \A i \in 0..m : h[n + i] = f[n] \o g[i]
  <2>1. \A i \in 0..n : h[i] = f[i]
    BY <1>1
  <2>2. f[n] \o g[0] = f[n]
    <3>1. f[n] \in Seq(ToSet(f[n]))
      BY <1>1, <1>3 DEF IsList
    <3>. QED  BY <1>4, <3>1
  <2>3. ASSUME NEW i \in 0..m PROVE h[n + i] = f[n] \o g[i]
    <3>1. CASE i = 0
      <4>1. h[n + i] = f[n]
        BY <1>1, <3>1
      <4>. QED  BY <2>2, <3>1, <4>1
    <3>2. CASE i # 0
      <4>1. n + i \in 0..(n + m) /\ ~(n + i <= n) /\ (n + i) - n = i
        BY <1>1, <3>2
      <4>. QED  BY <4>1
    <3>. QED  BY <3>1, <3>2
  <2>. QED  BY <2>1, <2>3
<1>. HIDE DEF h
<1>6. ASSUME NEW i \in 1..(n + m) PROVE IsList(all[i]) /\ h[i] = h[i - 1] \o all[i]
  <2>1. CASE i <= n
    <3>1. i \in 1..n /\ i \in 0..n /\ i - 1 \in 0..n
      BY <1>1, <2>1
    <3>. QED  BY <1>2, <1>3, <1>5, <3>1 DEF n
  <2>2. CASE ~(i <= n)
    <3>1. PICK j \in 1..m : i = n + j
      <4>1. i - n \in 1..m /\ i = n + (i - n)
        BY <1>1, <2>2
      <4>. QED  BY <4>1
    <3>2. j \in 0..m /\ j - 1 \in 0..m /\ i - 1 = n + (j - 1) /\ n \in 0..n
      BY <1>1, <3>1
    <3>3. all[i] = r[j] /\ IsList(r[j]) /\ h[i] = f[n] \o g[j] /\ h[i - 1] = f[n] \o g[j - 1]
      BY <1>2, <1>5, <3>1, <3>2 DEF m
    <3>4. IsList(f[n]) /\ IsList(g[j - 1]) /\ g[j] = g[j - 1] \o r[j]
      BY <1>3, <1>4, <3>2
    <3>6. f[n] \o (g[j - 1] \o r[j]) = (f[n] \o g[j - 1]) \o r[j]
      <4>. DEFINE x == f[n]
                  y == g[j - 1]
                  z == r[j]
      <4>1. IsList(x) /\ IsList(y) /\ IsList(z)
        BY <3>3, <3>4, Zenon
      <4>. HIDE DEF x, y, z
      <4>2. x \o (y \o z) = (x \o y) \o z
        BY <4>1, Associative
      <4>. QED  BY <4>2 DEF x, y, z
    <3>7. h[i] = h[i - 1] \o all[i]
      BY <3>3, <3>4, <3>6, Zenon
    <3>. QED  BY <3>3, <3>7, Zenon
  <2>. QED  BY <2>1, <2>2
<1>7. h[0] = <<>> /\ h[n + m] = f[n] \o g[m]
  <2>1. 0 \in 0..n /\ m \in 0..m
    BY <1>1
  <2>. QED  BY <1>3, <1>5, <2>1, Zenon
<1>8. FlattenSeq(all) = h[n + m]
  <2>1. n + m \in Nat
    BY <1>1
  <2>2. h[0] = <<>> /\ \A i \in 1..(n + m) : h[i] = h[i - 1] \o all[i]
    BY <1>6, <1>7, Zenon
  <2>3. all = [i \in 1..(n + m) |-> all[i]] /\ \A i \in 1..(n + m) : IsList(all[i])
    BY <1>2, <1>6, Zenon
  <2>. DEFINE k == n + m
  <2>. HIDE DEF k
  <2>4. /\ k \in Nat /\ h[0] = <<>> /\ \A i \in 1..k : h[i] = h[i - 1] \o all[i]
        /\ all = [i \in 1..k |-> all[i]] /\ \A i \in 1..k : IsList(all[i])
    BY <2>1, <2>2, <2>3, Zenon DEF k
  <2>5. FlattenSeq(all) = h[k]
    BY <2>4, FlattenIs
  <2>. QED  BY <2>5 DEF k
<1>. QED  BY <1>3, <1>4, <1>7, <1>8, Zenon DEF all, n, m

\* The steps of PushAll.
LEMMA PushSteps ==
  ASSUME NEW a, NEW s, IsList(s)
  PROVE  \E f : /\ f[0] = a /\ \A i \in 1..Len(s) : f[i] = Push(f[i - 1], s[i])
                /\ PushAll(a, s) = f[Len(s)]
<1>. DEFINE S == {k \in Nat : \E f : Pushes(f, a, s, k)}
<1>1. 0 \in S
  <2>1. Pushes([n \in 0..0 |-> a], a, s, 0)
    BY DEF Pushes
  <2>. QED  BY <2>1
<1>2. ASSUME NEW k \in Nat, k \in S PROVE k + 1 \in S
  <2>1. PICK f : Pushes(f, a, s, k)
    BY <1>2
  <2>. DEFINE step(g, n) == IF n = 0 THEN a ELSE Push(g[n - 1], s[n])
              g == [n \in 0..(k + 1) |-> IF n <= k THEN f[n] ELSE step(f, n)]
  <2>2. \A n \in 0..k : f[n] = step(f, n)
    BY <2>1 DEF Pushes
  <2>3. ASSUME NEW n \in 0..(k + 1) PROVE g[n] = step(g, n)
    <3>1. g[n] = step(f, n)
      BY <2>2
    <3>2. n # 0 => n - 1 \in 0..(k + 1) /\ n - 1 <= k
      OBVIOUS
    <3>3. n # 0 => g[n - 1] = f[n - 1]
      BY <3>2
    <3>. QED  BY <3>1, <3>3
  <2>4. g = [n \in 0..(k + 1) |-> step(g, n)]
    <3>1. g = [n \in 0..(k + 1) |-> g[n]]
      OBVIOUS
    <3>. HIDE DEF g
    <3>. QED  BY <2>3, <3>1
  <2>5. Pushes(g, a, s, k + 1)
    <3>. HIDE DEF g
    <3>. QED  BY <2>4 DEF Pushes
  <2>. QED  BY <2>5
<1>3. Nat \subseteq S
  <2>. HIDE DEF S
  <2>. QED  BY <1>1, <1>2, SetInduction
<1>4. Len(s) \in Nat
  BY ListIs
<1>5. PICK f : Pushes(f, a, s, Len(s)) /\ PushAll(a, s) = f[Len(s)]
  <2>. DEFINE f == CHOOSE f : Pushes(f, a, s, Len(s))
  <2>1. Pushes(f, a, s, Len(s))
    BY <1>3, <1>4
  <2>2. PushAll(a, s) = f[Len(s)]
    BY Zenon DEF PushAll, Pushes
  <2>. QED  BY <2>1, <2>2, Zenon
<1>6. \A n \in 0..Len(s) : f[n] = IF n = 0 THEN a ELSE Push(f[n - 1], s[n])
  <2>. DEFINE step(n) == IF n = 0 THEN a ELSE Push(f[n - 1], s[n])
  <2>1. f = [n \in 0..Len(s) |-> step(n)]
    BY <1>5, Zenon DEF Pushes
  <2>2. \A n \in 0..Len(s) : f[n] = step(n)
    <3>. HIDE DEF step
    <3>. QED  BY <2>1, Zenon
  <2>. QED  BY <2>2, Zenon
<1>7. f[0] = a /\ \A i \in 1..Len(s) : f[i] = Push(f[i - 1], s[i])
  BY <1>4, <1>6
<1>. QED  BY <1>5, <1>7, Zenon

\* There is one such result.
LEMMA PushIs ==
  ASSUME NEW s, IsList(s),
         NEW g, \A i \in 1..Len(s) : g[i] = Push(g[i - 1], s[i])
  PROVE  PushAll(g[0], s) = g[Len(s)]
<1>1. PICK f : /\ f[0] = g[0] /\ \A i \in 1..Len(s) : f[i] = Push(f[i - 1], s[i])
               /\ PushAll(g[0], s) = f[Len(s)]
  BY PushSteps
<1>. DEFINE S == {k \in Nat : k \in 0..Len(s) => f[k] = g[k]}
<1>2. 0 \in S /\ Len(s) \in Nat
  BY <1>1, ListIs
<1>3. ASSUME NEW k \in Nat, k \in S PROVE k + 1 \in S
  <2>1. ASSUME k + 1 \in 0..Len(s) PROVE f[k + 1] = g[k + 1]
    <3>1. k \in 0..Len(s) /\ k + 1 \in 1..Len(s) /\ (k + 1) - 1 = k
      BY <1>2, <2>1
    <3>2. f[k + 1] = Push(f[k], s[k + 1]) /\ g[k + 1] = Push(g[k], s[k + 1]) /\ f[k] = g[k]
      BY <1>1, <1>3, <3>1
    <3>. QED  BY <3>2
  <2>. QED  BY <2>1
<1>4. Nat \subseteq S
  <2>. HIDE DEF S
  <2>. QED  BY <1>2, <1>3, SetInduction
<1>. QED  BY <1>1, <1>2, <1>4

\* None, one, and one list after another.
LEMMA PushShort ==
  ASSUME NEW a
  PROVE  PushAll(a, <<>>) = a /\ \A d : PushAll(a, <<d>>) = Push(a, d)
<1>1. PushAll(a, <<>>) = a
  <2>1. IsList(<<>>) /\ Len(<<>>) = 0
    BY ShortLists
  <2>. QED  BY <2>1, PushSteps
<1>2. ASSUME NEW d PROVE PushAll(a, <<d>>) = Push(a, d)
  <2>1. IsList(<<d>>) /\ Len(<<d>>) = 1
    BY ShortLists
  <2>2. PICK f : /\ f[0] = a /\ \A i \in 1..1 : f[i] = Push(f[i - 1], <<d>>[i])
                 /\ PushAll(a, <<d>>) = f[1]
    BY <2>1, PushSteps
  <2>3. f[1] = Push(f[1 - 1], <<d>>[1]) /\ 1 - 1 = 0 /\ <<d>>[1] = d
    BY <2>2
  <2>. QED  BY <2>2, <2>3
<1>. QED  BY <1>1, <1>2

\* Pushing two lists one after the other is pushing them joined.
LEMMA PushJoined ==
  ASSUME NEW a, NEW s, NEW t, IsList(s), IsList(t)
  PROVE  PushAll(a, s \o t) = PushAll(PushAll(a, s), t)
<1>. DEFINE all == s \o t
            n == Len(s)
            m == Len(t)
<1>1. /\ IsList(all) /\ Len(all) = n + m /\ n \in Nat /\ m \in Nat
      /\ \A i \in 1..n : all[i] = s[i]
      /\ \A i \in 1..m : all[n + i] = t[i]
  BY Joined, ListIs
<1>. HIDE DEF all
<1>2. PICK f : /\ f[0] = a /\ \A i \in 1..Len(all) : f[i] = Push(f[i - 1], all[i])
               /\ PushAll(a, all) = f[Len(all)]
  <2>1. IsList(all)
    BY <1>1
  <2>. QED  BY <2>1, PushSteps
<1>3. PushAll(a, s) = f[n]
  <2>1. \A i \in 1..n : f[i] = Push(f[i - 1], s[i])
    <3>1. ASSUME NEW i \in 1..n PROVE f[i] = Push(f[i - 1], s[i])
      <4>1. i \in 1..Len(all) /\ all[i] = s[i]
        BY <1>1
      <4>. QED  BY <1>2, <4>1
    <3>. QED  BY <3>1
  <2>. QED  BY <1>2, <2>1, PushIs
<1>. DEFINE g == [i \in 0..m |-> f[n + i]]
<1>4. g[0] = f[n] /\ g[m] = f[n + m] /\ \A i \in 1..m : g[i] = f[n + i] /\ g[i - 1] = f[n + (i - 1)]
  BY <1>1
<1>. HIDE DEF g
<1>5. \A i \in 1..m : g[i] = Push(g[i - 1], t[i])
  <2>1. ASSUME NEW i \in 1..m PROVE g[i] = Push(g[i - 1], t[i])
    <3>1. n + i \in 1..Len(all) /\ (n + i) - 1 = n + (i - 1) /\ all[n + i] = t[i]
      BY <1>1
    <3>2. f[n + i] = Push(f[n + (i - 1)], t[i])
      BY <1>2, <3>1
    <3>. QED  BY <1>4, <3>2
  <2>. QED  BY <2>1
<1>6. PushAll(g[0], t) = g[m]
  BY <1>5, PushIs
<1>. QED  BY <1>1, <1>2, <1>3, <1>4, <1>6 DEF all

\* What Only computes, step by step.
LEMMA OnlySteps ==
  ASSUME NEW s, IsList(s), NEW set
  PROVE  \E f : /\ f[0] = <<>>
                /\ \A i \in 1..Len(s) : f[i] = IF s[i] \in set THEN f[i - 1] \o <<s[i]>> ELSE f[i - 1]
                /\ \A i \in 0..Len(s) : IsList(f[i])
                /\ Only(s, set) = f[Len(s)]
<1>. DEFINE q == [i \in DOMAIN s |-> IF s[i] \in set THEN <<s[i]>> ELSE <<>>]
<1>1. DOMAIN s = 1..Len(s) /\ Len(s) \in Nat
  BY ListIs
<1>2. /\ q = [i \in 1..Len(s) |-> q[i]]
      /\ \A i \in 1..Len(s) : IsList(q[i]) /\ q[i] = IF s[i] \in set THEN <<s[i]>> ELSE <<>>
  BY <1>1, ShortLists
<1>3. Only(s, set) = FlattenSeq(q)
  BY Zenon DEF Only
<1>. HIDE DEF q
<1>4. PICK f : /\ f[0] = <<>> /\ \A i \in 1..Len(s) : f[i] = f[i - 1] \o q[i]
               /\ \A i \in 0..Len(s) : IsList(f[i])
               /\ FlattenSeq(q) = f[Len(s)]
  BY <1>1, <1>2, FlattenSteps
<1>5. ASSUME NEW i \in 1..Len(s)
      PROVE  f[i] = IF s[i] \in set THEN f[i - 1] \o <<s[i]>> ELSE f[i - 1]
  <2>1. CASE s[i] \in set
    BY <1>2, <1>4, <2>1
  <2>2. CASE s[i] \notin set
    <3>0. q[i] = <<>> /\ f[i] = f[i - 1] \o q[i]
      BY <1>2, <1>4, <2>2
    <3>1. f[i] = f[i - 1] \o <<>> /\ i - 1 \in 0..Len(s)
      BY <1>1, <3>0
    <3>2. f[i - 1] \in Seq(ToSet(f[i - 1]))
      BY <1>4, <3>1 DEF IsList
    <3>3. f[i - 1] \o <<>> = f[i - 1]
      BY <3>2
    <3>. QED  BY <2>2, <3>1, <3>3
  <2>. QED  BY <2>1, <2>2
<1>. QED  BY <1>3, <1>4, <1>5, Zenon

\* Those of a kind.
LEMMA KindSteps ==
  ASSUME NEW s, IsList(s), NEW kind
  PROVE  \E f : /\ f[0] = <<>>
                /\ \A i \in 1..Len(s) :
                      f[i] = IF s[i].kind = kind THEN f[i - 1] \o <<s[i]>> ELSE f[i - 1]
                /\ \A i \in 0..Len(s) : IsList(f[i])
                /\ OfKind(s, kind) = f[Len(s)]
<1>. DEFINE set == {b \in ToSet(s) : b.kind = kind}
<1>1. \A i \in 1..Len(s) : s[i] \in set <=> s[i].kind = kind
  BY ListIs
<1>2. OfKind(s, kind) = Only(s, set)
  BY Zenon DEF OfKind
<1>. HIDE DEF set
<1>3. PICK f : /\ f[0] = <<>>
               /\ \A i \in 1..Len(s) : f[i] = IF s[i] \in set THEN f[i - 1] \o <<s[i]>> ELSE f[i - 1]
               /\ \A i \in 0..Len(s) : IsList(f[i])
               /\ Only(s, set) = f[Len(s)]
  BY OnlySteps
<1>. QED  BY <1>1, <1>2, <1>3, Zenon

\* The calls that have a name, which Finish keeps.
Named(calls) == Only(calls, {c \in ToSet(calls) : c.names # <<>>})

\* They are chosen one by one.
LEMMA NamedSteps ==
  ASSUME NEW s, IsList(s)
  PROVE  \E f : /\ f[0] = <<>>
                /\ \A i \in 1..Len(s) :
                      f[i] = IF s[i].names # <<>> THEN f[i - 1] \o <<s[i]>> ELSE f[i - 1]
                /\ Named(s) = f[Len(s)]
<1>. DEFINE set == {c \in ToSet(s) : c.names # <<>>}
<1>1. \A i \in 1..Len(s) : s[i] \in set <=> s[i].names # <<>>
  BY ListIs
<1>2. Named(s) = Only(s, set)
  BY Zenon DEF Named
<1>. HIDE DEF set
<1>3. PICK f : /\ f[0] = <<>>
               /\ \A i \in 1..Len(s) : f[i] = IF s[i] \in set THEN f[i - 1] \o <<s[i]>> ELSE f[i - 1]
               /\ \A i \in 0..Len(s) : IsList(f[i])
               /\ Only(s, set) = f[Len(s)]
  BY OnlySteps
<1>. QED  BY <1>1, <1>2, <1>3, Zenon

\* A call is added, where others may be missing before it.
LEMMA NamedAppended ==
  ASSUME NEW s, IsList(s), NEW k \in Nat, Len(s) <= k, NEW t, IsList(t), Len(t) = k + 1,
         \A i \in 1..k : t[i] = IF i <= Len(s) THEN s[i] ELSE Unnamed,
         t[k + 1].names # <<>>
  PROVE  Named(t) = Named(s) \o <<t[k + 1]>>
<1>. DEFINE n == Len(s)
<1>1. n \in Nat /\ n <= k
  BY ListIs
<1>3. PICK f : /\ f[0] = <<>>
               /\ \A i \in 1..n : f[i] = IF s[i].names # <<>> THEN f[i - 1] \o <<s[i]>> ELSE f[i - 1]
               /\ Named(s) = f[n]
  BY NamedSteps
<1>4. PICK g : /\ g[0] = <<>>
               /\ \A i \in 1..(k + 1) :
                     g[i] = IF t[i].names # <<>> THEN g[i - 1] \o <<t[i]>> ELSE g[i - 1]
               /\ Named(t) = g[k + 1]
  BY NamedSteps
<1>. HIDE DEF n
<1>5. \A i \in 1..k : t[i] = IF i <= n THEN s[i] ELSE Unnamed
  BY DEF n
<1>. DEFINE S == {i \in Nat : i \in 0..k => g[i] = f[IF i <= n THEN i ELSE n]}
<1>6. 0 \in S
  BY <1>1, <1>3, <1>4
<1>7. ASSUME NEW i \in Nat, i \in S PROVE i + 1 \in S
  <2>1. ASSUME i + 1 \in 0..k PROVE g[i + 1] = f[IF i + 1 <= n THEN i + 1 ELSE n]
    <3>1. i \in 0..k /\ i + 1 \in 1..k /\ i + 1 \in 1..(k + 1) /\ (i + 1) - 1 = i
      BY <2>1
    <3>2. /\ g[i] = f[IF i <= n THEN i ELSE n]
          /\ g[i + 1] = IF t[i + 1].names # <<>> THEN g[i] \o <<t[i + 1]>> ELSE g[i]
      <4>1. g[i] = f[IF i <= n THEN i ELSE n]
        BY <1>7, <3>1
      <4>. QED  BY <1>1, <1>4, <3>1, <4>1
    <3>3. CASE i + 1 <= n
      <4>1. i + 1 \in 1..n /\ i <= n
        BY <1>1, <3>1, <3>3
      <4>2. t[i + 1] = s[i + 1] /\ g[i] = f[i]
        BY <1>5, <3>1, <3>2, <3>3, <4>1
      <4>3. f[i + 1] = IF s[i + 1].names # <<>> THEN f[i] \o <<s[i + 1]>> ELSE f[i]
        BY <1>1, <1>3, <3>1, <4>1
      <4>. QED  BY <3>2, <3>3, <4>2, <4>3
    <3>4. CASE ~(i + 1 <= n)
      <4>1. t[i + 1] = Unnamed /\ Unnamed.names = <<>>
        BY <1>5, <3>1, <3>4 DEF Unnamed
      <4>2. g[i + 1] = g[i]
        BY <3>2, <4>1
      <4>3. g[i] = f[n]
        <5>1. i <= n => i = n
          BY <1>1, <3>4
        <5>. QED  BY <3>2, <5>1
      <4>. QED  BY <3>4, <4>2, <4>3
    <3>. QED  BY <3>3, <3>4
  <2>. QED  BY <2>1
<1>8. Nat \subseteq S
  <2>. HIDE DEF S
  <2>. QED  BY <1>6, <1>7, SetInduction
<1>9. g[k] = f[n]
  <2>1. k <= n => k = n
    BY <1>1
  <2>2. k \in S /\ k \in 0..k
    BY <1>8
  <2>. QED  BY <2>1, <2>2
<1>10. g[k + 1] = g[k] \o <<t[k + 1]>>
  <2>1. k + 1 \in 1..(k + 1) /\ (k + 1) - 1 = k
    OBVIOUS
  <2>. QED  BY <1>1, <1>4, <2>1
<1>. QED  BY <1>3, <1>4, <1>9, <1>10

\* A call as the client puts it together.
Made(b) == [id |-> b.id, names |-> <<b.tool>>, arguments |-> <<b.id>>]

\* All of them.
MadeOf(calls) == [i \in 1..Len(calls) |-> Made(calls[i])]

\* The deltas of a block whose call has the index k.
DeltasOf(k, b) ==
    IF b.kind = "call" THEN <<Event("call", k, b, None)>> \o <<Event("arguments", k, b, None)>>
    ELSE <<Event("text", 0, b, None)>>

\* What an accumulator has that has come to no end.
Open(a, texts) == AccTyped(a) /\ ~a.done /\ a.finish = None /\ a.texts = texts

\* It takes a text.
LEMMA TextPushed ==
  ASSUME NEW a, NEW texts, Open(a, texts), NEW b, NEW k, b.kind # "call"
  PROVE  LET c == PushAll(a, DeltasOf(k, b))
         IN  Open(c, texts \o <<b>>) /\ c.calls = a.calls
<1>. DEFINE d == Event("text", 0, b, None)
            c == PushAll(a, DeltasOf(k, b))
<1>1. c = Push(a, d)
  BY PushShort DEF DeltasOf
<1>2. DeltaTyped(d) /\ d.kind = "text" /\ d.block = b
  BY DEF Event, DeltaTyped
<1>3. a.texts \in Seq(ToSet(a.texts)) /\ Append(a.texts, b) = texts \o <<b>>
  BY DEF Open, AccTyped, IsList
<1>. HIDE DEF d
<1>4. Push(a, d) = [a EXCEPT !.texts = Append(a.texts, b)]
  BY <1>2 DEF Push, Open
<1>5. AccTyped(Push(a, d))
  BY <1>2, PushKeeps DEF Open
<1>. HIDE DEF c
<1>6. c = [texts |-> texts \o <<b>>, calls |-> a.calls, finish |-> a.finish, done |-> a.done]
  BY <1>1, <1>3, <1>4 DEF Open, AccTyped
<1>7. Open(c, texts \o <<b>>) /\ c.calls = a.calls
  BY <1>1, <1>5, <1>6 DEF Open
<1>. QED  BY <1>7 DEF c

\* It takes a call whose index is none of those that it has.
LEMMA CallPushed ==
  ASSUME NEW a, NEW texts, Open(a, texts), NEW b, b.kind = "call",
         NEW k \in Nat, Len(a.calls) <= k
  PROVE  LET c == PushAll(a, DeltasOf(k, b))
         IN  /\ Open(c, texts) /\ Len(c.calls) = k + 1
             /\ Named(c.calls) = Named(a.calls) \o <<Made(b)>>
<1>. DEFINE x == Event("call", k, b, None)
            y == Event("arguments", k, b, None)
            c == PushAll(a, DeltasOf(k, b))
            at == Padded(a.calls, k)
            named == [at EXCEPT ![k + 1].id = b.id, ![k + 1].names = Append(@, b.tool)]
            whole == [i \in 1..(k + 1) |-> IF i <= k THEN at[i] ELSE Made(b)]
<1>1. c = Push(Push(a, x), y)
  <2>1. DeltasOf(k, b) = <<x>> \o <<y>>
    BY DEF DeltasOf
  <2>. HIDE DEF x, y
  <2>2. IsList(<<x>>) /\ IsList(<<y>>)
    BY ShortLists
  <2>3. PushAll(a, <<x>> \o <<y>>) = PushAll(PushAll(a, <<x>>), <<y>>)
    BY <2>2, PushJoined
  <2>. QED  BY <2>1, <2>3, PushShort
<1>2. /\ DeltaTyped(x) /\ x.kind = "call" /\ x.block = b /\ x.index = k
      /\ DeltaTyped(y) /\ y.kind = "arguments" /\ y.block = b /\ y.index = k
  BY DEF Event, DeltaTyped
<1>3. IsList(a.calls) /\ Len(a.calls) \in Nat /\ DOMAIN a.calls = 1..Len(a.calls)
  BY ListIs DEF Open, AccTyped
<1>4. /\ at = [i \in 1..(k + 1) |-> at[i]] /\ at[k + 1] = Unnamed
      /\ \A i \in 1..k : at[i] = IF i <= Len(a.calls) THEN a.calls[i] ELSE Unnamed
  BY <1>3 DEF Padded
<1>. HIDE DEF at, x, y
<1>5. Push(a, x) = [texts |-> texts, calls |-> named, finish |-> None, done |-> FALSE]
  BY <1>2 DEF Push, Open, AccTyped, at
<1>6. /\ named = [i \in 1..(k + 1) |-> named[i]]
      /\ named[k + 1] = [id |-> b.id, names |-> <<b.tool>>, arguments |-> <<>>]
      /\ \A i \in 1..k : named[i] = at[i]
  <2>1. Append(<<>>, b.tool) = <<b.tool>> /\ k + 1 \in 1..(k + 1) /\ \A i \in 1..k : i \in 1..(k + 1) /\ i # k + 1
    OBVIOUS
  <2>2. at[k + 1] = [id |-> None, names |-> <<>>, arguments |-> <<>>]
    BY <1>4 DEF Unnamed
  <2>3. named = [i \in 1..(k + 1) |-> named[i]]
    BY <1>4
  <2>4. \A i \in 1..k : named[i] = at[i]
    BY <1>4, <2>1
  <2>5. named[k + 1] = [[at[k + 1] EXCEPT !.id = b.id] EXCEPT !.names = Append(at[k + 1].names, b.tool)]
    BY <1>4, <2>1
  <2>. HIDE DEF named
  <2>6. at[k + 1].names = <<>>
    BY <2>2
  <2>7. named[k + 1] = [[[id |-> None, names |-> <<>>, arguments |-> <<>>] EXCEPT !.id = b.id]
                           EXCEPT !.names = <<b.tool>>]
    BY <2>1, <2>2, <2>5, <2>6, Zenon
  <2>8. named[k + 1] = [id |-> b.id, names |-> <<b.tool>>, arguments |-> <<>>]
    BY <2>7
  <2>. QED  BY <2>3, <2>4, <2>8, Zenon
<1>. HIDE DEF named
<1>7. IsList(named) /\ Len(named) = k + 1 /\ DOMAIN named = 1..(k + 1)
  BY <1>6, FunctionList
<1>8. Padded(named, k) = named
  BY <1>6, <1>7 DEF Padded
<1>9. [named EXCEPT ![k + 1].arguments = Append(@, b.id)] = whole
  <2>. DEFINE n == [id |-> b.id, names |-> <<b.tool>>, arguments |-> <<>>]
              argued == [named EXCEPT ![k + 1].arguments = Append(@, b.id)]
  <2>1. Append(<<>>, b.id) = <<b.id>> /\ k + 1 \in 1..(k + 1)
    OBVIOUS
  <2>2. argued = [i \in 1..(k + 1) |-> argued[i]]
    BY <1>6
  <2>3. argued[k + 1] = [named[k + 1] EXCEPT !.arguments = Append(named[k + 1].arguments, b.id)]
    BY <1>6, <2>1
  <2>4. argued[k + 1] = Made(b)
    BY <1>6, <2>1, <2>3 DEF Made
  <2>5. \A i \in 1..(k + 1) : i # k + 1 => argued[i] = named[i]
    BY <1>6
  <2>6. \A i \in 1..(k + 1) : argued[i] = IF i <= k THEN at[i] ELSE Made(b)
    <3>. HIDE DEF argued, named
    <3>1. argued[k + 1] = IF k + 1 <= k THEN at[k + 1] ELSE Made(b)
      BY <2>4
    <3>2. ASSUME NEW i \in 1..k PROVE argued[i] = IF i <= k THEN at[i] ELSE Made(b)
      <4>1. i \in 1..(k + 1) /\ i # k + 1 /\ i <= k
        OBVIOUS
      <4>. QED  BY <1>6, <2>5, <4>1
    <3>3. \A i \in 1..(k + 1) : i = k + 1 \/ i \in 1..k
      OBVIOUS
    <3>. QED  BY <3>1, <3>2, <3>3
  <2>. HIDE DEF argued
  <2>7. argued = whole
    BY <2>2, <2>6
  <2>. QED  BY <2>7 DEF argued
<1>10. /\ IsList(whole) /\ Len(whole) = k + 1 /\ whole[k + 1] = Made(b)
       /\ \A i \in 1..k : whole[i] = IF i <= Len(a.calls) THEN a.calls[i] ELSE Unnamed
  <2>1. /\ whole = [i \in 1..(k + 1) |-> whole[i]] /\ whole[k + 1] = Made(b)
        /\ \A i \in 1..k : whole[i] = at[i]
    OBVIOUS
  <2>. HIDE DEF whole
  <2>2. k + 1 \in Nat
    OBVIOUS
  <2>3. IsList(whole) /\ Len(whole) = k + 1
    BY <2>1, <2>2, FunctionList
  <2>. QED  BY <1>4, <2>1, <2>3
<1>11. c = [texts |-> texts, calls |-> whole, finish |-> None, done |-> FALSE]
  <2>. DEFINE m == [texts |-> texts, calls |-> named, finish |-> None, done |-> FALSE]
  <2>1. Push(m, y) = [m EXCEPT !.calls = [Padded(named, k) EXCEPT ![k + 1].arguments = Append(@, b.id)]]
    BY <1>2 DEF Push
  <2>. HIDE DEF whole
  <2>. QED  BY <1>1, <1>5, <1>8, <1>9, <2>1
<1>. HIDE DEF whole, c
<1>12. Named(whole) = Named(a.calls) \o <<Made(b)>>
  <2>1. Made(b).names # <<>>
    BY DEF Made
  <2>2. Named(whole) = Named(a.calls) \o <<whole[k + 1]>>
    BY <1>3, <1>10, <2>1, NamedAppended
  <2>. QED  BY <1>10, <2>2
<1>13. Open(c, texts) /\ Len(c.calls) = k + 1
  BY <1>10, <1>11 DEF Open, AccTyped
<1>. QED  BY <1>11, <1>12, <1>13 DEF c

\* Its deltas are a list.
LEMMA DeltasList ==
  ASSUME NEW k, NEW b
  PROVE  IsList(DeltasOf(k, b))
<1>. DEFINE x == Event("call", k, b, None)
            y == Event("arguments", k, b, None)
            z == Event("text", 0, b, None)
<1>1. DeltasOf(k, b) = IF b.kind = "call" THEN <<x>> \o <<y>> ELSE <<z>>
  BY Zenon DEF DeltasOf
<1>. HIDE DEF x, y, z
<1>2. IsList(<<x>>) /\ IsList(<<y>>) /\ IsList(<<z>>)
  BY ShortLists
<1>3. IsList(<<x>> \o <<y>>)
  BY <1>2, Joined
<1>. QED  BY <1>1, <1>2, <1>3

\* A call more.
LEMMA MadeAppended ==
  /\ MadeOf(<<>>) = <<>>
  /\ \A s, b : IsList(s) => MadeOf(s \o <<b>>) = MadeOf(s) \o <<Made(b)>>
<1>1. MadeOf(<<>>) = <<>>
  BY DEF MadeOf
<1>2. ASSUME NEW s, NEW b, IsList(s)
      PROVE  MadeOf(s \o <<b>>) = MadeOf(s) \o <<Made(b)>>
  <2>. DEFINE n == Len(s)
              t == s \o <<b>>
              f == MadeOf(t)
              g == MadeOf(s)
              h == g \o <<Made(b)>>
  <2>1. n \in Nat /\ IsList(<<b>>) /\ Len(<<b>>) = 1 /\ <<b>>[1] = b
    BY <1>2, ListIs, ShortLists
  <2>2. /\ Len(t) = n + 1
        /\ \A i \in 1..n : t[i] = s[i]
        /\ t[n + 1] = b
    BY <1>2, <2>1, Joined
  <2>. HIDE DEF t
  <2>3. f = [i \in 1..(n + 1) |-> f[i]] /\ \A i \in 1..(n + 1) : f[i] = Made(t[i])
    BY <2>2 DEF MadeOf
  <2>4. g = [i \in 1..n |-> g[i]] /\ \A i \in 1..n : g[i] = Made(s[i])
    BY DEF MadeOf
  <2>. HIDE DEF f, g, n
  <2>5. IsList(g) /\ Len(g) = n
    BY <2>1, <2>4, FunctionList
  <2>. DEFINE m == Made(b)
  <2>. HIDE DEF m
  <2>6. IsList(<<m>>) /\ Len(<<m>>) = 1 /\ <<m>>[1] = m
    BY ShortLists
  <2>7. /\ IsList(h) /\ Len(h) = n + 1
        /\ \A i \in 1..n : h[i] = g[i]
        /\ h[n + 1] = m
    BY <2>1, <2>5, <2>6, Joined DEF m
  <2>. HIDE DEF h
  <2>8. h = [i \in 1..(n + 1) |-> h[i]]
    BY <2>7 DEF IsList
  <2>9. \A i \in 1..(n + 1) : h[i] = f[i]
    <3>1. \A i \in 1..n : h[i] = f[i]
      <4>1. \A i \in 1..n : i \in 1..(n + 1) /\ f[i] = Made(t[i]) /\ t[i] = s[i]
        BY <2>1, <2>2, <2>3
      <4>. QED  BY <2>4, <2>7, <4>1, Zenon
    <3>2. h[n + 1] = f[n + 1]
      <4>1. n + 1 \in 1..(n + 1)
        BY <2>1
      <4>. QED  BY <2>2, <2>3, <2>7, <4>1, Zenon DEF m
    <3>3. \A i \in 1..(n + 1) : i \in 1..n \/ i = n + 1
      BY <2>1
    <3>. QED  BY <3>1, <3>2, <3>3
  <2>10. f = h
    BY <2>3, <2>8, <2>9
  <2>. QED  BY <2>10, Zenon DEF f, g, h, t
<1>. QED  BY <1>1, <1>2

\* The deltas of all blocks of an answer, whose calls have increasing indexes,
\* leave its texts and its calls.
LEMMA BlocksPushed ==
  ASSUME NEW s, IsList(s), \A i \in 1..Len(s) : s[i].kind \in {"text", "call"},
         NEW ix, \A i \in 1..Len(s) : ix[i] \in Nat,
         \A i \in 1..Len(s) : \A j \in 1..i - 1 :
            s[i].kind = "call" /\ s[j].kind = "call" => ix[j] < ix[i],
         NEW q, q = [i \in 1..Len(s) |-> q[i]],
         \A i \in 1..Len(s) : q[i] = DeltasOf(ix[i], s[i]),
         NEW a, Open(a, <<>>), a.calls = <<>>
  PROVE  LET c == PushAll(a, FlattenSeq(q))
         IN  Open(c, OfKind(s, "text")) /\ Named(c.calls) = MadeOf(OfKind(s, "call"))
<1>1. Len(s) \in Nat
  BY ListIs
<1>2. \A i \in 1..Len(s) : IsList(q[i])
  BY DeltasList
<1>3. PICK f : /\ f[0] = <<>> /\ \A i \in 1..Len(s) : f[i] = f[i - 1] \o q[i]
               /\ \A i \in 0..Len(s) : IsList(f[i])
               /\ FlattenSeq(q) = f[Len(s)]
  BY <1>1, <1>2, FlattenSteps
<1>4. PICK T : /\ T[0] = <<>>
               /\ \A i \in 1..Len(s) :
                     T[i] = IF s[i].kind = "text" THEN T[i - 1] \o <<s[i]>> ELSE T[i - 1]
               /\ \A i \in 0..Len(s) : IsList(T[i])
               /\ OfKind(s, "text") = T[Len(s)]
  BY KindSteps
<1>5. PICK C : /\ C[0] = <<>>
               /\ \A i \in 1..Len(s) :
                     C[i] = IF s[i].kind = "call" THEN C[i - 1] \o <<s[i]>> ELSE C[i - 1]
               /\ \A i \in 0..Len(s) : IsList(C[i])
               /\ OfKind(s, "call") = C[Len(s)]
  BY KindSteps
<1>. DEFINE P(k) == LET c == PushAll(a, f[k])
                    IN  /\ Open(c, T[k]) /\ Named(c.calls) = MadeOf(C[k])
                        /\ \/ Len(c.calls) = 0
                           \/ \E j \in 1..k : s[j].kind = "call" /\ Len(c.calls) = ix[j] + 1
            S == {k \in Nat : k \in 0..Len(s) => P(k)}
<1>6. P(0)
  <2>1. PushAll(a, f[0]) = a
    BY <1>3, PushShort
  <2>2. Named(<<>>) = <<>>
    <3>1. IsList(<<>>) /\ Len(<<>>) = 0
      BY ShortLists
    <3>. QED  BY <3>1, NamedSteps
  <2>3. MadeOf(C[0]) = <<>> /\ T[0] = <<>> /\ Len(<<>>) = 0
    BY <1>4, <1>5, MadeAppended, ShortLists
  <2>. QED  BY <2>1, <2>2, <2>3, Zenon
<1>7. ASSUME NEW k \in Nat, k \in S PROVE k + 1 \in S
  <2>1. ASSUME k + 1 \in 0..Len(s) PROVE P(k + 1)
    <3>. DEFINE c == PushAll(a, f[k])
                d == PushAll(c, q[k + 1])
                b == s[k + 1]
                l == ix[k + 1]
    <3>1. k \in 0..Len(s) /\ k + 1 \in 1..Len(s) /\ (k + 1) - 1 = k
      BY <1>1, <2>1
    <3>2. P(k)
      BY <1>7, <3>1, Zenon
    <3>3. /\ f[k + 1] = f[k] \o q[k + 1] /\ IsList(f[k]) /\ IsList(q[k + 1])
          /\ T[k + 1] = IF b.kind = "text" THEN T[k] \o <<b>> ELSE T[k]
          /\ C[k + 1] = IF b.kind = "call" THEN C[k] \o <<b>> ELSE C[k]
          /\ IsList(C[k])
      BY <1>2, <1>3, <1>4, <1>5, <3>1
    <3>4. PushAll(a, f[k + 1]) = d
      <4>. DEFINE x == f[k]
                  y == q[k + 1]
      <4>1. IsList(x) /\ IsList(y)
        BY <3>3, Zenon
      <4>. HIDE DEF x, y
      <4>2. PushAll(a, x \o y) = PushAll(PushAll(a, x), y)
        BY <4>1, PushJoined
      <4>. QED  BY <3>3, <4>2, Zenon DEF x, y
    <3>5. q[k + 1] = DeltasOf(l, b) /\ l \in Nat /\ b.kind \in {"text", "call"}
      BY <3>1
    <3>6. /\ Open(c, T[k]) /\ Named(c.calls) = MadeOf(C[k])
          /\ \/ Len(c.calls) = 0
             \/ \E j \in 1..k : s[j].kind = "call" /\ Len(c.calls) = ix[j] + 1
      BY <3>2, Zenon
    <3>. HIDE DEF c, b, l
    <3>7. CASE b.kind = "text"
      <4>1. b.kind # "call"
        BY <3>7
      <4>2. d = PushAll(c, DeltasOf(l, b))
        BY <3>5, Zenon
      <4>. HIDE DEF d
      <4>3. Open(d, T[k] \o <<b>>) /\ d.calls = c.calls
        BY <3>6, <4>1, <4>2, TextPushed
      <4>4. T[k + 1] = T[k] \o <<b>> /\ C[k + 1] = C[k]
        BY <3>3, <3>7, <4>1
      <4>5. \A j \in 1..k : j \in 1..(k + 1)
        OBVIOUS
      <4>6. \/ Len(d.calls) = 0
            \/ \E j \in 1..(k + 1) : s[j].kind = "call" /\ Len(d.calls) = ix[j] + 1
        BY <3>6, <4>3, <4>5, Zenon
      <4>. QED  BY <3>4, <3>6, <4>3, <4>4, <4>6, Zenon
    <3>8. CASE b.kind = "call"
      <4>1. Len(c.calls) <= l
        <5>1. CASE Len(c.calls) = 0
          BY <3>5, <5>1
        <5>2. ASSUME NEW j \in 1..k, s[j].kind = "call", Len(c.calls) = ix[j] + 1
              PROVE  Len(c.calls) <= l
          <6>1. j \in 1..(k + 1) - 1 /\ j \in 1..Len(s)
            BY <1>1, <3>1
          <6>2. ix[j] < ix[k + 1] /\ ix[j] \in Nat /\ ix[k + 1] \in Nat
            BY <3>1, <3>8, <5>2, <6>1 DEF b
          <6>. QED  BY <5>2, <6>2 DEF l
        <5>. QED  BY <3>6, <5>1, <5>2
      <4>2. d = PushAll(c, DeltasOf(l, b))
        BY <3>5, Zenon
      <4>. HIDE DEF d
      <4>3. /\ Open(d, T[k]) /\ Len(d.calls) = l + 1
            /\ Named(d.calls) = Named(c.calls) \o <<Made(b)>>
        <5>1. /\ Open(c, T[k]) /\ b.kind = "call" /\ l \in Nat /\ Len(c.calls) <= l
          BY <3>5, <3>6, <3>8, <4>1
        <5>2. /\ Open(PushAll(c, DeltasOf(l, b)), T[k])
              /\ Len(PushAll(c, DeltasOf(l, b)).calls) = l + 1
              /\ Named(PushAll(c, DeltasOf(l, b)).calls) = Named(c.calls) \o <<Made(b)>>
          BY <5>1, CallPushed
        <5>. QED  BY <4>2, <5>2, Zenon
      <4>4. T[k + 1] = T[k] /\ C[k + 1] = C[k] \o <<b>>
        BY <3>3, <3>8
      <4>5. MadeOf(C[k] \o <<b>>) = MadeOf(C[k]) \o <<Made(b)>>
        BY <3>3, MadeAppended, Zenon
      <4>6. Named(d.calls) = MadeOf(C[k + 1])
        BY <3>6, <4>3, <4>4, <4>5, Zenon
      <4>7. k + 1 \in 1..(k + 1) /\ s[k + 1].kind = "call" /\ Len(d.calls) = ix[k + 1] + 1
        BY <3>8, <4>3 DEF b, l
      <4>8. \E j \in 1..(k + 1) : s[j].kind = "call" /\ Len(d.calls) = ix[j] + 1
        BY <4>7, Zenon
      <4>. QED  BY <3>4, <4>3, <4>4, <4>6, <4>8, Zenon
    <3>. QED  BY <3>5, <3>7, <3>8
  <2>. QED  BY <2>1
<1>8. Nat \subseteq S
  <2>1. 0 \in S
    BY <1>6
  <2>. HIDE DEF S
  <2>. QED  BY <1>7, <2>1, SetInduction
<1>9. P(Len(s))
  <2>1. Len(s) \in S /\ Len(s) \in 0..Len(s)
    BY <1>1, <1>8
  <2>. QED  BY <2>1, Zenon
<1>. QED  BY <1>3, <1>4, <1>5, <1>9, Zenon

\* What ends a stream.
Closing(x) == <<Event("finish", 0, None, x)>> \o <<Done>>

\* It keeps the texts and the calls.
LEMMA Closed ==
  ASSUME NEW c, NEW texts, Open(c, texts), NEW x
  PROVE  PushAll(c, Closing(x)) = [texts |-> c.texts, calls |-> c.calls, finish |-> x, done |-> TRUE]
<1>. DEFINE e == Event("finish", 0, None, x)
            o == Done
            m == Push(c, e)
<1>1. e.kind = "finish" /\ e.stop = x /\ o.kind = "done"
  BY DEF Event, Done, Signal
<1>2. PushAll(c, Closing(x)) = Push(m, o)
  <2>. HIDE DEF e, o
  <2>1. IsList(<<e>>) /\ IsList(<<o>>)
    BY ShortLists
  <2>2. PushAll(c, <<e>> \o <<o>>) = PushAll(PushAll(c, <<e>>), <<o>>)
    BY <2>1, PushJoined
  <2>3. PushAll(c, Closing(x)) = PushAll(c, <<e>> \o <<o>>)
    BY Zenon DEF Closing, e, o
  <2>. QED  BY <2>2, <2>3, PushShort
<1>. HIDE DEF e, o
<1>3. /\ c = [texts |-> c.texts, calls |-> c.calls, finish |-> c.finish, done |-> c.done]
      /\ c.done = FALSE
  BY DEF Open, AccTyped
<1>4. m = [c EXCEPT !.finish = x]
  BY <1>1, <1>3 DEF Push
<1>. HIDE DEF m
<1>5. m = [texts |-> c.texts, calls |-> c.calls, finish |-> x, done |-> c.done]
  BY <1>3, <1>4
<1>6. Push(m, o) = [m EXCEPT !.done = TRUE]
  BY <1>1, <1>3, <1>5 DEF Push
<1>7. Push(m, o) = [texts |-> c.texts, calls |-> c.calls, finish |-> x, done |-> TRUE]
  BY <1>5, <1>6
<1>. QED  BY <1>2, <1>7

\* The accumulator of a whole stream.
LEMMA StreamPushed ==
  ASSUME NEW s, IsList(s), \A i \in 1..Len(s) : s[i].kind \in {"text", "call"},
         NEW ix, \A i \in 1..Len(s) : ix[i] \in Nat,
         \A i \in 1..Len(s) : \A j \in 1..i - 1 :
            s[i].kind = "call" /\ s[j].kind = "call" => ix[j] < ix[i],
         NEW q, q = [i \in 1..Len(s) |-> q[i]],
         \A i \in 1..Len(s) : q[i] = DeltasOf(ix[i], s[i]),
         NEW x
  PROVE  Finish(PushAll(Empty, <<Signal("role")>> \o (FlattenSeq(q) \o Closing(x))))
           = Answer(OfKind(s, "text"), MadeOf(OfKind(s, "call")), x)
<1>. DEFINE role == <<Signal("role")>>
            mid == FlattenSeq(q)
            fin == <<Event("finish", 0, None, x)>>
            last == <<Done>>
            c == PushAll(Empty, mid)
            d == PushAll(c, Closing(x))
<1>1. IsList(role) /\ IsList(fin) /\ IsList(last)
  BY ShortLists
<1>2. IsList(mid)
  <2>1. \A i \in 1..Len(s) : IsList(q[i])
    BY DeltasList
  <2>2. Len(s) \in Nat
    BY ListIs
  <2>3. InOrder(mid, q, Len(s))
    BY <2>1, <2>2, Flattened
  <2>. HIDE DEF mid
  <2>. QED  BY <2>3 DEF InOrder
<1>3. Open(Empty, <<>>) /\ Empty.calls = <<>>
  BY ShortLists DEF Open, Empty, AccTyped
<1>4. Open(c, OfKind(s, "text")) /\ Named(c.calls) = MadeOf(OfKind(s, "call"))
  BY <1>3, BlocksPushed
<1>5. PushAll(Empty, role) = Empty
  <2>1. PushAll(Empty, role) = Push(Empty, Signal("role"))
    BY PushShort
  <2>. QED  BY <2>1 DEF Push, Empty, Signal, Event
<1>6. IsList(Closing(x))
  <2>. HIDE DEF fin, last
  <2>1. IsList(fin \o last)
    BY <1>1, Joined
  <2>. QED  BY <2>1, Zenon DEF Closing, fin, last
<1>. HIDE DEF role, mid
<1>7. PushAll(Empty, role \o (mid \o Closing(x))) = d
  <2>. DEFINE t == Closing(x)
  <2>1. IsList(t)
    BY <1>6
  <2>. HIDE DEF t
  <2>2. IsList(mid \o t) /\ PushAll(Empty, mid \o t) = PushAll(PushAll(Empty, mid), t)
    BY <1>2, <2>1, Joined, PushJoined
  <2>. DEFINE r == mid \o t
  <2>3. IsList(r)
    BY <2>2
  <2>. HIDE DEF r
  <2>4. PushAll(Empty, role \o r) = PushAll(PushAll(Empty, role), r)
    BY <1>1, <2>3, PushJoined
  <2>. QED  BY <1>5, <2>2, <2>4, Zenon DEF r, t
<1>. HIDE DEF c
<1>8. d = [texts |-> c.texts, calls |-> c.calls, finish |-> x, done |-> TRUE]
  BY <1>4, Closed
<1>. HIDE DEF d
<1>9. Finish(d) = Answer(c.texts, Named(c.calls), x)
  <2>1. d.texts = c.texts /\ d.calls = c.calls /\ d.finish = x
    BY <1>8
  <2>. QED  BY <2>1, Zenon DEF Finish, Named
<1>10. c.texts = OfKind(s, "text")
  BY <1>4 DEF Open
<1>. QED  BY <1>4, <1>7, <1>9, <1>10, Zenon DEF role, mid

\* A list of one.
LEMMA FlattenOne ==
  ASSUME NEW x
  PROVE  FlattenSeq(<<x>>) = x
<1>. DEFINE q == <<x>>
            f == CHOOSE f : Flattens(f, q, 1)
<1>1. Flattens(f, q, 1)
  BY FlattenDefined
<1>2. Len(q) = 1 /\ q[1] = x /\ q # <<>>
  OBVIOUS
<1>. HIDE DEF q
<1>3. FlattenSeq(q) = f[1]
  <2>1. Len(q) = 1 /\ Len(q) # 0
    BY <1>2
  <2>. QED  BY <2>1, Zenon DEF FlattenSeq, Flattens
<1>4. f[1] = q[1]
  <2>. HIDE DEF f
  <2>. DEFINE step(i) == IF i = 1 THEN q[i] ELSE f[i - 1] \o q[i]
  <2>1. f = [i \in 1..1 |-> step(i)]
    BY <1>1, Zenon DEF Flattens
  <2>2. f[1] = step(1)
    <3>. HIDE DEF step
    <3>. QED  BY <2>1
  <2>. QED  BY <2>2, Zenon
<1>. QED  BY <1>2, <1>3, <1>4 DEF q

\* Events that are translated one by one: a chunk of one, and two chunks.
LEMMA ChunkOfOne ==
  ASSUME Provider # "gemini", NEW e
  PROVE  TranslateChunk(Provider, <<e>>) = MessageDeltas(Provider, e)
<1>. DEFINE q == [i \in DOMAIN <<e>> |-> MessageDeltas(Provider, <<e>>[i])]
            d == MessageDeltas(Provider, e)
<1>1. TranslateChunk(Provider, <<e>>) = FlattenSeq(q)
  BY Zenon DEF TranslateChunk
<1>2. q = <<d>>
  <2>1. DOMAIN <<e>> = 1..1 /\ <<e>>[1] = e /\ \A i \in 1..1 : i = 1
    OBVIOUS
  <2>2. q = [i \in 1..1 |-> q[i]] /\ q[1] = d
    BY <2>1
  <2>. HIDE DEF q, d
  <2>3. <<d>> = [i \in 1..1 |-> <<d>>[i]] /\ <<d>>[1] = d
    OBVIOUS
  <2>4. \A i \in 1..1 : q[i] = <<d>>[i]
    BY <2>1, <2>2, <2>3
  <2>. QED  BY <2>2, <2>3, <2>4
<1>. QED  BY <1>1, <1>2, FlattenOne, Zenon

\* One event makes a list of deltas.
LEMMA MessageList ==
  ASSUME Provider # "gemini", NEW e, EventTyped(e)
  PROVE  IsList(MessageDeltas(Provider, e))
<1>1. IsList(<<e>>) /\ ToSet(<<e>>) = {e}
  BY ShortLists
<1>2. EventsTyped(<<e>>)
  BY <1>1 DEF EventsTyped
<1>3. IsList(TranslateChunk(Provider, <<e>>))
  BY <1>2, ChunkMade DEF DeltasTyped
<1>. QED  BY <1>3, ChunkOfOne

\* Translating two chunks of events one after the other is translating them
\* joined: where a chunk ends does not matter.
LEMMA ChunkJoined ==
  ASSUME Provider # "gemini", NEW x, NEW y, EventsTyped(x), EventsTyped(y)
  PROVE  /\ TranslateChunk(Provider, x \o y) = TranslateChunk(Provider, x) \o TranslateChunk(Provider, y)
         /\ EventsTyped(x \o y)
<1>. DEFINE D(e) == MessageDeltas(Provider, e)
            all == x \o y
            q == [i \in DOMAIN x |-> D(x[i])]
            r == [i \in DOMAIN y |-> D(y[i])]
            p == [i \in DOMAIN all |-> D(all[i])]
            n == Len(x)
            m == Len(y)
<1>1. /\ IsList(x) /\ DOMAIN x = 1..n /\ n \in Nat
      /\ IsList(y) /\ DOMAIN y = 1..m /\ m \in Nat
      /\ \A e \in ToSet(x) \cup ToSet(y) : EventTyped(e)
  BY ListIs DEF EventsTyped
<1>2. /\ IsList(all) /\ Len(all) = n + m
      /\ \A i \in 1..n : all[i] = x[i]
      /\ \A i \in 1..m : all[n + i] = y[i]
      /\ \A i \in 1..Len(all) : i \in 1..n \/ \E k \in 1..m : i = n + k
      /\ ToSet(all) = ToSet(x) \cup ToSet(y)
  BY <1>1, Joined
<1>3. EventsTyped(all)
  <2>. HIDE DEF all
  <2>. QED  BY <1>1, <1>2 DEF EventsTyped
<1>4. /\ TranslateChunk(Provider, x) = FlattenSeq(q)
      /\ TranslateChunk(Provider, y) = FlattenSeq(r)
      /\ TranslateChunk(Provider, all) = FlattenSeq(p)
  BY Zenon DEF TranslateChunk
<1>. HIDE DEF all
<1>5. DOMAIN all = 1..(n + m)
  BY <1>2, ListIs
<1>6. \A e \in ToSet(x) \cup ToSet(y) : IsList(D(e))
  BY <1>1, MessageList
<1>. HIDE DEF D
<1>7. /\ q = [i \in 1..n |-> q[i]] /\ \A i \in 1..n : q[i] = D(x[i]) /\ IsList(q[i])
      /\ r = [i \in 1..m |-> r[i]] /\ \A i \in 1..m : r[i] = D(y[i]) /\ IsList(r[i])
  <2>1. \A i \in 1..n : x[i] \in ToSet(x)
    BY <1>1, ListIs
  <2>2. \A i \in 1..m : y[i] \in ToSet(y)
    BY <1>1, ListIs
  <2>. QED  BY <1>1, <1>6, <2>1, <2>2
<1>8. p = [i \in 1..(n + m) |-> p[i]] /\ \A i \in 1..(n + m) : p[i] = D(all[i])
  BY <1>5
<1>. HIDE DEF q, r, p, n, m
<1>9. IsList(q) /\ Len(q) = n /\ IsList(r) /\ Len(r) = m
  BY <1>1, <1>7, FunctionList
<1>10. p = q \o r
  <2>. DEFINE s == q \o r
  <2>1. /\ IsList(s) /\ Len(s) = n + m
        /\ \A i \in 1..n : s[i] = q[i]
        /\ \A i \in 1..m : s[n + i] = r[i]
    BY <1>9, Joined
  <2>. HIDE DEF s
  <2>2. s = [i \in 1..(n + m) |-> s[i]]
    BY <2>1 DEF IsList
  <2>3. ASSUME NEW i \in 1..(n + m) PROVE s[i] = p[i]
    <3>1. p[i] = D(all[i])
      BY <1>8
    <3>2. CASE i \in 1..n
      BY <1>2, <1>7, <2>1, <3>1, <3>2, Zenon
    <3>3. ASSUME NEW k \in 1..m, i = n + k PROVE s[i] = p[i]
      <4>1. all[i] = y[k] /\ s[i] = r[k] /\ r[k] = D(y[k])
        BY <1>2, <1>7, <2>1, <3>3, Zenon
      <4>. QED  BY <3>1, <4>1, Zenon
    <3>4. i \in 1..Len(all)
      BY <1>2
    <3>. QED  BY <1>2, <3>2, <3>3, <3>4, Zenon
  <2>4. s = p
    BY <1>8, <2>2, <2>3
  <2>. QED  BY <2>4 DEF s
<1>11. FlattenSeq(q \o r) = FlattenSeq(q) \o FlattenSeq(r)
  <2>1. /\ \A i \in 1..Len(q) : IsList(q[i])
        /\ \A i \in 1..Len(r) : IsList(r[i])
    BY <1>7, <1>9
  <2>. QED  BY <1>9, <2>1, FlattenJoined
<1>. QED  BY <1>3, <1>4, <1>10, <1>11, Zenon DEF all

\* Two lists of one make a list of two.
LEMMA Pair ==
  ASSUME NEW u, NEW v
  PROVE  <<u, v>> = <<u>> \o <<v>>
<1>. DEFINE z == <<u>> \o <<v>>
            w == <<u, v>>
<1>1. IsList(<<u>>) /\ IsList(<<v>>) /\ Len(<<u>>) = 1 /\ Len(<<v>>) = 1 /\ <<u>>[1] = u /\ <<v>>[1] = v
  BY ShortLists
<1>2. IsList(z) /\ Len(z) = 2 /\ z[1] = u /\ z[2] = v
  BY <1>1, Joined
<1>3. w = [i \in 1..2 |-> w[i]] /\ w[1] = u /\ w[2] = v
  OBVIOUS
<1>. HIDE DEF z, w
<1>4. z = [i \in 1..2 |-> z[i]]
  BY <1>2 DEF IsList
<1>5. \A i \in 1..2 : i = 1 \/ i = 2
  OBVIOUS
<1>6. \A i \in 1..2 : z[i] = w[i]
  BY <1>2, <1>3, <1>5, Zenon
<1>7. z = w
  BY <1>3, <1>4, <1>6
<1>. QED  BY <1>7 DEF z, w

\* A block's events are translated to its deltas.
EventsOf(i, b) ==
    IF b.kind = "call" THEN <<Event("start", i - 1, b, None)>> \o <<Event("delta", i - 1, b, None)>>
    ELSE <<Event("delta", i - 1, b, None)>>

\* The events of a block are translated to its deltas.
LEMMA BlockTranslated ==
  ASSUME Provider # "gemini", NEW i \in Nat \ {0}, NEW b, b.kind \in {"text", "call"}
  PROVE  /\ EventsTyped(EventsOf(i, b))
         /\ TranslateChunk(Provider, EventsOf(i, b)) = DeltasOf(i - 1, b)
<1>. DEFINE x == Event("start", i - 1, b, None)
            y == Event("delta", i - 1, b, None)
<1>1. /\ x.kind = "start" /\ x.index = i - 1 /\ x.block = b
      /\ y.kind = "delta" /\ y.index = i - 1 /\ y.block = b
      /\ EventTyped(x) /\ EventTyped(y)
  BY DEF Event, EventTyped
<1>2. EventsOf(i, b) = IF b.kind = "call" THEN <<x>> \o <<y>> ELSE <<y>>
  BY Zenon DEF EventsOf
<1>. HIDE DEF x, y
<1>3. MessageDeltas(Provider, x) = <<Event("call", i - 1, b, None)>>
  BY <1>1 DEF MessageDeltas
<1>4. MessageDeltas(Provider, y) = IF b.kind = "text" THEN <<Event("text", 0, b, None)>>
                                   ELSE <<Event("arguments", i - 1, b, None)>>
  <2>1. MessageDeltas(Provider, y) = Delta(i - 1, y)
    BY <1>1 DEF MessageDeltas
  <2>. QED  BY <1>1, <2>1, Zenon DEF Delta
<1>5. /\ TranslateChunk(Provider, <<x>>) = MessageDeltas(Provider, x)
      /\ TranslateChunk(Provider, <<y>>) = MessageDeltas(Provider, y)
      /\ EventsTyped(<<x>>) /\ EventsTyped(<<y>>)
  <2>1. ASSUME NEW z, EventTyped(z)
        PROVE  TranslateChunk(Provider, <<z>>) = MessageDeltas(Provider, z) /\ EventsTyped(<<z>>)
    <3>1. IsList(<<z>>) /\ ToSet(<<z>>) = {z}
      BY ShortLists
    <3>2. EventsTyped(<<z>>)
      BY <2>1, <3>1 DEF EventsTyped
    <3>. QED  BY <3>2, ChunkOfOne, Zenon
  <2>. QED  BY <1>1, <2>1, Zenon
<1>6. /\ TranslateChunk(Provider, <<x>> \o <<y>>)
           = TranslateChunk(Provider, <<x>>) \o TranslateChunk(Provider, <<y>>)
      /\ EventsTyped(<<x>> \o <<y>>)
  <2>. DEFINE s == <<x>>
              t == <<y>>
  <2>1. EventsTyped(s) /\ EventsTyped(t)
    BY <1>5
  <2>. HIDE DEF s, t
  <2>2. /\ TranslateChunk(Provider, s \o t) = TranslateChunk(Provider, s) \o TranslateChunk(Provider, t)
        /\ EventsTyped(s \o t)
    BY <2>1, ChunkJoined, Zenon
  <2>. QED  BY <2>2 DEF s, t
<1>7. CASE b.kind = "call"
  <2>1. b.kind # "text"
    BY <1>7
  <2>. QED  BY <1>2, <1>3, <1>4, <1>5, <1>6, <1>7, <2>1, Zenon DEF DeltasOf
<1>8. CASE b.kind = "text"
  <2>1. b.kind # "call"
    BY <1>8
  <2>. QED  BY <1>2, <1>4, <1>5, <1>8, <2>1, Zenon DEF DeltasOf
<1>. QED  BY <1>7, <1>8

\* And so all of them.
LEMMA BlocksTranslated ==
  ASSUME Provider # "gemini", NEW s, IsList(s),
         \A i \in 1..Len(s) : s[i].kind \in {"text", "call"}
  PROVE  LET q == [i \in 1..Len(s) |-> DeltasOf(i - 1, s[i])]
         IN  /\ TranslateChunk(Provider, BlockEvents(s)) = FlattenSeq(q)
             /\ EventsTyped(BlockEvents(s))
<1>. DEFINE n == Len(s)
            q == [i \in 1..n |-> DeltasOf(i - 1, s[i])]
            p == [i \in DOMAIN s |-> EventsOf(i, s[i])]
<1>1. n \in Nat /\ DOMAIN s = 1..n
  BY ListIs
<1>2. BlockEvents(s) = FlattenSeq(p)
  <2>. DEFINE of(i) == IF s[i].kind = "call"
                       THEN <<Event("start", i - 1, s[i], None), Event("delta", i - 1, s[i], None)>>
                       ELSE <<Event("delta", i - 1, s[i], None)>>
  <2>1. \A i : of(i) = EventsOf(i, s[i])
    <3>. DEFINE x(i) == Event("start", i - 1, s[i], None)
                y(i) == Event("delta", i - 1, s[i], None)
    <3>1. ASSUME NEW i PROVE of(i) = EventsOf(i, s[i])
      <4>1. /\ of(i) = IF s[i].kind = "call" THEN <<x(i), y(i)>> ELSE <<y(i)>>
            /\ EventsOf(i, s[i]) = IF s[i].kind = "call" THEN <<x(i)>> \o <<y(i)>> ELSE <<y(i)>>
        BY Zenon DEF EventsOf
      <4>2. <<x(i), y(i)>> = <<x(i)>> \o <<y(i)>>
        BY Pair, Zenon
      <4>. QED  BY <4>1, <4>2, Zenon
    <3>. QED  BY <3>1
  <2>2. BlockEvents(s) = FlattenSeq([i \in DOMAIN s |-> of(i)])
    BY Zenon DEF BlockEvents
  <2>. HIDE DEF of
  <2>3. [i \in DOMAIN s |-> of(i)] = p
    BY <2>1
  <2>. QED  BY <2>2, <2>3, Zenon
<1>3. /\ p = [i \in 1..n |-> p[i]]
      /\ \A i \in 1..n : p[i] = EventsOf(i, s[i])
  BY <1>1
<1>4. /\ q = [i \in 1..n |-> q[i]]
      /\ \A i \in 1..n : q[i] = DeltasOf(i - 1, s[i])
  OBVIOUS
<1>. HIDE DEF p, q
<1>5. \A i \in 1..n : /\ EventsTyped(p[i]) /\ IsList(p[i]) /\ IsList(q[i])
                      /\ TranslateChunk(Provider, p[i]) = q[i]
  <2>1. ASSUME NEW i \in 1..n
        PROVE  /\ EventsTyped(p[i]) /\ IsList(p[i]) /\ IsList(q[i])
               /\ TranslateChunk(Provider, p[i]) = q[i]
    <3>1. i \in Nat \ {0} /\ s[i].kind \in {"text", "call"}
      BY <1>1
    <3>2. /\ EventsTyped(EventsOf(i, s[i]))
          /\ TranslateChunk(Provider, EventsOf(i, s[i])) = DeltasOf(i - 1, s[i])
      BY <3>1, BlockTranslated
    <3>. QED  BY <1>3, <1>4, <3>2, DeltasList DEF EventsTyped
  <2>. QED  BY <2>1
<1>. HIDE DEF n
<1>6. PICK f : /\ f[0] = <<>> /\ \A i \in 1..n : f[i] = f[i - 1] \o p[i]
               /\ \A i \in 0..n : IsList(f[i])
               /\ FlattenSeq(p) = f[n]
  BY <1>1, <1>3, <1>5, FlattenSteps
<1>7. PICK g : /\ g[0] = <<>> /\ \A i \in 1..n : g[i] = g[i - 1] \o q[i]
               /\ \A i \in 0..n : IsList(g[i])
               /\ FlattenSeq(q) = g[n]
  BY <1>1, <1>4, <1>5, FlattenSteps
<1>. DEFINE S == {k \in Nat : k \in 0..n => EventsTyped(f[k]) /\ TranslateChunk(Provider, f[k]) = g[k]}
<1>8. 0 \in S
  <2>1. EventsTyped(<<>>) /\ DOMAIN <<>> = {}
    BY ShortLists DEF EventsTyped
  <2>2. TranslateChunk(Provider, <<>>) = <<>>
    <3>1. \A d : [i \in {} |-> d[i]] = <<>>
      OBVIOUS
    <3>2. [i \in DOMAIN <<>> |-> MessageDeltas(Provider, <<>>[i])] = <<>>
      BY <2>1
    <3>3. FlattenSeq(<<>>) = <<>>
      BY ShortLists DEF FlattenSeq
    <3>. QED  BY <3>2, <3>3, Zenon DEF TranslateChunk
  <2>. QED  BY <1>6, <1>7, <2>1, <2>2
<1>9. ASSUME NEW k \in Nat, k \in S PROVE k + 1 \in S
  <2>1. ASSUME k + 1 \in 0..n
        PROVE  EventsTyped(f[k + 1]) /\ TranslateChunk(Provider, f[k + 1]) = g[k + 1]
    <3>1. k \in 0..n /\ k + 1 \in 1..n /\ (k + 1) - 1 = k
      BY <1>1, <2>1
    <3>. DEFINE x == f[k]
                y == p[k + 1]
    <3>2. /\ EventsTyped(x) /\ TranslateChunk(Provider, x) = g[k]
          /\ EventsTyped(y) /\ TranslateChunk(Provider, y) = q[k + 1]
          /\ f[k + 1] = x \o y /\ g[k + 1] = g[k] \o q[k + 1]
      BY <1>5, <1>6, <1>7, <1>9, <3>1
    <3>. HIDE DEF x, y
    <3>3. /\ TranslateChunk(Provider, x \o y) = TranslateChunk(Provider, x) \o TranslateChunk(Provider, y)
          /\ EventsTyped(x \o y)
      BY <3>2, ChunkJoined, Zenon
    <3>. QED  BY <3>2, <3>3, Zenon
  <2>. QED  BY <2>1
<1>10. Nat \subseteq S
  <2>. HIDE DEF S
  <2>. QED  BY <1>8, <1>9, SetInduction
<1>11. EventsTyped(f[n]) /\ TranslateChunk(Provider, f[n]) = g[n]
  <2>1. n \in S /\ n \in 0..n
    BY <1>1, <1>10
  <2>. QED  BY <2>1
<1>. QED  BY <1>2, <1>6, <1>7, <1>11, Zenon DEF q, n

\* What an answer's stream is translated to.
StreamOf(q, x) == <<Signal("role")>> \o (FlattenSeq(q) \o Closing(x))

\* The events that are translated for themselves.
LEMMA MessagesStreamed ==
  ASSUME Provider # "gemini", NEW a, IsList(a.blocks),
         \A i \in 1..Len(a.blocks) : a.blocks[i].kind \in {"text", "call"},
         a.stop # "guardrail_intervened"
  PROVE  LET q == [i \in 1..Len(a.blocks) |-> DeltasOf(i - 1, a.blocks[i])]
         IN  TranslateChunk(Provider, Events(Provider, a)) = StreamOf(q, Stops(Provider)[a.stop])
<1>. DEFINE q == [i \in 1..Len(a.blocks) |-> DeltasOf(i - 1, a.blocks[i])]
            x == Stops(Provider)[a.stop]
            T(es) == TranslateChunk(Provider, es)
            first == Signal("message")
            between == BlockEvents(a.blocks)
            stopping == Event("stopping", 0, None, a.stop)
            end == Signal("end")
<1>1. T(between) = FlattenSeq(q) /\ EventsTyped(between)
  BY BlocksTranslated
<1>2. /\ first.kind = "message" /\ first.index = 0
      /\ stopping.kind = "stopping" /\ stopping.index = 0 /\ stopping.stop = a.stop
      /\ end.kind = "end" /\ end.index = 0
  BY DEF Event, Signal
<1>3. Events(Provider, a) = <<first>> \o between \o <<stopping, end>>
  BY Zenon DEF Events
<1>. HIDE DEF q, between, first, stopping, end
<1>4. EventTyped(first) /\ EventTyped(stopping) /\ EventTyped(end)
  BY <1>2 DEF EventTyped
<1>5. /\ MessageDeltas(Provider, first) = <<Signal("role")>>
      /\ MessageDeltas(Provider, end) = IF Provider = "bedrock" THEN <<>> ELSE <<Done>>
  BY <1>2 DEF MessageDeltas
<1>6. MessageDeltas(Provider, stopping)
         = <<Event("finish", 0, None, x)>> \o (IF Provider = "bedrock" THEN <<Done>> ELSE <<>>)
  <2>1. MessageDeltas(Provider, stopping)
          = <<Event("finish", 0, None, IF stopping.stop = "guardrail_intervened" THEN "stop"
                                       ELSE Stops(Provider)[stopping.stop])>>
            \o (IF Provider = "bedrock" THEN <<Done>> ELSE <<>>)
    BY <1>2, Zenon DEF MessageDeltas
  <2>2. (IF stopping.stop = "guardrail_intervened" THEN "stop" ELSE Stops(Provider)[stopping.stop]) = x
    BY <1>2, Zenon
  <2>. QED  BY <2>1, <2>2, Zenon
<1>. HIDE DEF x
<1>7. \A e : EventTyped(e) => EventsTyped(<<e>>) /\ T(<<e>>) = MessageDeltas(Provider, e)
  <2>1. ASSUME NEW e, EventTyped(e)
        PROVE  EventsTyped(<<e>>) /\ T(<<e>>) = MessageDeltas(Provider, e)
    <3>1. IsList(<<e>>) /\ ToSet(<<e>>) = {e}
      BY ShortLists
    <3>. QED  BY <2>1, <3>1, ChunkOfOne DEF EventsTyped
  <2>. QED  BY <2>1
<1>8. \A s, t : EventsTyped(s) /\ EventsTyped(t) => T(s \o t) = T(s) \o T(t) /\ EventsTyped(s \o t)
  BY ChunkJoined, Zenon
<1>9. IsList(<<Signal("role")>>) /\ IsList(FlattenSeq(q)) /\ IsList(Closing(x))
  <2>1. IsList(T(between))
    BY <1>1, ChunkMade DEF DeltasTyped
  <2>2. IsList(<<Signal("role")>>) /\ IsList(<<Event("finish", 0, None, x)>>) /\ IsList(<<Done>>)
    BY ShortLists, Zenon
  <2>. DEFINE u == <<Event("finish", 0, None, x)>>
              v == <<Done>>
  <2>. HIDE DEF u, v
  <2>3. IsList(u \o v)
    BY <2>2, Joined DEF u, v
  <2>. QED  BY <1>1, <2>1, <2>2, <2>3, Zenon DEF Closing, u, v
<1>. HIDE DEF T
<1>10. T(<<stopping, end>>) = Closing(x) /\ EventsTyped(<<stopping, end>>)
  <2>. DEFINE u == <<Event("finish", 0, None, x)>>
              v == <<Done>>
  <2>1. <<stopping, end>> = <<stopping>> \o <<end>>
    BY Pair
  <2>2. /\ T(<<stopping>> \o <<end>>) = T(<<stopping>>) \o T(<<end>>)
        /\ EventsTyped(<<stopping>> \o <<end>>)
    BY <1>4, <1>7, <1>8, Zenon
  <2>3. /\ T(<<stopping>>) = u \o (IF Provider = "bedrock" THEN v ELSE <<>>)
        /\ T(<<end>>) = IF Provider = "bedrock" THEN <<>> ELSE v
    BY <1>4, <1>5, <1>6, <1>7, Zenon
  <2>4. IsList(u) /\ IsList(v)
    BY ShortLists
  <2>. HIDE DEF u, v
  <2>5. T(<<stopping>>) \o T(<<end>>) = u \o v
    <3>1. u \o <<>> = u /\ (u \o v) \o <<>> = u \o v
      <4>1. IsList(u \o v)
        BY <2>4, Joined
      <4>. DEFINE w == u \o v
      <4>. HIDE DEF w
      <4>2. w \in Seq(ToSet(w)) /\ u \in Seq(ToSet(u))
        BY <2>4, <4>1 DEF IsList, w
      <4>3. w \o <<>> = w /\ u \o <<>> = u
        BY <4>2
      <4>. QED  BY <4>3 DEF w
    <3>2. CASE Provider = "bedrock"
      <4>1. T(<<stopping>>) = u \o v /\ T(<<end>>) = <<>>
        BY <2>3, <3>2, Zenon
      <4>. DEFINE w == u \o v
      <4>. HIDE DEF w
      <4>. QED  BY <3>1, <4>1 DEF w
    <3>3. CASE Provider # "bedrock"
      <4>1. T(<<stopping>>) = u \o <<>> /\ T(<<end>>) = v
        BY <2>3, <3>3, Zenon
      <4>. QED  BY <3>1, <4>1
    <3>. QED  BY <3>2, <3>3
  <2>6. Closing(x) = u \o v
    BY Zenon DEF Closing, u, v
  <2>. DEFINE w == u \o v
              l == T(<<stopping>>) \o T(<<end>>)
  <2>7. l = w /\ Closing(x) = w /\ T(<<stopping>> \o <<end>>) = l
    BY <2>2, <2>5, <2>6, Zenon
  <2>. HIDE DEF w, l
  <2>. QED  BY <2>1, <2>2, <2>7, Zenon
<1>11. T(<<first>>) = <<Signal("role")>> /\ EventsTyped(<<first>>)
  BY <1>4, <1>5, <1>7, Zenon
<1>12. T(Events(Provider, a)) = (<<Signal("role")>> \o FlattenSeq(q)) \o Closing(x)
  <2>. DEFINE u == <<first>>
              w == <<stopping, end>>
  <2>1. EventsTyped(u) /\ EventsTyped(between) /\ EventsTyped(w)
    BY <1>1, <1>10, <1>11, Zenon
  <2>. HIDE DEF u, w
  <2>2. T(u \o between) = T(u) \o T(between) /\ EventsTyped(u \o between)
    BY <1>8, <2>1
  <2>. DEFINE z == u \o between
  <2>3. T(z) = T(u) \o T(between) /\ EventsTyped(z)
    BY <2>2
  <2>. HIDE DEF z
  <2>4. T(z \o w) = T(z) \o T(w)
    BY <1>8, <2>1, <2>3
  <2>5. T(u) = <<Signal("role")>> /\ T(between) = FlattenSeq(q) /\ T(w) = Closing(x)
    BY <1>1, <1>10, <1>11, Zenon DEF T, u, w
  <2>6. Events(Provider, a) = z \o w
    BY <1>3, Zenon DEF z, u, w
  <2>. QED  BY <2>3, <2>4, <2>5, <2>6
<1>13. StreamOf(q, x) = (<<Signal("role")>> \o FlattenSeq(q)) \o Closing(x)
  <2>. DEFINE u == <<Signal("role")>>
              v == FlattenSeq(q)
              w == Closing(x)
  <2>1. IsList(u) /\ IsList(v) /\ IsList(w)
    BY <1>9, Zenon
  <2>2. StreamOf(q, x) = u \o (v \o w)
    BY Zenon DEF StreamOf
  <2>. HIDE DEF u, v, w
  <2>3. u \o (v \o w) = (u \o v) \o w
    BY <2>1, Associative
  <2>4. StreamOf(q, x) = (u \o v) \o w
    BY <2>2, <2>3
  <2>. DEFINE r == (u \o v) \o w
  <2>5. StreamOf(q, x) = r
    BY <2>4
  <2>. QED  BY <2>5 DEF r, u, v, w
<1>. QED  BY <1>12, <1>13 DEF q, x, T

\* How many calls come before the block i.
CallsSoFar(s, i) == Cardinality({j \in 1..i - 1 : s[j].kind = "call"})

\* A later call has more before it, so no two have the same index.
LEMMA CallsCounted ==
  ASSUME NEW s, NEW i \in Nat
  PROVE  /\ CallsSoFar(s, i) \in Nat
         /\ \A j \in 1..i - 1 : s[j].kind = "call" => CallsSoFar(s, j) < CallsSoFar(s, i)
<1>. DEFINE C(k) == {j \in 1..k - 1 : s[j].kind = "call"}
<1>1. \A k \in Nat : IsFiniteSet(C(k)) /\ Cardinality(C(k)) \in Nat
  <2>1. ASSUME NEW k \in Nat PROVE IsFiniteSet(C(k)) /\ Cardinality(C(k)) \in Nat
    <3>1. IsFiniteSet(1..k - 1) /\ C(k) \in SUBSET (1..k - 1)
      BY FS_Interval
    <3>2. IsFiniteSet(C(k))
      BY <3>1, FS_Subset
    <3>. QED  BY <3>2, FS_CardinalityType
  <2>. QED  BY <2>1
<1>2. ASSUME NEW j \in 1..i - 1, s[j].kind = "call"
      PROVE  Cardinality(C(j)) < Cardinality(C(i))
  <2>1. j \in C(i) /\ j \notin C(j) /\ C(j) \in SUBSET C(i) /\ j \in Nat
    BY <1>2
  <2>2. /\ IsFiniteSet(C(i)) /\ Cardinality(C(i)) \in Nat /\ Cardinality(C(j)) \in Nat
    BY <1>1, <2>1
  <2>. HIDE DEF C
  <2>3. /\ Cardinality(C(j)) <= Cardinality(C(i))
        /\ Cardinality(C(i)) = Cardinality(C(j)) => C(i) = C(j)
    BY <2>1, <2>2, FS_Subset
  <2>. QED  BY <2>1, <2>2, <2>3
<1>3. \A k : CallsSoFar(s, k) = Cardinality(C(k))
  BY Zenon DEF CallsSoFar
<1>. HIDE DEF C
<1>. QED  BY <1>1, <1>2, <1>3

\* Lists, their joining, and the same with a list at the end of the last.
Lists(q, n) == q = [i \in 1..n |-> q[i]] /\ \A i \in 1..n : IsList(q[i])

\* g[i] is the first i lists of q, joined.
Joins(g, q, n) == g[0] = <<>> /\ \A i \in 1..n : g[i] = g[i - 1] \o q[i]

\* p is q with z at the end of its last list.
Longer(p, q, z, n) ==
    /\ p = [i \in 1..n |-> p[i]]
    /\ \A i \in 1..n : p[i] = IF i = n THEN q[i] \o z ELSE q[i]

\* FlattenSeq joins all of them.
LEMMA JoinsIs ==
  ASSUME NEW n \in Nat, NEW q, NEW g, Lists(q, n), Joins(g, q, n)
  PROVE  FlattenSeq(q) = g[n]
BY FlattenIs DEF Lists, Joins

\* What the last list is made longer by comes at the end.
LEMMA LastJoined ==
  ASSUME NEW n \in Nat \ {0}, NEW q, Lists(q, n), NEW z, IsList(z), NEW p, Longer(p, q, z, n)
  PROVE  FlattenSeq(p) = FlattenSeq(q) \o z
<1>0. /\ q = [i \in 1..n |-> q[i]] /\ \A i \in 1..n : IsList(q[i])
      /\ p = [i \in 1..n |-> p[i]]
      /\ \A i \in 1..n : p[i] = IF i = n THEN q[i] \o z ELSE q[i]
  BY DEF Lists, Longer
<1>1. PICK f : /\ f[0] = <<>> /\ \A i \in 1..n : f[i] = f[i - 1] \o q[i]
               /\ \A i \in 0..n : IsList(f[i])
               /\ FlattenSeq(q) = f[n]
  BY <1>0, FlattenSteps
<1>. DEFINE g == [i \in 0..n |-> IF i = n THEN f[i] \o z ELSE f[i]]
<1>2. g[0] = <<>> /\ g[n] = f[n] \o z /\ \A i \in 0..(n - 1) : g[i] = f[i]
  BY <1>1
<1>. HIDE DEF g
<1>3. ASSUME NEW i \in 1..n PROVE g[i] = g[i - 1] \o p[i] /\ IsList(p[i])
  <2>1. i - 1 \in 0..(n - 1) /\ i - 1 \in 0..n /\ g[i - 1] = f[i - 1]
    BY <1>2
  <2>2. CASE i = n
    <3>. DEFINE x == f[n - 1]
                y == q[n]
    <3>1. IsList(x) /\ IsList(y) /\ n \in 1..n
      BY <1>0, <1>1, <2>1, <2>2
    <3>2. f[n] = x \o y /\ p[n] = y \o z /\ g[n - 1] = x
      BY <1>0, <1>1, <2>1, <2>2, <3>1
    <3>. HIDE DEF x, y
    <3>3. x \o (y \o z) = (x \o y) \o z /\ IsList(y \o z)
      BY <3>1, Associative, Joined
    <3>4. g[n] = g[n - 1] \o p[n] /\ IsList(p[n])
      <4>. DEFINE w == y \o z
                  v == x \o y
      <4>1. f[n] = v /\ p[n] = w /\ IsList(w) /\ x \o w = v \o z
        BY <3>2, <3>3
      <4>. HIDE DEF v, w
      <4>. QED  BY <1>2, <3>2, <4>1
    <3>. QED  BY <2>2, <3>4
  <2>3. CASE i # n
    <3>1. i \in 0..(n - 1)
      BY <2>3
    <3>2. g[i] = f[i] /\ p[i] = q[i]
      BY <1>0, <1>2, <2>3, <3>1
    <3>. QED  BY <1>0, <1>1, <2>1, <3>2
  <2>. QED  BY <2>2, <2>3
<1>4. FlattenSeq(p) = g[n]
  <2>1. n \in Nat
    OBVIOUS
  <2>2. Lists(p, n) /\ Joins(g, p, n)
    BY <1>0, <1>2, <1>3, Zenon DEF Lists, Joins
  <2>. QED  BY <2>1, <2>2, JoinsIs, Zenon
<1>. QED  BY <1>1, <1>2, <1>4

\* Gemini's events come in one chunk.
LEMMA PartsStreamed ==
  ASSUME Provider = "gemini", NEW a, IsList(a.blocks), Len(a.blocks) # 0,
         \A i \in 1..Len(a.blocks) : a.blocks[i].kind \in {"text", "call"},
         a.stop # None
  PROVE  LET q == [i \in 1..Len(a.blocks) |-> DeltasOf(CallsSoFar(a.blocks, i), a.blocks[i])]
         IN  TranslateChunk(Provider, Events(Provider, a))
               = StreamOf(q, IF a.stop = "RECITATION" THEN "stop" ELSE Stops("gemini")[a.stop])
<1>. DEFINE s == a.blocks
            n == Len(s)
            q == [i \in 1..n |-> DeltasOf(CallsSoFar(s, i), s[i])]
            x == IF a.stop = "RECITATION" THEN "stop" ELSE Stops("gemini")[a.stop]
            fin == <<Event("finish", 0, None, x)>>
            event(i) == Event("part", 0, s[i], IF i = n THEN a.stop ELSE None)
            es == [i \in DOMAIN s |-> event(i)]
            index(i) == Cardinality({j \in 1..i - 1 : es[j].block.kind = "call"})
            part(i)  == IF es[i].block.kind = "text" THEN Delta(0, es[i])
                        ELSE <<Event("call", index(i), es[i].block, None)>> \o Delta(index(i), es[i])
            reason(i) == IF es[i].stop = None THEN <<>>
                         ELSE <<Event("finish", 0, None,
                                      IF es[i].stop = "RECITATION" THEN "stop"
                                      ELSE Stops("gemini")[es[i].stop])>>
            p == [i \in DOMAIN es |-> part(i) \o reason(i)]
<1>1. n \in Nat \ {0} /\ DOMAIN s = 1..n
  BY ListIs
<1>2. DOMAIN es = 1..n /\ \A i \in 1..n : es[i].block = s[i] /\ es[i].stop = IF i = n THEN a.stop ELSE None
  BY <1>1 DEF Event
<1>3. Events(Provider, a) = es
  BY Zenon DEF Events
<1>4. TranslateChunk(Provider, es) = <<Signal("role")>> \o FlattenSeq(p) \o <<Done>>
  BY Zenon DEF TranslateChunk, GeminiDeltas
<1>. HIDE DEF es
<1>5. ASSUME NEW i \in 1..n PROVE part(i) = DeltasOf(CallsSoFar(s, i), s[i])
  <2>1. index(i) = CallsSoFar(s, i)
    <3>1. \A j \in 1..i - 1 : j \in 1..n
      BY <1>1
    <3>2. {j \in 1..i - 1 : es[j].block.kind = "call"} = {j \in 1..i - 1 : s[j].kind = "call"}
      BY <1>2, <3>1
    <3>. QED  BY <3>2, Zenon DEF CallsSoFar
  <2>2. es[i].block = s[i] /\ s[i].kind \in {"text", "call"}
    BY <1>2
  <2>. HIDE DEF index
  <2>3. CASE s[i].kind = "text"
    <3>1. s[i].kind # "call"
      BY <2>3
    <3>. QED  BY <2>2, <2>3, <3>1, Zenon DEF Delta, DeltasOf
  <2>4. CASE s[i].kind = "call"
    <3>1. s[i].kind # "text"
      BY <2>4
    <3>. QED  BY <2>1, <2>2, <2>4, <3>1, Zenon DEF Delta, DeltasOf
  <2>. QED  BY <2>2, <2>3, <2>4
<1>6. ASSUME NEW i \in 1..n PROVE reason(i) = IF i = n THEN fin ELSE <<>>
  <2>1. CASE i = n
    <3>1. es[i].stop = a.stop /\ a.stop # None
      BY <1>2, <2>1
    <3>. QED  BY <2>1, <3>1, Zenon
  <2>2. CASE i # n
    <3>1. es[i].stop = None
      BY <1>2, <2>2
    <3>. QED  BY <2>2, <3>1, Zenon
  <2>. QED  BY <2>1, <2>2
<1>7. /\ q = [i \in 1..n |-> q[i]]
      /\ \A i \in 1..n : q[i] = DeltasOf(CallsSoFar(s, i), s[i]) /\ IsList(q[i])
  BY DeltasList
<1>8. p = [i \in 1..n |-> p[i]] /\ \A i \in 1..n : p[i] = part(i) \o reason(i)
  BY <1>2
<1>9. IsList(fin) /\ IsList(<<Done>>) /\ IsList(<<Signal("role")>>)
  BY ShortLists, Zenon
<1>. HIDE DEF q, p, part, reason, fin
<1>10. \A i \in 1..n : p[i] = IF i = n THEN q[i] \o fin ELSE q[i]
  <2>1. ASSUME NEW i \in 1..n PROVE p[i] = IF i = n THEN q[i] \o fin ELSE q[i]
    <3>1. p[i] = part(i) \o reason(i) /\ part(i) = q[i] /\ reason(i) = IF i = n THEN fin ELSE <<>>
      BY <1>5, <1>6, <1>7, <1>8
    <3>2. q[i] \o <<>> = q[i]
      <4>. DEFINE r == q[i]
      <4>1. r \in Seq(ToSet(r))
        BY <1>7 DEF IsList
      <4>. HIDE DEF r
      <4>2. r \o <<>> = r
        BY <4>1
      <4>. QED  BY <4>2 DEF r
    <3>3. CASE i = n
      BY <3>1, <3>3
    <3>4. CASE i # n
      <4>1. p[i] = q[i] \o <<>>
        BY <3>1, <3>4
      <4>. QED  BY <3>2, <3>4, <4>1
    <3>. QED  BY <3>3, <3>4
  <2>. QED  BY <2>1
<1>11. FlattenSeq(p) = FlattenSeq(q) \o fin
  <2>1. n \in Nat \ {0} /\ IsList(fin)
    BY <1>1, <1>9
  <2>2. Lists(q, n) /\ Longer(p, q, fin, n)
    BY <1>7, <1>8, <1>10, Zenon DEF Lists, Longer
  <2>. QED  BY <2>1, <2>2, LastJoined, Zenon
<1>12. IsList(FlattenSeq(q))
  <2>. DEFINE f == FlattenSeq(q)
  <2>1. InOrder(f, q, n)
    BY <1>1, <1>7, Flattened
  <2>. HIDE DEF f
  <2>2. IsList(f)
    BY <2>1 DEF InOrder
  <2>. QED  BY <2>2 DEF f
<1>13. <<Signal("role")>> \o FlattenSeq(p) \o <<Done>> = StreamOf(q, x)
  <2>. DEFINE r == <<Signal("role")>>
              f == FlattenSeq(q)
              d == <<Done>>
  <2>1. IsList(r) /\ IsList(f) /\ IsList(d)
    BY <1>9, <1>12, Zenon
  <2>2. StreamOf(q, x) = r \o (f \o (fin \o d))
    BY Zenon DEF StreamOf, Closing, fin
  <2>3. <<Signal("role")>> \o FlattenSeq(p) \o <<Done>> = (r \o (f \o fin)) \o d
    BY <1>11, Zenon
  <2>. HIDE DEF r, f, d
  <2>4. IsList(f \o fin) /\ IsList(fin \o d)
    BY <1>9, <2>1, Joined
  <2>5. f \o (fin \o d) = (f \o fin) \o d
    BY <1>9, <2>1, Associative
  <2>6. r \o ((f \o fin) \o d) = (r \o (f \o fin)) \o d
    <3>. DEFINE w == f \o fin
    <3>1. IsList(w)
      BY <2>4
    <3>. HIDE DEF w
    <3>2. r \o (w \o d) = (r \o w) \o d
      BY <2>1, <3>1, Associative
    <3>. QED  BY <3>2 DEF w
  <2>7. r \o (f \o (fin \o d)) = (r \o (f \o fin)) \o d
    <3>. DEFINE u == f \o (fin \o d)
                v == (f \o fin) \o d
    <3>1. u = v /\ r \o v = (r \o (f \o fin)) \o d
      BY <2>5, <2>6
    <3>. HIDE DEF u, v
    <3>2. r \o u = (r \o (f \o fin)) \o d
      BY <3>1
    <3>. QED  BY <3>2 DEF u
  <2>. DEFINE w == (r \o (f \o fin)) \o d
  <2>8. r \o (f \o (fin \o d)) = w /\ <<Signal("role")>> \o FlattenSeq(p) \o <<Done>> = w
    BY <2>3, <2>7
  <2>. HIDE DEF w
  <2>. QED  BY <2>2, <2>8
<1>. QED  BY <1>3, <1>4, <1>13, Zenon DEF q, n, s, x

\* An answer r that was put together says what the provider's answer a says.
Agrees(r, a) ==
    /\ r.texts = OfKind(a.blocks, "text")
    /\ LET calls == OfKind(a.blocks, "call")
       IN  /\ Len(r.calls) = Len(calls)
           /\ \A i \in DOMAIN calls :
                 r.calls[i] = [id |-> calls[i].id, names |-> <<calls[i].tool>>,
                               arguments |-> <<calls[i].id>>]
    /\ r.finish = TranslateResponse(Provider, a).finish \/ a.stop = "RECITATION"

\* What may be streamed.
Streamable(a) ==
    /\ IsList(a.blocks)
    /\ \A i \in 1..Len(a.blocks) : a.blocks[i].kind \in {"text", "call"}
    /\ a.stop # "guardrail_intervened"
    /\ Provider = "gemini" => a.stop # None

\* The client puts a whole stream together to the answer, but for Gemini's reason
\* RECITATION.
LEMMA WholeAgrees ==
  ASSUME NEW a, Streamable(a), Provider = "gemini" => Len(a.blocks) # 0
  PROVE  Agrees(Finish(PushAll(Empty, TranslateChunk(Provider, Events(Provider, a)))), a)
<1>. DEFINE s == a.blocks
            r == Finish(PushAll(Empty, TranslateChunk(Provider, Events(Provider, a))))
<1>1. IsList(s) /\ Len(s) \in Nat /\ \A i \in 1..Len(s) : s[i].kind \in {"text", "call"}
  BY ListIs DEF Streamable
<1>2. \E x : /\ r = Answer(OfKind(s, "text"), MadeOf(OfKind(s, "call")), x)
             /\ x = TranslateResponse(Provider, a).finish \/ a.stop = "RECITATION"
  <2>1. CASE Provider # "gemini"
    <3>. DEFINE q == [i \in 1..Len(s) |-> DeltasOf(i - 1, s[i])]
                ix == [i \in 1..Len(s) |-> i - 1]
                x == Stops(Provider)[a.stop]
    <3>1. TranslateChunk(Provider, Events(Provider, a)) = StreamOf(q, x)
      BY <2>1, MessagesStreamed DEF Streamable
    <3>2. /\ \A i \in 1..Len(s) : ix[i] \in Nat
          /\ \A i \in 1..Len(s) : \A j \in 1..i - 1 : ix[j] < ix[i]
          /\ q = [i \in 1..Len(s) |-> q[i]]
          /\ \A i \in 1..Len(s) : q[i] = DeltasOf(ix[i], s[i])
      BY <1>1
    <3>. HIDE DEF q, ix
    <3>3. Finish(PushAll(Empty, StreamOf(q, x))) = Answer(OfKind(s, "text"), MadeOf(OfKind(s, "call")), x)
      <4>. HIDE DEF x, s
      <4>. QED  BY <1>1, <3>2, StreamPushed DEF StreamOf
    <3>4. x = TranslateResponse(Provider, a).finish
      <4>1. CASE Provider = "anthropic"
        <5>1. TranslateResponse(Provider, a) = AnthropicResponse(a)
          BY <4>1 DEF TranslateResponse
        <5>. QED  BY <4>1, <5>1 DEF AnthropicResponse, Answer
      <4>2. CASE Provider = "bedrock"
        <5>1. TranslateResponse(Provider, a) = BedrockResponse(a)
          BY <4>2 DEF TranslateResponse
        <5>. QED  BY <4>2, <5>1 DEF BedrockResponse, Answer
      <4>3. CASE Provider \notin {"anthropic", "bedrock"}
        <5>1. Stops(Provider) = Stops("openai")
          BY <2>1, <4>3 DEF Stops
        <5>. DEFINE o == Answer(OfKind(s, "text"), OfKind(s, "call"), Stops("openai")[a.stop])
        <5>2. TranslateResponse(Provider, a) = o
          BY <2>1, <4>3 DEF TranslateResponse
        <5>. QED  BY <5>1, <5>2 DEF Answer
      <4>. QED  BY <4>1, <4>2, <4>3
    <3>. QED  BY <3>1, <3>3, <3>4, Zenon
  <2>2. CASE Provider = "gemini"
    <3>. DEFINE q == [i \in 1..Len(s) |-> DeltasOf(CallsSoFar(s, i), s[i])]
                ix == [i \in 1..Len(s) |-> CallsSoFar(s, i)]
                x == IF a.stop = "RECITATION" THEN "stop" ELSE Stops("gemini")[a.stop]
    <3>1. TranslateChunk(Provider, Events(Provider, a)) = StreamOf(q, x)
      BY <2>2, PartsStreamed DEF Streamable
    <3>2. /\ \A i \in 1..Len(s) : ix[i] \in Nat
          /\ \A i \in 1..Len(s) : \A j \in 1..i - 1 :
                s[i].kind = "call" /\ s[j].kind = "call" => ix[j] < ix[i]
          /\ q = [i \in 1..Len(s) |-> q[i]]
          /\ \A i \in 1..Len(s) : q[i] = DeltasOf(ix[i], s[i])
      <4>1. \A i \in 1..Len(s) : i \in Nat /\ \A j \in 1..i - 1 : j \in 1..Len(s)
        BY <1>1
      <4>2. /\ \A i \in 1..Len(s) : ix[i] = CallsSoFar(s, i) /\ q[i] = DeltasOf(ix[i], s[i])
            /\ q = [i \in 1..Len(s) |-> q[i]]
        OBVIOUS
      <4>. HIDE DEF ix, q
      <4>3. \A i \in 1..Len(s) : /\ ix[i] \in Nat
                                 /\ \A j \in 1..i - 1 : s[j].kind = "call" => ix[j] < ix[i]
        <5>1. ASSUME NEW i \in 1..Len(s)
              PROVE  /\ ix[i] \in Nat
                     /\ \A j \in 1..i - 1 : s[j].kind = "call" => ix[j] < ix[i]
          <6>1. /\ CallsSoFar(s, i) \in Nat
                /\ \A j \in 1..i - 1 : s[j].kind = "call" => CallsSoFar(s, j) < CallsSoFar(s, i)
            BY <4>1, CallsCounted
          <6>. QED  BY <4>1, <4>2, <6>1
        <5>. QED  BY <5>1
      <4>. QED  BY <4>2, <4>3
    <3>. HIDE DEF q, ix
    <3>3. Finish(PushAll(Empty, StreamOf(q, x))) = Answer(OfKind(s, "text"), MadeOf(OfKind(s, "call")), x)
      <4>. HIDE DEF x, s
      <4>. QED  BY <1>1, <3>2, StreamPushed DEF StreamOf
    <3>4. x = TranslateResponse(Provider, a).finish \/ a.stop = "RECITATION"
      BY <2>2 DEF TranslateResponse, GeminiResponse, Answer
    <3>. QED  BY <3>1, <3>3, <3>4, Zenon
  <2>. QED  BY <2>1, <2>2
<1>. DEFINE calls == OfKind(s, "call")
<1>3. PICK x : /\ r = Answer(OfKind(s, "text"), MadeOf(calls), x)
               /\ x = TranslateResponse(Provider, a).finish \/ a.stop = "RECITATION"
  BY <1>2
<1>. HIDE DEF r, s
<1>4. r.texts = OfKind(s, "text") /\ r.calls = MadeOf(calls) /\ r.finish = x
  BY <1>3 DEF Answer
<1>5. IsList(calls)
  BY <1>1, OnlyThose, Zenon DEF OfKind
<1>. HIDE DEF calls
<1>6. DOMAIN calls = 1..Len(calls) /\ Len(calls) \in Nat
  BY <1>5, ListIs
<1>7. /\ Len(MadeOf(calls)) = Len(calls)
      /\ \A i \in DOMAIN calls : MadeOf(calls)[i] = Made(calls[i])
  <2>. DEFINE f == MadeOf(calls)
  <2>1. f = [i \in 1..Len(calls) |-> f[i]] /\ \A i \in 1..Len(calls) : f[i] = Made(calls[i])
    BY DEF MadeOf
  <2>. HIDE DEF f
  <2>2. Len(f) = Len(calls)
    BY <1>6, <2>1, FunctionList
  <2>. QED  BY <1>6, <2>1, <2>2 DEF f
<1>8. Agrees(r, a)
  BY <1>3, <1>4, <1>7, Zenon DEF Agrees, Made, calls, s
<1>. QED  BY <1>8, Zenon DEF r

-----------------------------------------------------------------------------
\* The inductive invariant. An answer is such as a conversation can be extended
\* with; one that is streamed is never looped on.
AnswerInv ==
    /\ IsList(answer.texts) /\ IsList(answer.calls)
    /\ ~setting.streaming => AreCalls(answer.calls)
    /\ stage \in {"looping", "asked again"} => ~setting.streaming
    /\ stage = "streaming" => setting.streaming

\* The accumulator and the events that are still to come.
StreamInv == AccTyped(acc) /\ EventsTyped(events)

\* All of it.
LoopInv ==
    /\ Conversation(conv) /\ Conversation(body)
    /\ ResultsAnswerCalls
    /\ AnswerInv
    /\ StreamInv

\* Results of calls, as messages.
LEMMA ResultsTyped ==
  ASSUME NEW s, IsList(s)
  PROVE  LET r == [i \in DOMAIN s |-> Result(s[i])]
         IN  /\ IsList(r)
             /\ \A m \in ToSet(r) : MessageTyped(m) /\ \E c \in ToSet(s) : m.answers = c.id
             /\ \A c \in ToSet(s) : \E m \in ToSet(r) : m.role = "tool" /\ m.answers = c.id
<1>. DEFINE r == [i \in DOMAIN s |-> Result(s[i])]
<1>1. DOMAIN s = 1..Len(s) /\ Len(s) \in Nat
  BY ListIs
<1>2. r = [i \in 1..Len(s) |-> r[i]] /\ \A i \in 1..Len(s) : r[i] = Result(s[i])
  BY <1>1
<1>. HIDE DEF r
<1>3. IsList(r) /\ Len(r) = Len(s)
  BY <1>1, <1>2, FunctionList
<1>4. \A c : /\ Result(c).role = "tool" /\ Result(c).answers = c.id
             /\ Result(c).parts = <<"text">> /\ Result(c).calls = <<>>
  BY DEF Result, Message
<1>5. /\ IsList(<<"text">>) /\ ToSet(<<"text">>) = {"text"}
      /\ IsList(<<>>) /\ ToSet(<<>>) = {}
  BY ShortLists, Zenon
<1>6. \A c : MessageTyped(Result(c))
  BY <1>4, <1>5 DEF MessageTyped, AreCalls
<1>7. ASSUME NEW m \in ToSet(r)
      PROVE  MessageTyped(m) /\ \E c \in ToSet(s) : m.answers = c.id
  <2>1. PICK i \in 1..Len(s) : m = Result(s[i])
    BY <1>2, <1>3, ListIs
  <2>2. s[i] \in ToSet(s)
    BY ListIs
  <2>. QED  BY <1>4, <1>6, <2>1, <2>2
<1>8. ASSUME NEW c \in ToSet(s)
      PROVE  \E m \in ToSet(r) : m.role = "tool" /\ m.answers = c.id
  <2>1. PICK i \in 1..Len(s) : s[i] = c
    BY ListIs
  <2>2. r[i] \in ToSet(r) /\ r[i] = Result(c)
    BY <1>2, <1>3, <2>1, ListIs
  <2>. QED  BY <1>4, <2>2
<1>9. /\ IsList(r)
      /\ \A m \in ToSet(r) : MessageTyped(m) /\ \E c \in ToSet(s) : m.answers = c.id
      /\ \A c \in ToSet(s) : \E m \in ToSet(r) : m.role = "tool" /\ m.answers = c.id
  BY <1>3, <1>7, <1>8, Zenon
<1>. QED  BY <1>9, Zenon DEF r

\* An answer, and the results of some of its calls.
LEMMA AnswerAdded ==
  ASSUME NEW ms, Conversation(ms), NEW a, MessageTyped(a), a.role = "assistant",
         NEW s, IsList(s), \A c \in ToSet(s) : \E d \in ToSet(a.calls) : c.id = d.id,
         NEW t, IsList(t), \A c \in ToSet(t) : \E d \in ToSet(a.calls) : c.id = d.id,
         NEW r, r = [i \in DOMAIN s |-> Result(s[i])],
         NEW u, u = [i \in DOMAIN t |-> Result(t[i])]
  PROVE  /\ Conversation(ms \o <<a>>)
         /\ Conversation(ms \o <<a>> \o r)
         /\ Conversation(ms \o <<a>> \o r \o u)
         /\ AllAnswered(ToSet(s) \cup ToSet(t), ms \o <<a>> \o r \o u)
<1>. DEFINE one == ms \o <<a>>
            all == one \o r
            both == all \o u
<1>1. /\ IsList(r)
      /\ \A m \in ToSet(r) : MessageTyped(m) /\ \E c \in ToSet(s) : m.answers = c.id
      /\ \A c \in ToSet(s) : \E m \in ToSet(r) : m.role = "tool" /\ m.answers = c.id
  BY ResultsTyped, Zenon
<1>2. /\ IsList(u)
      /\ \A m \in ToSet(u) : MessageTyped(m) /\ \E c \in ToSet(t) : m.answers = c.id
      /\ \A c \in ToSet(t) : \E m \in ToSet(u) : m.role = "tool" /\ m.answers = c.id
  BY ResultsTyped, Zenon
<1>3. /\ Conversation(one)
      /\ ToSet(one) = ToSet(ms) \cup {a}
  <2>1. IsList(<<a>>) /\ ToSet(<<a>>) = {a}
    BY ShortLists, Zenon
  <2>2. \A m \in ToSet(<<a>>) : MessageTyped(m) /\ m.role # "tool"
    BY <2>1
  <2>3. Conversation(one) /\ ToSet(one) = ToSet(ms) \cup ToSet(<<a>>)
    BY <2>1, <2>2, Extended
  <2>. QED  BY <2>1, <2>3
<1>. HIDE DEF one
<1>4. Conversation(all) /\ ToSet(all) = ToSet(one) \cup ToSet(r)
  <2>1. \A m \in ToSet(r) : MessageTyped(m) /\ \E x \in ToSet(one) : Makes(x, m.answers)
    BY <1>1, <1>3 DEF Makes
  <2>. QED  BY <1>1, <1>3, <2>1, Extended
<1>. HIDE DEF all
<1>5. Conversation(both) /\ ToSet(both) = ToSet(all) \cup ToSet(u)
  <2>1. \A m \in ToSet(u) : MessageTyped(m) /\ \E x \in ToSet(all) : Makes(x, m.answers)
    BY <1>2, <1>3, <1>4 DEF Makes
  <2>. QED  BY <1>2, <1>4, <2>1, Extended
<1>. HIDE DEF both
<1>6. AllAnswered(ToSet(s) \cup ToSet(t), both)
  BY <1>1, <1>2, <1>4, <1>5 DEF AllAnswered
<1>. QED  BY <1>3, <1>4, <1>5, <1>6, Zenon DEF one, all, both

\* What is sent for a conversation.
LEMMA SentAnswered ==
  ASSUME NEW p, NEW ms, Conversation(ms)
  PROVE  LET r == TranslateRequest(p, ms)
         IN  r.format \in {"openai", "bedrock"} => Answered(r.turns)
<1>. DEFINE r == TranslateRequest(p, ms)
<1>1. \/ p = "anthropic" /\ \E n, t : r = Request(p, n, t)
      \/ p = "gemini" /\ \E n, t : r = Request(p, n, t)
      \/ p = "bedrock" /\ \E n : r = Request(p, n, BedrockTurns(ms))
      \/ \E n : r = Request("openai", n, OpenAITurns(ms))
  BY Zenon DEF TranslateRequest
<1>. HIDE DEF r
<1>2. \A f, n, t : Request(f, n, t).format = f /\ Request(f, n, t).turns = t
  BY DEF Request
<1>3. r.format \in {"openai", "bedrock"} => Answered(r.turns)
  BY <1>1, <1>2, BedrockAnswered, OpenAIAnswered
<1>. QED  BY <1>3, Zenon DEF r

\* Nothing is a conversation, a stream, and an answer, too.
LEMMA NothingTyped ==
  /\ Conversation(<<>>) /\ Answered(<<>>)
  /\ IsList(NoAnswer.texts) /\ AreCalls(NoAnswer.calls)
  /\ AccTyped(Empty) /\ EventsTyped(<<>>)
<1>1. IsList(<<>>) /\ ToSet(<<>>) = {} /\ Len(<<>>) = 0
  BY ShortLists
<1>2. NoAnswer.texts = <<>> /\ NoAnswer.calls = <<>>
  BY DEF NoAnswer, Answer
<1>3. Conversation(<<>>) /\ Answered(<<>>)
  BY <1>1 DEF Conversation, Answered
<1>4. AreCalls(<<>>) /\ EventsTyped(<<>>)
  BY <1>1, Zenon DEF AreCalls, EventsTyped
<1>5. AccTyped(Empty)
  BY <1>1 DEF AccTyped, Empty
<1>. QED  BY <1>1, <1>2, <1>3, <1>4, <1>5

\* It holds when the client opens the conversation.
LEMMA LoopInit == Init => LoopInv
<1>. SUFFICES ASSUME Init PROVE LoopInv
  OBVIOUS
<1>1. Conversation(conv) /\ body = <<>>
  BY ToolLoopAssumption DEF Init
<1>2. ResultsAnswerCalls
  <2>1. request.turns = <<>> /\ stage = "client"
    BY DEF Init, NoRequest, Request
  <2>. QED  BY <2>1, NothingTyped DEF ResultsAnswerCalls
<1>3. AnswerInv
  <2>1. answer = NoAnswer /\ stage = "client" /\ IsList(NoAnswer.calls)
    BY NothingTyped DEF Init, AreCalls
  <2>. QED  BY <2>1, NothingTyped DEF AnswerInv
<1>4. StreamInv
  <2>1. acc = Empty /\ events = <<>>
    BY DEF Init
  <2>. QED  BY <2>1, NothingTyped DEF StreamInv
<1>. QED  BY <1>1, <1>2, <1>3, <1>4, NothingTyped DEF LoopInv

\* What the provider answers has a list of blocks.
LEMMA NativeTyped ==
  ASSUME NEW kinds \in Answers
  PROVE  /\ IsList(Native(kinds))
         /\ \A b \in ToSet(Native(kinds)) : b = Block(b.kind, b.id, b.tool)
<1>. DEFINE f == Native(kinds)
<1>1. DOMAIN kinds = 1..Len(kinds) /\ Len(kinds) \in Nat
  BY ToolLoopAssumption
<1>2. f = [i \in 1..Len(kinds) |-> f[i]]
  BY <1>1 DEF Native
<1>3. \A i \in 1..Len(kinds) : f[i] = Block(f[i].kind, f[i].id, f[i].tool)
  BY <1>1 DEF Native, Block
<1>. HIDE DEF f
<1>4. IsList(f) /\ Len(f) = Len(kinds)
  BY <1>1, <1>2, FunctionList
<1>5. \A b \in ToSet(f) : b = Block(b.kind, b.id, b.tool)
  BY <1>3, <1>4, ListIs
<1>. QED  BY <1>4, <1>5 DEF f

\* The actions that leave messages and requests alone, but for Reply.
QuietVars == <<conv, setting, body, request>>

\* They keep the invariant, if they keep its parts on the answer and the stream.
LEMMA QuietKeeps ==
  ASSUME LoopInv, UNCHANGED QuietVars, stage' # "asked again", AnswerInv', StreamInv'
  PROVE  LoopInv'
<1>1. Conversation(conv)' /\ Conversation(body)'
  BY DEF LoopInv, QuietVars
<1>2. ResultsAnswerCalls'
  BY DEF LoopInv, QuietVars, ResultsAnswerCalls
<1>. QED  BY <1>1, <1>2 DEF LoopInv

\* The request that is sent is the translated conversation.
LEMMA AskKeeps ==
  ASSUME LoopInv, Ask
  PROVE  LoopInv'
<1>1. Conversation(conv)' /\ Conversation(body)'
  BY DEF LoopInv, Ask
<1>2. ResultsAnswerCalls'
  <2>1. LET r == TranslateRequest(Provider, conv)
        IN  r.format \in {"openai", "bedrock"} => Answered(r.turns)
    BY SentAnswered DEF LoopInv
  <2>2. request' = TranslateRequest(Provider, conv) /\ stage' = "asked"
    BY DEF Ask
  <2>. QED  BY <2>1, <2>2 DEF ResultsAnswerCalls
<1>3. AnswerInv'
  <2>1. answer' = NoAnswer /\ stage' = "asked" /\ IsList(NoAnswer.calls)
    BY NothingTyped DEF Ask, AreCalls
  <2>. QED  BY <2>1, NothingTyped DEF AnswerInv
<1>4. StreamInv'
  BY DEF LoopInv, StreamInv, Ask, EventsTyped, EventTyped, Provider
<1>. QED  BY <1>1, <1>2, <1>3, <1>4 DEF LoopInv

\* The answer that arrives whole is a translated one.
LEMMA RespondKeeps ==
  ASSUME LoopInv, Respond
  PROVE  LoopInv'
<1>1. PICK kinds \in Answers : \E stop \in Reasons(kinds) :
         answer' = TranslateResponse(Provider, [blocks |-> Native(kinds), stop |-> stop])
  BY DEF Respond
<1>2. PICK stop : answer' = TranslateResponse(Provider, [blocks |-> Native(kinds), stop |-> stop])
  BY <1>1
<1>3. IsList(answer'.texts) /\ AreCalls(answer'.calls)
  <2>. DEFINE a == [blocks |-> Native(kinds), stop |-> stop]
  <2>1. a.blocks = Native(kinds)
    OBVIOUS
  <2>2. IsList(a.blocks) /\ \A b \in ToSet(a.blocks) : b = Block(b.kind, b.id, b.tool)
    BY <2>1, NativeTyped
  <2>. HIDE DEF a
  <2>3. LET r == TranslateResponse(Provider, a) IN IsList(r.texts) /\ AreCalls(r.calls)
    BY <2>2, ResponseTyped
  <2>. QED  BY <1>2, <2>3, Zenon DEF a
<1>4. AnswerInv'
  BY <1>3 DEF AnswerInv, AreCalls, Respond
<1>5. StreamInv'
  BY DEF LoopInv, StreamInv, Respond, EventsTyped, EventTyped, Provider
<1>6. UNCHANGED QuietVars /\ stage' = "looping"
  BY DEF Respond, QuietVars
<1>. QED  BY <1>4, <1>5, <1>6, QuietKeeps

\* Nothing, or the answer there was, is handed to the client.
LEMMA FailOrLeaveKeeps ==
  ASSUME LoopInv, Fail \/ Leave
  PROVE  LoopInv'
<1>1. UNCHANGED <<QuietVars, acc, events>> /\ stage' = "replied" /\ answer' \in {NoAnswer, answer}
  BY DEF Fail, Leave, QuietVars
<1>2. AnswerInv'
  BY <1>1, NothingTyped DEF LoopInv, AnswerInv, AreCalls, QuietVars
<1>3. StreamInv'
  BY <1>1 DEF LoopInv, StreamInv, EventsTyped, EventTyped, Provider, QuietVars
<1>. QED  BY <1>1, <1>2, <1>3, QuietKeeps DEF QuietVars

\* The events of a stream arrive one by one and are accumulated.
LEMMA StreamingKeeps ==
  ASSUME LoopInv, Stream \/ Chunk \/ StreamEnds
  PROVE  LoopInv'
<1>1. UNCHANGED QuietVars /\ Provider' = Provider
  BY DEF Stream, Chunk, StreamEnds, QuietVars, Provider
<1>2. CASE Stream
  <2>1. PICK kinds \in Answers : \E stop \in Reasons(kinds) :
           events' = Events(Provider, [blocks |-> Native(kinds), stop |-> stop])
    BY <1>2 DEF Stream
  <2>2. PICK stop : events' = Events(Provider, [blocks |-> Native(kinds), stop |-> stop])
    BY <2>1
  <2>3. EventsTyped(events')
    <3>. DEFINE a == [blocks |-> Native(kinds), stop |-> stop]
    <3>1. IsList(a.blocks)
      BY NativeTyped
    <3>. HIDE DEF a
    <3>. QED  BY <2>2, <3>1, EventsMade, Zenon DEF a
  <2>4. StreamInv'
    <3>1. acc' = Empty
      BY <1>2 DEF Stream
    <3>. QED  BY <1>1, <2>3, <3>1, NothingTyped DEF StreamInv, EventsTyped, EventTyped
  <2>5. AnswerInv' /\ stage' = "streaming"
    BY <1>2 DEF LoopInv, AnswerInv, Stream
  <2>. QED  BY <1>1, <2>4, <2>5, QuietKeeps
<1>3. CASE Chunk
  <2>1. PICK n \in 1..Len(events) :
           /\ acc' = PushAll(acc, TranslateChunk(Provider, SubSeq(events, 1, n)))
           /\ events' = SubSeq(events, n + 1, Len(events))
    BY <1>3 DEF Chunk
  <2>2. EventsTyped(SubSeq(events, 1, n)) /\ EventsTyped(SubSeq(events, n + 1, Len(events)))
    <3>1. /\ events \in Seq(ToSet(events)) /\ Len(events) \in Nat
          /\ \A e \in ToSet(events) : EventTyped(e)
      BY DEF LoopInv, StreamInv, EventsTyped, IsList
    <3>2. /\ SubSeq(events, 1, n) \in Seq(ToSet(events))
          /\ SubSeq(events, n + 1, Len(events)) \in Seq(ToSet(events))
      BY <3>1
    <3>3. /\ IsList(SubSeq(events, 1, n)) /\ ToSet(SubSeq(events, 1, n)) \subseteq ToSet(events)
          /\ IsList(SubSeq(events, n + 1, Len(events)))
          /\ ToSet(SubSeq(events, n + 1, Len(events))) \subseteq ToSet(events)
      BY <3>2, ListIs
    <3>. QED  BY <3>1, <3>3 DEF EventsTyped
  <2>3. AccTyped(acc')
    BY <2>1, <2>2, ChunkMade, PushAllKeeps DEF LoopInv, StreamInv
  <2>4. StreamInv'
    BY <1>1, <2>1, <2>2, <2>3 DEF StreamInv, EventsTyped, EventTyped
  <2>5. AnswerInv' /\ stage' # "asked again"
    BY <1>3 DEF LoopInv, AnswerInv, Chunk
  <2>. QED  BY <1>1, <2>4, <2>5, QuietKeeps
<1>4. CASE StreamEnds
  <2>1. answer' = Finish(acc) /\ stage' = "replied" /\ UNCHANGED <<setting, acc, events>>
    BY <1>4 DEF StreamEnds
  <2>2. IsList(answer'.texts) /\ IsList(answer'.calls)
    <3>1. IsList(acc.texts) /\ IsList(acc.calls)
      BY DEF LoopInv, StreamInv, AccTyped
    <3>2. answer'.texts = acc.texts
          /\ answer'.calls = Only(acc.calls, {c \in ToSet(acc.calls) : c.names # <<>>})
      BY <2>1 DEF Finish, Answer
    <3>. QED  BY <3>1, <3>2, OnlyThose
  <2>3. AnswerInv'
    BY <1>4, <2>1, <2>2 DEF LoopInv, AnswerInv, StreamEnds
  <2>4. StreamInv'
    BY <1>1, <2>1 DEF LoopInv, StreamInv, EventsTyped, EventTyped
  <2>. QED  BY <1>1, <2>1, <2>3, <2>4, QuietKeeps
<1>. QED  BY <1>2, <1>3, <1>4

\* The texts of an answer, as parts of a message.
LEMMA TextsTyped ==
  ASSUME IsList(answer.texts)
  PROVE  IsList(Texts) /\ ToSet(Texts) \subseteq {"text"}
<1>1. DOMAIN answer.texts = 1..Len(answer.texts) /\ Len(answer.texts) \in Nat
  BY ListIs
<1>2. Texts = [i \in 1..Len(answer.texts) |-> Texts[i]]
      /\ \A i \in 1..Len(answer.texts) : Texts[i] = "text"
  BY <1>1 DEF Texts
<1>3. IsList(Texts) /\ Len(Texts) = Len(answer.texts)
  BY <1>1, <1>2, FunctionList
<1>. QED  BY <1>2, <1>3, ListIs

\* The loop adds the assistant's message and a result for each call of an MCP
\* tool, run or denied, and asks again.
LEMMA ContinueKeeps ==
  ASSUME LoopInv, Continue
  PROVE  LoopInv'
<1>. DEFINE a == AssistantMessage
            r == [i \in DOMAIN CallsPermitted |-> Result(CallsPermitted[i])]
            u == [i \in DOMAIN CallsDenied |-> Result(CallsDenied[i])]
<1>1. stage = "looping" /\ ~setting.streaming /\ IsList(answer.texts) /\ AreCalls(answer.calls)
  BY DEF LoopInv, AnswerInv, Continue
<1>2. MessageTyped(a) /\ a.role = "assistant" /\ a.calls = answer.calls
  <2>1. a.role = "assistant" /\ a.calls = answer.calls /\ a.parts = Texts
    BY DEF AssistantMessage, Message
  <2>2. IsList(Texts) /\ ToSet(Texts) \subseteq {"text"}
    BY <1>1, TextsTyped
  <2>. QED  BY <1>1, <2>1, <2>2 DEF MessageTyped
<1>3. /\ IsList(CallsPermitted) /\ IsList(CallsDenied)
      /\ ToSet(CallsPermitted) \subseteq ToSet(answer.calls)
      /\ ToSet(CallsDenied) \subseteq ToSet(answer.calls)
      /\ McpCalls \subseteq ToSet(CallsPermitted) \cup ToSet(CallsDenied)
  <2>1. IsList(answer.calls)
    BY <1>1 DEF AreCalls
  <2>2. /\ IsList(CallsPermitted) /\ IsList(CallsDenied)
        /\ ToSet(CallsPermitted) = ToSet(answer.calls) \cap {c \in McpCalls : Permitted(c.tool)}
        /\ ToSet(CallsDenied) = ToSet(answer.calls) \cap {c \in McpCalls : ~Permitted(c.tool)}
    BY <2>1, OnlyThose, Zenon DEF CallsPermitted, CallsDenied
  <2>3. McpCalls \subseteq ToSet(answer.calls)
    BY Zenon DEF McpCalls
  <2>. QED  BY <2>2, <2>3, Zenon
<1>. HIDE DEF a, r, u
<1>4. /\ Conversation(body \o <<a>> \o r \o u)
      /\ AllAnswered(ToSet(CallsPermitted) \cup ToSet(CallsDenied), body \o <<a>> \o r \o u)
  <2>1. /\ \A c \in ToSet(CallsPermitted) : \E d \in ToSet(a.calls) : c.id = d.id
        /\ \A c \in ToSet(CallsDenied) : \E d \in ToSet(a.calls) : c.id = d.id
    BY <1>2, <1>3
  <2>2. Conversation(body)
    BY DEF LoopInv
  <2>3. MessageTyped(a) /\ a.role = "assistant" /\ IsList(CallsPermitted) /\ IsList(CallsDenied)
    BY <1>2, <1>3
  <2>4. /\ r = [i \in DOMAIN CallsPermitted |-> Result(CallsPermitted[i])]
        /\ u = [i \in DOMAIN CallsDenied |-> Result(CallsDenied[i])]
    BY DEF r, u
  <2>. QED  BY <2>1, <2>2, <2>3, <2>4, AnswerAdded
<1>5. /\ body' = body \o <<a>> \o r \o u
      /\ request' = Request("openai", Len(SelectSeq(body', System)), OpenAITurns(body'))
      /\ stage' = "asked again"
      /\ UNCHANGED <<conv, setting, answer, events, acc>>
  BY Zenon DEF Continue, a, r, u
<1>6. Conversation(conv)' /\ Conversation(body)'
  BY <1>4, <1>5 DEF LoopInv
<1>7. ResultsAnswerCalls'
  <2>1. request'.turns = OpenAITurns(body')
    BY <1>5 DEF Request
  <2>2. Answered(request'.turns)
    BY <1>6, <2>1, OpenAIAnswered
  <2>3. McpCalls' = McpCalls
    BY <1>5 DEF McpCalls, IsMcp
  <2>4. AllAnswered(McpCalls', body')
    BY <1>3, <1>4, <1>5, <2>3 DEF AllAnswered
  <2>. QED  BY <2>2, <2>4, Zenon DEF ResultsAnswerCalls
<1>8. AnswerInv'
  BY <1>1, <1>5 DEF LoopInv, AnswerInv
<1>9. StreamInv'
  BY <1>5 DEF LoopInv, StreamInv, EventsTyped, EventTyped, Provider
<1>. QED  BY <1>6, <1>7, <1>8, <1>9 DEF LoopInv

\* The client adds the answer, as it sees it, and goes on.
LEMMA ReplyKeeps ==
  ASSUME LoopInv, Reply
  PROVE  LoopInv'
<1>. DEFINE calls == [i \in DOMAIN answer.calls |-> Called(answer.calls[i])]
            form  == IF answer.texts = <<>> THEN "absent" ELSE "string"
            a == Message("assistant", form, Texts, calls, None, None)
            next == Message("user", "string", <<"text">>, <<>>, None, None)
            r == [i \in DOMAIN calls |-> Result(calls[i])]
<1>1. \/ conv' = conv
      \/ conv' = conv \o <<a>> \o <<next>>
      \/ conv' = conv \o <<a>> \o r
  BY Zenon DEF Reply
<1>2. AreCalls(calls)
  <2>1. /\ DOMAIN answer.calls = 1..Len(answer.calls) /\ Len(answer.calls) \in Nat
        /\ \A i \in 1..Len(answer.calls) : answer.calls[i] \in ToSet(answer.calls)
    BY ListIs DEF LoopInv, AnswerInv
  <2>2. \A c \in ToSet(answer.calls) : Called(c).kind = "call"
    BY DEF LoopInv, AnswerInv, AreCalls, Called, Block
  <2>3. calls = [i \in 1..Len(answer.calls) |-> calls[i]]
    BY <2>1
  <2>4. \A i \in 1..Len(answer.calls) : calls[i].kind = "call"
    BY <2>1, <2>2
  <2>. HIDE DEF calls
  <2>5. IsList(calls) /\ Len(calls) = Len(answer.calls)
    BY <2>1, <2>3, FunctionList
  <2>6. \A c \in ToSet(calls) : \E i \in 1..Len(answer.calls) : calls[i] = c
    BY <2>5, ListIs
  <2>7. \A c \in ToSet(calls) : c.kind = "call"
    BY <2>4, <2>6
  <2>. QED  BY <2>5, <2>7 DEF AreCalls
<1>. HIDE DEF calls
<1>3. MessageTyped(a) /\ a.role = "assistant" /\ a.calls = calls
  <2>1. a.role = "assistant" /\ a.calls = calls /\ a.parts = Texts
    BY DEF Message
  <2>2. IsList(Texts) /\ ToSet(Texts) \subseteq {"text"}
    BY TextsTyped DEF LoopInv, AnswerInv
  <2>. QED  BY <1>2, <2>1, <2>2 DEF MessageTyped
<1>4. MessageTyped(next) /\ next.role = "user"
  <2>1. /\ next.role = "user" /\ next.parts = <<"text">> /\ next.calls = <<>>
    BY DEF Message
  <2>2. /\ IsList(<<"text">>) /\ ToSet(<<"text">>) = {"text"}
        /\ IsList(<<>>) /\ ToSet(<<>>) = {}
    BY ShortLists, Zenon
  <2>. QED  BY <2>1, <2>2 DEF MessageTyped, AreCalls
<1>. HIDE DEF a, next
<1>5. IsList(calls) /\ IsList(<<>>) /\ ToSet(<<>>) = {}
  BY <1>2, ShortLists, Zenon DEF AreCalls
<1>6. Conversation(conv)
  BY DEF LoopInv
<1>7. Conversation(conv \o <<a>>) /\ Conversation(conv \o <<a>> \o r)
  <2>1. \A c \in ToSet(calls) : \E d \in ToSet(a.calls) : c.id = d.id
    BY <1>3
  <2>2. r = [i \in DOMAIN calls |-> Result(calls[i])]
    OBVIOUS
  <2>. HIDE DEF r
  <2>. QED  BY <1>3, <1>5, <1>6, <2>1, <2>2, AnswerAdded, Zenon
<1>8. Conversation(conv \o <<a>> \o <<next>>)
  <2>1. IsList(<<next>>) /\ ToSet(<<next>>) = {next}
    BY ShortLists, Zenon
  <2>2. \A m \in ToSet(<<next>>) : MessageTyped(m) /\ m.role # "tool"
    BY <1>4, <2>1
  <2>. QED  BY <1>7, <2>1, <2>2, Extended
<1>9. Conversation(conv')
  BY <1>1, <1>6, <1>7, <1>8, Zenon
<1>10. /\ request' = NoRequest /\ body' = <<>> /\ answer' = NoAnswer /\ acc' = Empty
       /\ UNCHANGED <<setting, events>> /\ stage' \in {"over", "client"}
  BY DEF Reply
<1>11. ResultsAnswerCalls'
  <2>1. request'.turns = <<>>
    BY <1>10 DEF NoRequest, Request
  <2>. QED  BY <1>10, <2>1, NothingTyped DEF ResultsAnswerCalls
<1>12. AnswerInv'
  BY <1>10, NothingTyped DEF AnswerInv, AreCalls
<1>13. StreamInv'
  BY <1>10, NothingTyped DEF LoopInv, StreamInv, EventsTyped, EventTyped, Provider
<1>14. Conversation(conv)' /\ Conversation(body)'
  BY <1>9, <1>10, NothingTyped
<1>. QED  BY <1>11, <1>12, <1>13, <1>14 DEF LoopInv

\* What the loop sends and takes stays a conversation, at every step.
LEMMA LoopInvariant == Spec => []LoopInv
<1>1. ASSUME LoopInv, [Next]_vars PROVE LoopInv'
  <2>1. CASE Ask
    BY <1>1, <2>1, AskKeeps
  <2>2. CASE Respond
    BY <1>1, <2>2, RespondKeeps
  <2>3. CASE Fail \/ Leave
    BY <1>1, <2>3, FailOrLeaveKeeps
  <2>4. CASE Continue
    BY <1>1, <2>4, ContinueKeeps
  <2>5. CASE Stream \/ Chunk \/ StreamEnds
    BY <1>1, <2>5, StreamingKeeps
  <2>6. CASE Reply
    BY <1>1, <2>6, ReplyKeeps
  <2>7. CASE UNCHANGED vars
    <3>1. Conversation(conv)' /\ Conversation(body)'
      BY <1>1, <2>7 DEF LoopInv, vars
    <3>2. ResultsAnswerCalls'
      BY <1>1, <2>7 DEF LoopInv, vars, ResultsAnswerCalls, McpCalls, IsMcp
    <3>3. AnswerInv' /\ StreamInv'
      BY <1>1, <2>7 DEF LoopInv, vars, AnswerInv, StreamInv, EventsTyped, EventTyped, Provider
    <3>. QED  BY <3>1, <3>2, <3>3 DEF LoopInv
  <2>. QED  BY <1>1, <2>1, <2>2, <2>3, <2>4, <2>5, <2>6, <2>7 DEF Next
<1>. QED  BY <1>1, LoopInit, PTL DEF Spec

\* A conversation stays one, and what is sent to a provider that speaks of
\* calls by id has a call for each result and, in the loop, a result for each
\* call that was taken up: for any tools, token's lists, models and answers,
\* however the answer came.
THEOREM ResultsHaveCalls == Spec => []ResultsAnswerCalls
<1>1. LoopInv => ResultsAnswerCalls
  BY DEF LoopInv
<1>. QED  BY <1>1, LoopInvariant, PTL

\* No tool that the token's lists exclude is run, in any round of the loop.
THEOREM ExcludedNeverRun == Spec => []BlockedNeverRuns
<1>1. Init => BlockedNeverRuns
  BY DEF Init, BlockedNeverRuns
<1>2. ASSUME LoopInv, BlockedNeverRuns, [Next]_vars PROVE BlockedNeverRuns'
  <2>1. CASE Continue
    <3>1. IsList(answer.calls)
      BY <1>2 DEF LoopInv, AnswerInv
    <3>2. ToSet(CallsPermitted) \subseteq {c \in McpCalls : Permitted(c.tool)}
      BY <3>1, OnlyThose, Zenon DEF CallsPermitted
    <3>3. ran' = ran \cup {c.tool : c \in ToSet(CallsPermitted)} /\ setting' = setting
      BY <2>1 DEF Continue
    <3>4. \A t : Permitted(t) => ~Blocks(t)
      BY Zenon DEF Permitted, IsToolPermitted, Blocks
    <3>5. \A t \in ran' : ~Blocks(t)
      BY <1>2, <3>2, <3>3, <3>4, Zenon DEF BlockedNeverRuns
    <3>6. \A t : Blocks(t)' <=> Blocks(t)
      BY <3>3, Zenon DEF Blocks
    <3>. QED  BY <3>5, <3>6 DEF BlockedNeverRuns
  <2>2. CASE ~Continue
    <3>1. ran' \subseteq ran /\ setting' = setting
      BY <1>2, <2>2 DEF Next, vars, Ask, Respond, Fail, Leave, Stream, Chunk, StreamEnds, Reply
    <3>2. \A t : Blocks(t)' <=> Blocks(t)
      BY <3>1, Zenon DEF Blocks
    <3>. QED  BY <1>2, <3>1, <3>2 DEF BlockedNeverRuns
  <2>. QED  BY <2>1, <2>2
<1>. QED  BY <1>1, <1>2, LoopInvariant, PTL DEF Spec

-----------------------------------------------------------------------------
\* StreamAgrees: a stream that came half is such that the events to come make
\* of the accumulator what the whole answer says.

\* While a stream is on its way, a part of it has come, in so many chunks, and
\* was accumulated; of Gemini's only what came in the first.
Came(past, all) ==
    /\ EventsTyped(past) /\ pieces \in Nat
    /\ past \o events = all
    /\ pieces = 0 => past = <<>> /\ acc = Empty
    /\ pieces # 0 => past # <<>>
    /\ (Provider = "gemini" => pieces = 1) => acc = PushAll(Empty, TranslateChunk(Provider, past))

\* Of a stream that is under way or came to its end.
HalfwayInv ==
    /\ stage = "streaming" => Streamable(native) /\ \E past : Came(past, Events(Provider, native))
    /\ StreamAgrees

\* No events are translated to nothing, unless for Gemini.
LEMMA ChunkOfNone ==
  ASSUME Provider # "gemini"
  PROVE  TranslateChunk(Provider, <<>>) = <<>>
<1>1. [i \in DOMAIN <<>> |-> MessageDeltas(Provider, <<>>[i])] = <<>>
  <2>1. \A d : [i \in {} |-> d[i]] = <<>>
    OBVIOUS
  <2>2. DOMAIN <<>> = {}
    OBVIOUS
  <2>. QED  BY <2>1, <2>2
<1>2. FlattenSeq(<<>>) = <<>>
  BY ShortLists DEF FlattenSeq
<1>. QED  BY <1>1, <1>2, Zenon DEF TranslateChunk

\* The first events, and the others.
LEMMA Cut ==
  ASSUME NEW s, IsList(s), NEW n \in 1..Len(s)
  PROVE  LET x == SubSeq(s, 1, n)
             y == SubSeq(s, n + 1, Len(s))
         IN  /\ IsList(x) /\ ToSet(x) \subseteq ToSet(s) /\ Len(x) = n
             /\ IsList(y) /\ ToSet(y) \subseteq ToSet(s)
             /\ s = x \o y
<1>. DEFINE x == SubSeq(s, 1, n)
            y == SubSeq(s, n + 1, Len(s))
            E == ToSet(s)
<1>1. s \in Seq(E) /\ Len(s) \in Nat
  BY DEF IsList
<1>. HIDE DEF E
<1>2. x \in Seq(E) /\ y \in Seq(E) /\ Len(x) = n /\ Len(y) = Len(s) - n
  BY <1>1
<1>3. /\ \A i \in 1..n : x[i] = s[i]
      /\ \A i \in 1..Len(s) - n : y[i] = s[n + i]
  BY <1>1
<1>4. /\ IsList(x) /\ ToSet(x) \subseteq E
      /\ IsList(y) /\ ToSet(y) \subseteq E
  <2>. HIDE DEF x, y
  <2>. QED  BY <1>2, ListIs
<1>. HIDE DEF x, y
<1>5. s = x \o y
  <2>. DEFINE z == x \o y
  <2>1. /\ IsList(z) /\ Len(z) = Len(s)
        /\ \A i \in 1..n : z[i] = x[i]
        /\ \A i \in 1..Len(s) - n : z[n + i] = y[i]
    <3>1. /\ IsList(z) /\ Len(z) = Len(x) + Len(y)
          /\ \A i \in 1..Len(x) : z[i] = x[i]
          /\ \A i \in 1..Len(y) : z[Len(x) + i] = y[i]
      BY <1>4, Joined
    <3>. HIDE DEF z
    <3>. QED  BY <1>1, <1>2, <3>1
  <2>. HIDE DEF z
  <2>2. z = [i \in 1..Len(s) |-> z[i]] /\ s = [i \in 1..Len(s) |-> s[i]]
    BY <2>1 DEF IsList
  <2>3. ASSUME NEW i \in 1..Len(s) PROVE z[i] = s[i]
    <3>1. CASE i \in 1..n
      BY <1>3, <2>1, <3>1
    <3>2. CASE i \notin 1..n
      <4>1. i - n \in 1..Len(s) - n /\ n + (i - n) = i
        BY <1>1, <3>2
      <4>2. z[i] = y[i - n] /\ y[i - n] = s[i]
        BY <1>3, <2>1, <4>1
      <4>. QED  BY <4>2
    <3>. QED  BY <3>1, <3>2
  <2>4. s = z
    BY <2>2, <2>3
  <2>. QED  BY <2>4 DEF z
<1>. QED  BY <1>2, <1>4, <1>5 DEF x, y, E

\* The stream begins: nothing has come yet.
LEMMA StreamHalfway ==
  ASSUME LoopInv, Stream
  PROVE  HalfwayInv'
<1>0. PICK kinds \in Answers : \E stop \in Reasons(kinds) :
         /\ native' = [blocks |-> Native(kinds), stop |-> stop]
         /\ events' = Events(Provider, [blocks |-> Native(kinds), stop |-> stop])
  BY Zenon DEF Stream, AnswersWith
<1>1. PICK stop \in Reasons(kinds) :
         /\ native' = [blocks |-> Native(kinds), stop |-> stop]
         /\ events' = Events(Provider, [blocks |-> Native(kinds), stop |-> stop])
  BY <1>0
<1>2. /\ stage' = "streaming" /\ pieces' = 0 /\ acc' = Empty /\ setting' = setting
      /\ Provider' = Provider
  BY DEF Stream, Provider
<1>3. events' = Events(Provider, native')
  BY <1>1
<1>4. Streamable(native)'
  <2>1. IsList(Native(kinds)) /\ \A i \in 1..Len(Native(kinds)) : Native(kinds)[i].kind \in {"text", "call"}
    <3>1. IsList(Native(kinds))
      BY NativeTyped
    <3>2. \A i \in DOMAIN Native(kinds) : Native(kinds)[i].kind \in {"text", "call"}
      BY DEF Native, Block
    <3>. QED  BY <3>1, <3>2, ListIs
  <2>2. stop # "guardrail_intervened" /\ (Provider = "gemini" => stop # None)
    BY ToolLoopAssumption DEF Reasons
  <2>3. native'.blocks = Native(kinds) /\ native'.stop = stop
    BY <1>1
  <2>. QED  BY <1>2, <2>1, <2>2, <2>3 DEF Streamable
<1>5. EventsTyped(events') /\ EventsTyped(<<>>) /\ IsList(events')
  <2>1. IsList(native'.blocks)
    BY <1>4 DEF Streamable
  <2>2. EventsTyped(events')
    BY <1>3, <2>1, EventsMade
  <2>. QED  BY <2>2, ShortLists DEF EventsTyped
<1>6. <<>> \o events' = Events(Provider, native')
  <2>. DEFINE es == events'
  <2>1. es \in Seq(ToSet(es))
    BY <1>5 DEF IsList
  <2>. HIDE DEF es
  <2>2. <<>> \o es = es
    BY <2>1
  <2>. QED  BY <1>3, <2>2 DEF es
<1>7. (Provider = "gemini" => FALSE) => Empty = PushAll(Empty, TranslateChunk(Provider, <<>>))
  BY ChunkOfNone, PushShort
<1>8. /\ EventsTyped(<<>>)'
      /\ pieces' \in Nat
      /\ <<>> \o events' = Events(Provider', native')
      /\ (Provider' = "gemini" => pieces' = 1) => acc' = PushAll(Empty, TranslateChunk(Provider', <<>>))
  <2>1. EventsTyped(<<>>)'
    BY ShortLists DEF EventsTyped
  <2>2. <<>> \o events' = Events(Provider', native')
    BY <1>2, <1>6, Zenon
  <2>3. pieces' # 1 /\ pieces' \in Nat
    BY <1>2
  <2>. QED  BY <1>2, <1>7, <2>1, <2>2, <2>3, Zenon
<1>9. Came(<<>>, Events(Provider, native))'
  BY <1>2, <1>8, Zenon DEF Came
<1>10. StreamAgrees'
  BY <1>2 DEF StreamAgrees
<1>. QED  BY <1>4, <1>9, <1>10, Zenon DEF HalfwayInv

\* A chunk comes: what has come is longer.
LEMMA ChunkHalfway ==
  ASSUME LoopInv, HalfwayInv, Chunk
  PROVE  HalfwayInv'
<1>1. PICK n \in 1..Len(events) :
         /\ acc' = PushAll(acc, TranslateChunk(Provider, SubSeq(events, 1, n)))
         /\ events' = SubSeq(events, n + 1, Len(events))
  BY DEF Chunk
<1>2. /\ stage = "streaming" /\ stage' = "streaming" /\ pieces' = pieces + 1
      /\ setting' = setting /\ native' = native /\ Provider' = Provider
  BY DEF Chunk, Provider
<1>3. PICK past : Came(past, Events(Provider, native))
  BY <1>2 DEF HalfwayInv
<1>. DEFINE all == Events(Provider, native)
            x == SubSeq(events, 1, n)
            y == SubSeq(events, n + 1, Len(events))
<1>4. /\ IsList(events) /\ \A e \in ToSet(events) : EventTyped(e)
      /\ IsList(past) /\ EventsTyped(past) /\ past \o events = all /\ pieces \in Nat
  BY <1>3 DEF LoopInv, StreamInv, EventsTyped, Came
<1>5. /\ IsList(x) /\ ToSet(x) \subseteq ToSet(events) /\ Len(x) = n
      /\ IsList(y) /\ events = x \o y
  BY <1>4, Cut
<1>. HIDE DEF x, y, all
<1>0. PICK z : z = past \o x
  OBVIOUS
<1>6. EventsTyped(x) /\ EventsTyped(z) /\ z # <<>>
  <2>1. EventsTyped(x)
    BY <1>4, <1>5 DEF EventsTyped
  <2>2. IsList(z) /\ ToSet(z) = ToSet(past) \cup ToSet(x) /\ Len(z) = Len(past) + n
    BY <1>0, <1>4, <1>5, Joined
  <2>3. EventsTyped(z)
    BY <1>4, <2>1, <2>2 DEF EventsTyped
  <2>4. Len(z) # 0 /\ Len(<<>>) = 0
    BY <1>4, <2>2, ListIs, ShortLists
  <2>. QED  BY <2>1, <2>3, <2>4
<1>7. z \o y = all
  <2>1. past \o (x \o y) = (past \o x) \o y
    BY <1>4, <1>5, Associative
  <2>. DEFINE r == past \o (x \o y)
  <2>2. r = z \o y /\ r = all
    BY <1>0, <1>4, <1>5, <2>1
  <2>. HIDE DEF r
  <2>. QED  BY <2>2
<1>8. (Provider = "gemini" => pieces + 1 = 1)
        => PushAll(acc, TranslateChunk(Provider, x)) = PushAll(Empty, TranslateChunk(Provider, z))
  <2>1. CASE Provider # "gemini"
    <3>. DEFINE s == TranslateChunk(Provider, past)
                t == TranslateChunk(Provider, x)
    <3>1. acc = PushAll(Empty, s)
      BY <1>3, <2>1 DEF Came
    <3>2. IsList(s) /\ IsList(t)
      BY <1>4, <1>6, ChunkMade DEF DeltasTyped
    <3>3. TranslateChunk(Provider, z) = s \o t
      BY <1>0, <1>4, <1>6, <2>1, ChunkJoined, Zenon
    <3>. HIDE DEF s, t
    <3>4. PushAll(Empty, s \o t) = PushAll(PushAll(Empty, s), t)
      BY <3>2, PushJoined
    <3>5. PushAll(Empty, TranslateChunk(Provider, z)) = PushAll(PushAll(Empty, s), t)
      BY <3>3, <3>4
    <3>. QED  BY <3>1, <3>5, Zenon DEF t
  <2>2. CASE pieces + 1 = 1
    <3>1. pieces = 0
      BY <1>4, <2>2
    <3>2. past = <<>> /\ acc = Empty
      BY <1>3, <3>1 DEF Came
    <3>3. z = x
      <4>1. x \in Seq(ToSet(x))
        BY <1>5 DEF IsList
      <4>2. <<>> \o x = x
        BY <4>1
      <4>. QED  BY <1>0, <3>2, <4>2
    <3>. QED  BY <3>2, <3>3
  <2>. QED  BY <2>1, <2>2
<1>9. /\ EventsTyped(z)' /\ pieces' \in Nat /\ pieces' # 0 /\ z # <<>>
      /\ z \o events' = Events(Provider', native')
      /\ (Provider' = "gemini" => pieces' = 1) => acc' = PushAll(Empty, TranslateChunk(Provider', z))
  <2>1. EventsTyped(z)'
    BY <1>2, <1>6, Zenon DEF EventsTyped, EventTyped
  <2>2. z \o events' = Events(Provider', native')
    <3>1. events' = y /\ all = Events(Provider', native')
      BY <1>1, <1>2, Zenon DEF y, all
    <3>. QED  BY <1>7, <3>1
  <2>3. acc' = PushAll(acc, TranslateChunk(Provider, x))
    BY <1>1 DEF x
  <2>4. pieces' \in Nat /\ pieces' # 0
    BY <1>2, <1>4
  <2>5. (Provider' = "gemini" => pieces' = 1) => acc' = PushAll(Empty, TranslateChunk(Provider', z))
    BY <1>2, <1>8, <2>3, Zenon
  <2>. QED  BY <1>6, <2>1, <2>2, <2>4, <2>5, Zenon
<1>10. Came(z, Events(Provider, native))'
  BY <1>9, Zenon DEF Came
<1>11. Streamable(native)'
  BY <1>2 DEF HalfwayInv, Streamable
<1>12. StreamAgrees'
  BY <1>2 DEF StreamAgrees
<1>. QED  BY <1>10, <1>11, <1>12, Zenon DEF HalfwayInv

\* The stream ends: all has come.
LEMMA EndAgrees ==
  ASSUME LoopInv, HalfwayInv, StreamEnds
  PROVE  HalfwayInv'
<1>1. /\ stage = "streaming" /\ stage' = "replied" /\ events = <<>> /\ answer' = Finish(acc)
      /\ UNCHANGED <<setting, native, pieces>> /\ Provider' = Provider
  BY DEF StreamEnds, Provider
<1>2. PICK past : Came(past, Events(Provider, native))
  BY <1>1 DEF HalfwayInv
<1>3. Streamable(native)
  BY <1>1 DEF HalfwayInv
<1>4. past = Events(Provider, native)
  <2>1. past \in Seq(ToSet(past)) /\ past \o <<>> = Events(Provider, native)
    BY <1>1, <1>2 DEF Came, EventsTyped, IsList
  <2>2. past \o <<>> = past
    BY <2>1
  <2>. QED  BY <2>1, <2>2
<1>5. ASSUME Provider = "gemini" => pieces = 1
      PROVE  Agrees(answer', native)
  <2>1. acc = PushAll(Empty, TranslateChunk(Provider, Events(Provider, native)))
    BY <1>2, <1>4, <1>5 DEF Came
  <2>2. ASSUME Provider = "gemini" PROVE Len(native.blocks) # 0
    <3>1. past # <<>>
      BY <1>2, <1>5, <2>2 DEF Came
    <3>. DEFINE n == Len(native.blocks)
                event(i) == Event("part", 0, native.blocks[i], IF i = n THEN native.stop ELSE None)
    <3>2. Events(Provider, native) = [i \in DOMAIN native.blocks |-> event(i)]
      BY <2>2, Zenon DEF Events
    <3>3. DOMAIN native.blocks = 1..n
      BY <1>3, ListIs DEF Streamable
    <3>. HIDE DEF event
    <3>4. n = 0 => [i \in DOMAIN native.blocks |-> event(i)] = <<>>
      BY <3>3
    <3>. QED  BY <1>4, <3>1, <3>2, <3>4
  <2>3. Agrees(Finish(PushAll(Empty, TranslateChunk(Provider, Events(Provider, native)))), native)
    BY <1>3, <2>2, WholeAgrees, Zenon
  <2>. QED  BY <1>1, <2>1, <2>3, Zenon
<1>6. StreamAgrees'
  <2>1. ASSUME Provider' = "gemini" => pieces' = 1
        PROVE  Agrees(answer, native)'
    <3>1. Agrees(answer', native)
      BY <1>1, <1>5, <2>1
    <3>. QED  BY <1>1, <3>1, Zenon DEF Agrees
  <2>. QED  BY <2>1, Zenon DEF StreamAgrees, Agrees
<1>. QED  BY <1>1, <1>6 DEF HalfwayInv

\* Streams say what the answers say, at every step.
LEMMA HalfwayKeeps ==
  ASSUME LoopInv, HalfwayInv, [Next]_vars
  PROVE  HalfwayInv'
<1>1. CASE Stream
  BY <1>1, StreamHalfway
<1>2. CASE Chunk
  BY <1>2, ChunkHalfway
<1>3. CASE StreamEnds
  BY <1>3, EndAgrees
<1>4. CASE Ask \/ Respond \/ Continue \/ Reply
  <2>1. stage' \notin {"streaming", "replied"}
    BY <1>4 DEF Ask, Respond, Continue, Reply
  <2>. QED  BY <2>1 DEF HalfwayInv, StreamAgrees
<1>5. CASE Fail \/ Leave
  <2>1. /\ stage' = "replied" /\ setting' = setting
        /\ \/ answer' = NoAnswer
           \/ stage \in {"looping", "asked again"}
    BY <1>5 DEF Fail, Leave
  <2>2. answer' = NoAnswer \/ ~setting'.streaming
    BY <2>1 DEF LoopInv, AnswerInv
  <2>3. NoAnswer' = NoAnswer
    BY DEF NoAnswer
  <2>. QED  BY <2>1, <2>2, <2>3 DEF HalfwayInv, StreamAgrees
<1>6. CASE UNCHANGED vars
  <2>1. /\ UNCHANGED <<stage, setting, native, pieces, acc, events, answer>> /\ Provider' = Provider
    BY <1>6 DEF vars, Provider
  <2>2. StreamAgrees' <=> StreamAgrees
    BY <2>1, Zenon DEF StreamAgrees
  <2>3. \A past : Came(past, Events(Provider, native))' <=> Came(past, Events(Provider, native))
    BY <2>1, Zenon DEF Came, EventsTyped, EventTyped
  <2>4. Streamable(native)' <=> Streamable(native)
    BY <2>1, Zenon DEF Streamable
  <2>. QED  BY <2>1, <2>2, <2>3, <2>4, Zenon DEF HalfwayInv
<1>. QED  BY <1>1, <1>2, <1>3, <1>4, <1>5, <1>6 DEF Next

\* A stream says what the provider's answer says, cut as it may be, for any
\* tools, answers and providers; Gemini's if it comes in one piece.
THEOREM StreamsAgree == Spec => []StreamAgrees
<1>1. Init => HalfwayInv
  BY DEF Init, HalfwayInv, StreamAgrees
<1>2. LoopInv /\ HalfwayInv /\ [Next]_vars => HalfwayInv'
  BY HalfwayKeeps
<1>3. HalfwayInv => StreamAgrees
  BY DEF HalfwayInv
<1>. QED  BY <1>1, <1>2, <1>3, LoopInvariant, PTL DEF Spec

=============================================================================
