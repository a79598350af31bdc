-------------------------- MODULE GraphRewritingProofs --------------------------
(***************************************************************************)
(* Proofs about the graph that the passes rewrite in place, for any graph  *)
(* a frontend can build, any passes but the e-graph extraction, any bounds,*)
(* and any stops and recompilations: the use-def lists and the effect      *)
(* chain are exact at every point, through every rewiring, kill and        *)
(* renumbering. And of graphs with no pass running: what a value denotes,  *)
(* when two values are structurally equal, that what the passes put in the *)
(* place of a node denotes the same, what replaceResult, killNode and      *)
(* eliminateDead do to the tables, what the outputs reach, that the        *)
(* interpreter computes what they denote, and that renumbering keeps it.   *)
(***************************************************************************)
EXTENDS CompilePipeline, FiniteSetTheorems, TLAPS

\* What an instance of InductionRules gives the constants that it has no use for.
NoDef(c, d, f, k) == f[k]
NoP(c, d, f, k) == TRUE
NoStep(c, a, x) == a
NoInv(d, a, k) == TRUE

-----------------------------------------------------------------------------
(***************************************************************************)
(* Sequences of whatever kind.                                             *)
(***************************************************************************)

IsSequence(s) == Len(s) \in Nat /\ s = [k \in 1 .. Len(s) |-> s[k]]

\* Such a sequence is one in the sense of the library.
LEMMA SequenceOfItsItems ==
  ASSUME NEW s, IsSequence(s)
  PROVE  s \in Seq({s[k] : k \in 1 .. Len(s)}) /\ DOMAIN s = 1 .. Len(s)
BY DEF IsSequence

\* A function on 1 .. n is a sequence of length n.
LEMMA FunctionIsSequence ==
  ASSUME NEW n \in Nat, NEW s, DOMAIN s = 1 .. n, s = [k \in DOMAIN s |-> s[k]]
  PROVE  IsSequence(s) /\ Len(s) = n
<1>1. s \in Seq({s[k] : k \in 1 .. n})
  OBVIOUS
<1>2. Len(s) = n
  BY <1>1
<1> QED BY <1>2 DEF IsSequence

\* A member of Seq is such a sequence.
LEMMA SeqIsSequence ==
  ASSUME NEW S, NEW s \in Seq(S)
  PROVE  IsSequence(s) /\ DOMAIN s = 1 .. Len(s)
BY DEF IsSequence

\* The empty list is a sequence.
LEMMA EmptyIsSequence == IsSequence(<<>>) /\ Len(<<>>) = 0
BY DEF IsSequence

\* What an append adds and keeps.
LEMMA SequenceAppend ==
  ASSUME NEW s, IsSequence(s), NEW x, NEW n, n = Len(s), NEW t, t = Append(s, x)
  PROVE  /\ IsSequence(t) /\ Len(t) = n + 1 /\ n \in Nat /\ t[n + 1] = x
         /\ DOMAIN t = 1 .. n + 1 /\ DOMAIN s = 1 .. n
         /\ \A k \in 1 .. n : t[k] = s[k]
<1> DEFINE S == {s[k] : k \in 1 .. Len(s)} \union {x}
<1>1. s \in Seq(S) /\ x \in S /\ n \in Nat
  BY DEF IsSequence
<1> HIDE DEF S
<1>2. t \in Seq(S) /\ Len(t) = n + 1 /\ t[n + 1] = x /\ \A k \in 1 .. n : t[k] = s[k]
  BY <1>1
<1> QED BY <1>1, <1>2, SeqIsSequence

\* The positions of a list.
LEMMA RangeCounts ==
  ASSUME NEW n \in Nat
  PROVE  IsFiniteSet(1 .. n) /\ Cardinality(1 .. n) = n
<1>1. 1 \in Int /\ n \in Int
  OBVIOUS
<1>2. IsFiniteSet(1 .. n) /\ Cardinality(1 .. n) = IF 1 > n THEN 0 ELSE n - 1 + 1
  BY ONLY <1>1, FS_Interval, Zenon
<1> QED BY <1>2

\* An append to a sequence gives one.
LEMMA AppendIsSequence ==
  ASSUME NEW s, IsSequence(s), NEW x
  PROVE  IsSequence(Append(s, x))
BY SequenceAppend

\* What a concatenation holds.
LEMMA SequenceConcat ==
  ASSUME NEW s, IsSequence(s), NEW t, IsSequence(t), NEW m, m = Len(s), NEW n, n = Len(t),
         NEW u, u = s \o t
  PROVE  /\ IsSequence(u) /\ Len(u) = m + n /\ m \in Nat /\ n \in Nat
         /\ DOMAIN u = 1 .. m + n /\ DOMAIN s = 1 .. m /\ DOMAIN t = 1 .. n
         /\ \A k \in 1 .. m : u[k] = s[k]
         /\ \A k \in 1 .. n : u[m + k] = t[k]
<1> DEFINE S == {s[k] : k \in 1 .. Len(s)} \union {t[k] : k \in 1 .. Len(t)}
<1>1. s \in Seq(S) /\ t \in Seq(S) /\ m \in Nat /\ n \in Nat
  <2>1. (\A k \in 1 .. m : s[k] \in S) /\ (\A k \in 1 .. n : t[k] \in S)
    OBVIOUS
  <2> HIDE DEF S
  <2>2. s \in Seq(S)
    BY <2>1 DEF IsSequence
  <2>3. t \in Seq(S)
    BY <2>1, SMTT(30) DEF IsSequence
  <2> QED BY <2>2, <2>3 DEF IsSequence
<1> HIDE DEF S
<1>2. u \in Seq(S) /\ Len(u) = m + n
  BY <1>1
<1>3. \A k \in 1 .. m : u[k] = s[k]
  BY <1>1
<1>4. \A k \in 1 .. n : u[m + k] = t[k]
  BY <1>1
<1> QED BY <1>1, <1>2, <1>3, <1>4, SeqIsSequence

\* No item stands twice.
Distinct(s) == \A i, j \in 1 .. Len(s) : s[i] = s[j] => i = j

Holds(s, x) == \E i \in 1 .. Len(s) : s[i] = x

\* Membership by position is membership in the set of items.
LEMMA HoldsIsMember ==
  ASSUME NEW s, IsSequence(s), NEW x
  PROVE  x \in ToSet(s) <=> Holds(s, x)
<1>1. DOMAIN s = 1 .. Len(s)
  BY SequenceOfItsItems
<1> QED BY <1>1 DEF ToSet, Holds

\* An append of what is not there keeps the items distinct.
LEMMA AppendHolds ==
  ASSUME NEW s, IsSequence(s), NEW x, NEW t, t = Append(s, x)
  PROVE  /\ \A y : Holds(t, y) <=> Holds(s, y) \/ y = x
         /\ Distinct(s) /\ ~Holds(s, x) => Distinct(t)
<1> DEFINE n == Len(s)
<1>1. /\ Len(t) = n + 1 /\ n \in Nat /\ t[n + 1] = x /\ \A k \in 1 .. n : t[k] = s[k]
  BY SequenceAppend
<1>2. 1 .. Len(t) = 1 .. n \union {n + 1}
  BY <1>1
<1>3. ASSUME NEW y PROVE Holds(t, y) <=> Holds(s, y) \/ y = x
  BY <1>1, <1>2 DEF Holds
<1>4. ASSUME Distinct(s), ~Holds(s, x), NEW i \in 1 .. Len(t), NEW j \in 1 .. Len(t), t[i] = t[j]
      PROVE  i = j
  BY <1>1, <1>2, <1>4 DEF Distinct, Holds
<1> QED BY <1>3, <1>4 DEF Distinct

\* A concatenation of sequences without a common item.
LEMMA ConcatHolds ==
  ASSUME NEW s, IsSequence(s), NEW t, IsSequence(t), NEW u, u = s \o t
  PROVE  /\ \A y : Holds(u, y) <=> Holds(s, y) \/ Holds(t, y)
         /\ IsSequence(u)
<1> DEFINE m == Len(s)
           n == Len(t)
<1>1. /\ Len(u) = m + n /\ m \in Nat /\ n \in Nat
      /\ \A k \in 1 .. m : u[k] = s[k]
      /\ \A k \in 1 .. n : u[m + k] = t[k]
      /\ IsSequence(u)
  <2>1. Len(u) = m + n /\ m \in Nat /\ n \in Nat /\ IsSequence(u)
    <3>1. m \in Nat /\ n \in Nat
      BY DEF IsSequence
    <3>2. Len(u) = m + n
      BY SequenceConcat
    <3>3. IsSequence(u)
      BY SequenceConcat
    <3> QED BY <3>1, <3>2, <3>3
  <2>2. \A k \in 1 .. m : u[k] = s[k]
    BY SequenceConcat
  <2>3. \A k \in 1 .. n : u[m + k] = t[k]
    BY SequenceConcat
  <2> QED BY <2>1, <2>2, <2>3
<1> HIDE DEF m, n
<1>2. ASSUME NEW y, NEW i \in 1 .. Len(u), u[i] = y PROVE Holds(s, y) \/ Holds(t, y)
  <2>1. CASE i \in 1 .. m
    BY <2>1, <1>1, <1>2 DEF Holds, m
  <2>2. CASE i \notin 1 .. m
    <3>1. i - m \in 1 .. n /\ m + (i - m) = i
      BY <2>2, <1>1
    <3>2. t[i - m] = y
      BY <3>1, <1>1, <1>2
    <3> QED BY <3>1, <3>2 DEF Holds, n
  <2> QED BY <2>1, <2>2
<1>3. ASSUME NEW y, NEW i \in 1 .. m, s[i] = y PROVE Holds(u, y)
  <2>1. i \in 1 .. Len(u) /\ u[i] = y
    BY <1>1, <1>3
  <2> QED BY <2>1 DEF Holds
<1>4. ASSUME NEW y, NEW i \in 1 .. n, t[i] = y PROVE Holds(u, y)
  <2>1. m + i \in 1 .. Len(u) /\ u[m + i] = y
    BY <1>1, <1>4
  <2> QED BY <2>1 DEF Holds
<1> QED BY <1>1, <1>2, <1>3, <1>4 DEF Holds, m, n

-----------------------------------------------------------------------------
(***************************************************************************)
(* topoOrder and the other selections of nodes.                            *)
(***************************************************************************)

WithinStep(S, list, x) == IF x \in S THEN Append(list, x) ELSE list

WithinIs(d, list, k) ==
  /\ IsSequence(list)
  /\ \A x : Holds(list, x) <=> x \in d.set /\ \E j \in 1 .. k : d.seq[j] = x
  /\ Distinct(d.seq) => Distinct(list)

WithinFold == INSTANCE InductionRules WITH Step <- WithinStep, Inv <- WithinIs, Def <- NoDef, P <- NoP

\* What is selected: the items in the set, each as often as it was there.
LEMMA WithinSelects ==
  ASSUME NEW s, IsSequence(s), NEW S, NEW t, t = Within(s, S)
  PROVE  /\ IsSequence(t)
         /\ \A x : Holds(t, x) <=> Holds(s, x) /\ x \in S
         /\ Distinct(s) => Distinct(t)
<1> DEFINE d == [seq |-> s, set |-> S]
           n == Len(s)
<1>1. t = WithinFold!Folded(S, <<>>, s)
  BY DEF Within, FoldLeft, MapThenFoldSet, Max, WithinStep, WithinFold!Folded, WithinFold!FoldTable
<1>2. n \in Nat /\ DOMAIN s = 1 .. n
  BY SequenceOfItsItems DEF IsSequence
<1>3. WithinIs(d, <<>>, 0)
  <2>1. \A x : ~Holds(<<>>, x)
    BY EmptyIsSequence DEF Holds
  <2>2. Distinct(<<>>)
    BY EmptyIsSequence DEF Distinct
  <2>3. 1 .. 0 = {}
    OBVIOUS
  <2> QED BY <2>1, <2>2, <2>3, EmptyIsSequence DEF WithinIs
<1>4. ASSUME NEW k \in 1 .. n, NEW list, WithinIs(d, list, k - 1)
      PROVE  WithinIs(d, WithinStep(S, list, s[k]), k)
  <2>1. 1 .. k = 1 .. k - 1 \union {k} /\ k \notin 1 .. k - 1
    BY <1>2
  <2>2. /\ d.seq = s /\ d.set = S
        /\ IsSequence(list)
        /\ \A x : Holds(list, x) <=> x \in S /\ \E j \in 1 .. k - 1 : s[j] = x
        /\ Distinct(s) => Distinct(list)
    BY <1>4 DEF WithinIs
  <2> HIDE DEF d, n
  <2>3. CASE s[k] \notin S
    <3>1. WithinStep(S, list, s[k]) = list
      BY <2>3 DEF WithinStep
    <3> QED BY <3>1, <2>1, <2>2, <2>3 DEF WithinIs
  <2>4. CASE s[k] \in S
    <3> DEFINE longer == Append(list, s[k])
    <3>1. WithinStep(S, list, s[k]) = longer
      BY <2>4 DEF WithinStep
    <3>2. /\ \A y : Holds(longer, y) <=> Holds(list, y) \/ y = s[k]
          /\ Distinct(list) /\ ~Holds(list, s[k]) => Distinct(longer)
          /\ IsSequence(longer)
      BY <2>2, AppendHolds, SequenceAppend
    <3> HIDE DEF longer
    <3>3. Distinct(s) => ~Holds(list, s[k])
      <4>1. ASSUME Distinct(s), NEW j \in 1 .. k - 1, s[j] = s[k] PROVE FALSE
        BY <4>1, <2>1, <1>2 DEF Distinct, n
      <4> QED BY <4>1, <2>2
    <3>4. \A x : Holds(longer, x) <=> x \in S /\ \E j \in 1 .. k : s[j] = x
      BY <2>1, <2>2, <2>4, <3>2
    <3> QED BY <3>1, <3>2, <3>3, <3>4, <2>2 DEF WithinIs
  <2> QED BY <2>3, <2>4
<1> HIDE DEF d
<1>5. WithinIs(d, t, n)
  BY <1>1, <1>2, <1>3, <1>4, WithinFold!FoldLeftInduction
<1> QED BY <1>2, <1>5 DEF WithinIs, d, Holds, n

\* The list of all ids, of which selections are made.
LEMMA AllIds ==
  ASSUME NEW n \in Nat, NEW s, IsSequence(s), Len(s) = n, NEW ids, ids = [k \in DOMAIN s |-> k]
  PROVE  /\ IsSequence(ids) /\ Distinct(ids)
         /\ \A x : Holds(ids, x) <=> x \in 1 .. n
<1>1. DOMAIN s = 1 .. n
  BY SequenceOfItsItems
<1>2. IsSequence(ids) /\ Len(ids) = n
  BY <1>1, FunctionIsSequence
<1> QED BY <1>1, <1>2 DEF Distinct, Holds

-----------------------------------------------------------------------------
(***************************************************************************)
(* How often an item stands in a sequence.                                 *)
(***************************************************************************)

Places(s, x) == {k \in DOMAIN s : s[k] = x}

\* The places of an item in a list are finitely many, and none when it is absent.
LEMMA PlacesCounted ==
  ASSUME NEW s, IsSequence(s), NEW x
  PROVE  /\ IsFiniteSet(Places(s, x)) /\ Cardinality(Places(s, x)) \in Nat
         /\ Places(s, x) \subseteq 1 .. Len(s)
         /\ ~Holds(s, x) => Cardinality(Places(s, x)) = 0
<1>1. DOMAIN s = 1 .. Len(s) /\ Len(s) \in Nat
  BY SequenceOfItsItems DEF IsSequence
<1>2. Places(s, x) \subseteq 1 .. Len(s)
  BY <1>1 DEF Places
<1>3. IsFiniteSet(1 .. Len(s))
  BY <1>1, RangeCounts
<1>4. IsFiniteSet(Places(s, x))
  BY <1>2, <1>3, FS_Subset
<1>5. ~Holds(s, x) => Places(s, x) = {}
  BY <1>1 DEF Places, Holds
<1> QED BY <1>2, <1>4, <1>5, FS_CardinalityType, FS_EmptySet

\* A set of numbers moved up by m.
LEMMA ShiftedSet ==
  ASSUME NEW m \in Nat, NEW S \in SUBSET Nat, IsFiniteSet(S), NEW T, T = {m + k : k \in S}
  PROVE  IsFiniteSet(T) /\ Cardinality(T) = Cardinality(S)
<1> DEFINE f == [k \in S |-> m + k]
<1>1. f \in Bijection(S, T)
  <2>1. f \in [S -> T]
    OBVIOUS
  <2>2. \A i, j \in S : f[i] = f[j] => i = j
    OBVIOUS
  <2>3. \A t \in T : \E k \in S : f[k] = t
    OBVIOUS
  <2> QED BY <2>1, <2>2, <2>3 DEF Bijection, Injection, Surjection, IsInjective
<1>2. ExistsBijection(S, T)
  BY <1>1 DEF ExistsBijection
<1> QED BY <1>2, FS_Bijection

\* Counts add up along a concatenation.
LEMMA ConcatCounts ==
  ASSUME NEW s, IsSequence(s), NEW t, IsSequence(t), NEW x
  PROVE  Cardinality(Places(s \o t, x)) = Cardinality(Places(s, x)) + Cardinality(Places(t, x))
<1>1. PICK m, n, u : m = Len(s) /\ n = Len(t) /\ u = s \o t
  OBVIOUS
<1>2. /\ DOMAIN u = 1 .. m + n /\ DOMAIN s = 1 .. m /\ DOMAIN t = 1 .. n
      /\ m \in Nat /\ n \in Nat
  BY <1>1, SequenceConcat
<1>3. /\ \A k \in 1 .. m : u[k] = s[k]
      /\ \A k \in 1 .. n : u[m + k] = t[k]
  BY <1>1, SequenceConcat
<1> DEFINE T == {m + k : k \in Places(t, x)}
<1>4. Places(u, x) = Places(s, x) \union T
  <2>1. ASSUME NEW p \in Places(u, x) PROVE p \in Places(s, x) \union T
    <3>1. p \in 1 .. m + n /\ u[p] = x
      BY <1>2 DEF Places
    <3>2. CASE p \in 1 .. m
      BY <3>1, <3>2, <1>2, <1>3 DEF Places
    <3>3. CASE p \notin 1 .. m
      <4>1. p - m \in 1 .. n /\ m + (p - m) = p
        BY <3>1, <3>3, <1>2
      <4>2. t[p - m] = x
        BY <4>1, <3>1, <1>3
      <4> QED BY <4>1, <4>2, <1>2 DEF Places
    <3> QED BY <3>2, <3>3
  <2>2. ASSUME NEW p \in Places(s, x) PROVE p \in Places(u, x)
    <3>1. p \in 1 .. m /\ s[p] = x
      BY <1>2 DEF Places
    <3>2. p \in 1 .. m + n /\ u[p] = x
      BY <3>1, <1>2, <1>3
    <3> QED BY <3>2, <1>2 DEF Places
  <2>3. ASSUME NEW k \in Places(t, x) PROVE m + k \in Places(u, x)
    <3>1. k \in 1 .. n /\ t[k] = x
      BY <1>2 DEF Places
    <3>2. m + k \in 1 .. m + n /\ u[m + k] = x
      BY <3>1, <1>2, <1>3
    <3> QED BY <3>2, <1>2 DEF Places
  <2> QED BY <2>1, <2>2, <2>3
<1>5. Places(s, x) \intersect T = {}
  BY <1>2 DEF Places
<1>6. IsFiniteSet(T) /\ Cardinality(T) = Cardinality(Places(t, x))
  <2>1. Places(t, x) \in SUBSET Nat /\ IsFiniteSet(Places(t, x))
    <3>1. Places(t, x) \in SUBSET Nat
      BY <1>2 DEF Places
    <3> QED BY <3>1, PlacesCounted
  <2>2. PICK P : P = Places(t, x)
    OBVIOUS
  <2>3. P \in SUBSET Nat /\ IsFiniteSet(P) /\ T = {m + k : k \in P} /\ m \in Nat
    BY <1>2, <2>1, <2>2
  <2> HIDE DEF T
  <2>4. IsFiniteSet(T) /\ Cardinality(T) = Cardinality(P)
    BY <2>3, ShiftedSet
  <2> QED BY <2>2, <2>4
<1> HIDE DEF T
<1>7. /\ IsFiniteSet(Places(s, x))
      /\ Cardinality(Places(s, x)) \in Nat /\ Cardinality(Places(t, x)) \in Nat
  BY PlacesCounted
<1>8. Cardinality(Places(s, x) \union T) = Cardinality(Places(s, x)) + Cardinality(T) - 0
  BY <1>5, <1>6, <1>7, FS_Union, FS_EmptySet
<1> QED BY <1>1, <1>4, <1>6, <1>7, <1>8

\* The entries that a node makes in the use-def list of v.
LEMMA EntriesCounted ==
  ASSUME NEW node, IsSequence(node.inputs), NEW v, NEW e, e = UseEntries(node, v)
  PROVE  /\ IsSequence(e)
         /\ \A k \in 1 .. Len(e) : e[k] = node.id
         /\ Cardinality(Places(e, node.id)) = Cardinality(Uses(node, v))
         /\ \A x : x # node.id => Cardinality(Places(e, x)) = 0
         /\ Cardinality(Uses(node, v)) \in Nat
<1> DEFINE c == Cardinality(Uses(node, v))
<1>1. c \in Nat
  BY PlacesCounted DEF Uses, Places
<1> HIDE DEF c
<1>2. e = [k \in 1 .. c |-> node.id]
  BY DEF UseEntries, c
<1>3. IsSequence(e) /\ Len(e) = c /\ DOMAIN e = 1 .. c
  BY <1>1, <1>2, FunctionIsSequence
<1>4. Places(e, node.id) = 1 .. c
  BY <1>2 DEF Places
<1>5. Cardinality(1 .. c) = c
  BY <1>1, RangeCounts
<1>6. \A x : x # node.id => ~Holds(e, x)
  BY <1>2, <1>3 DEF Holds
<1>7. \A k \in 1 .. Len(e) : e[k] = node.id
  BY <1>2, <1>3
<1> QED BY <1>1, <1>3, <1>4, <1>5, <1>6, <1>7, PlacesCounted DEF c

\* Items renamed, and only those at which x stood now named y.
LEMMA RenamedCount ==
  ASSUME NEW s, NEW to, NEW x, NEW y, \A k \in DOMAIN s : to[s[k]] = y <=> s[k] = x,
         NEW t, t = [k \in DOMAIN s |-> to[s[k]]]
  PROVE  Places(t, y) = Places(s, x)
BY DEF Places

-----------------------------------------------------------------------------
(***************************************************************************)
(* A graph whose tables agree.                                             *)
(***************************************************************************)

ValueForm(v) == v = [kind |-> v.kind, payload |-> v.payload, producer |-> v.producer]

NodeForm(n) == n = [id |-> n.id, op |-> n.op, attr |-> n.attr, inputs |-> n.inputs,
                    result |-> n.result, dead |-> n.dead]

GraphForm(g) == g = [values |-> g.values, nodes |-> g.nodes, users |-> g.users,
                     outputs |-> g.outputs, chain |-> g.chain, rep |-> g.rep]

\* The tables are sequences, with a use-def list for every value.
TablesOK(g) ==
  /\ GraphForm(g)
  /\ IsSequence(g.values) /\ IsSequence(g.nodes) /\ IsSequence(g.users)
  /\ IsSequence(g.outputs) /\ IsSequence(g.chain)
  /\ Len(g.users) = Len(g.values)

\* A result has a producer.
ValueOver(v, c) ==
  /\ ValueForm(v)
  /\ v.kind = "result" => v.producer \in 1 .. c

\* A node has the operands of its operation and a result, among m values.
NodeOver(n, m) ==
  /\ NodeForm(n) /\ n.dead \in BOOLEAN
  /\ n.result \in 1 .. m
  /\ IsSequence(n.inputs) /\ Len(n.inputs) = IF Binary(n.op) THEN 2 ELSE 1
  /\ \A k \in 1 .. Len(n.inputs) : n.inputs[k] \in 1 .. m

ValuesOK(g) == \A v \in 1 .. Len(g.values) : ValueOver(g.values[v], Len(g.nodes))

\* A live node has its place as its id; the copies of dead nodes that a
\* renumbering leaves behind need not.
NodesOK(g) ==
  \A n \in 1 .. Len(g.nodes) :
    NodeOver(g.nodes[n], Len(g.values)) /\ (~g.nodes[n].dead => g.nodes[n].id = n)

UsersOK(g) ==
  \A v \in 1 .. Len(g.users) :
    IsSequence(g.users[v]) /\ \A k \in 1 .. Len(g.users[v]) : g.users[v][k] \in 1 .. Len(g.nodes)

OutputsOK(g) == \A k \in 1 .. Len(g.outputs) : g.outputs[k] \in 1 .. Len(g.values)

\* UsersExact and ChainExact of a graph.
UseCountsOK(g) ==
  \A v \in 1 .. Len(g.users) : \A n \in 1 .. Len(g.nodes) : ~g.nodes[n].dead =>
    Cardinality(Places(g.users[v], n)) = Cardinality(Uses(g.nodes[n], v))

IsEffect(g, x) == x \in 1 .. Len(g.nodes) /\ ~g.nodes[x].dead /\ Effectful(g.nodes[x].op)

ChainOK(g) ==
  /\ \A x : Holds(g.chain, x) <=> IsEffect(g, x)
  /\ Distinct(g.chain)

GraphOK(g) ==
  /\ TablesOK(g) /\ ValuesOK(g) /\ NodesOK(g) /\ UsersOK(g) /\ OutputsOK(g)
  /\ UseCountsOK(g) /\ ChainOK(g)

\* h has the values and nodes of g, and perhaps more.
Grown(g, h) ==
  /\ Len(g.values) <= Len(h.values) /\ Len(g.nodes) <= Len(h.nodes)
  /\ \A v \in 1 .. Len(g.values) : h.values[v] = g.values[v]
  /\ \A n \in 1 .. Len(g.nodes) : h.nodes[n] = g.nodes[n]

\* The tables of a graph are indexed from 1 to their lengths.
LEMMA TableDomains ==
  ASSUME NEW g, TablesOK(g)
  PROVE  /\ Len(g.values) \in Nat /\ DOMAIN g.values = 1 .. Len(g.values)
         /\ Len(g.nodes) \in Nat /\ DOMAIN g.nodes = 1 .. Len(g.nodes)
         /\ DOMAIN g.users = 1 .. Len(g.values) /\ Len(g.users) = Len(g.values)
         /\ Len(g.outputs) \in Nat /\ DOMAIN g.outputs = 1 .. Len(g.outputs)
         /\ Len(g.chain) \in Nat /\ DOMAIN g.chain = 1 .. Len(g.chain)
<1>1. \A s : IsSequence(s) => Len(s) \in Nat /\ DOMAIN s = 1 .. Len(s)
  BY SequenceOfItsItems DEF IsSequence
<1> QED BY <1>1 DEF TablesOK

\* A new graph satisfies the invariant.
LEMMA EmptyGraphOK == GraphOK(EmptyGraph)
<1> DEFINE g == EmptyGraph
<1>1. /\ g.values = <<>> /\ g.nodes = <<>> /\ g.users = <<>> /\ g.outputs = <<>> /\ g.chain = <<>>
      /\ GraphForm(g)
  BY DEF EmptyGraph, GraphForm
<1> HIDE DEF g
<1>2. Len(<<>>) = 0 /\ IsSequence(<<>>) /\ 1 .. 0 = {}
  BY EmptyIsSequence
<1>3. TablesOK(g)
  BY <1>1, <1>2 DEF TablesOK
<1>4. ValuesOK(g) /\ NodesOK(g) /\ UsersOK(g) /\ OutputsOK(g) /\ UseCountsOK(g)
  BY <1>1, <1>2 DEF ValuesOK, NodesOK, UsersOK, OutputsOK, UseCountsOK
<1>5. ChainOK(g)
  BY <1>1, <1>2 DEF ChainOK, Holds, Distinct, IsEffect
<1> QED BY <1>3, <1>4, <1>5 DEF GraphOK, g

\* allocateValue: the tables after it.
LEMMA Allocated ==
  ASSUME NEW g, TablesOK(g), NEW v, NEW h, h = AllocateValue(g, v)
  PROVE  /\ h = [values |-> Append(g.values, v), nodes |-> g.nodes, users |-> Append(g.users, <<>>),
                 outputs |-> g.outputs, chain |-> g.chain, rep |-> g.rep]
         /\ TablesOK(h)
<1>1. g = [values |-> g.values, nodes |-> g.nodes, users |-> g.users, outputs |-> g.outputs,
           chain |-> g.chain, rep |-> g.rep]
  BY DEF TablesOK, GraphForm
<1>2. h = [g EXCEPT !.values = Append(g.values, v), !.users = Append(g.users, <<>>)]
  BY DEF AllocateValue
<1>3. h = [values |-> Append(g.values, v), nodes |-> g.nodes, users |-> Append(g.users, <<>>),
           outputs |-> g.outputs, chain |-> g.chain, rep |-> g.rep]
  BY <1>1, <1>2
<1>4. /\ h.values = Append(g.values, v) /\ h.nodes = g.nodes /\ h.users = Append(g.users, <<>>)
      /\ h.outputs = g.outputs /\ h.chain = g.chain /\ GraphForm(h)
  BY <1>3 DEF GraphForm
<1>5. /\ IsSequence(h.values) /\ Len(h.values) = Len(g.values) + 1
      /\ IsSequence(h.users) /\ Len(h.users) = Len(g.users) + 1
  <2>1. IsSequence(g.values) /\ IsSequence(g.users)
    BY DEF TablesOK
  <2>2. PICK m, c : m = Len(g.values) /\ c = Len(g.users)
    OBVIOUS
  <2>3. IsSequence(h.values) /\ IsSequence(h.users)
    BY <2>1, <1>4, AppendIsSequence
  <2>4. Len(h.values) = m + 1
    BY <2>1, <2>2, <1>4, SequenceAppend
  <2>5. Len(h.users) = c + 1
    BY <2>1, <2>2, <1>4, SequenceAppend
  <2> QED BY <2>2, <2>3, <2>4, <2>5
<1>6. TablesOK(h)
  BY <1>4, <1>5 DEF TablesOK
<1> QED BY <1>3, <1>6

\* A leaf: nothing refers to it yet.
LEMMA LeafAdded ==
  ASSUME NEW g, GraphOK(g), NEW v, ValueForm(v), v.kind # "result", NEW h, h = AllocateValue(g, v)
  PROVE  /\ GraphOK(h) /\ Grown(g, h)
         /\ Len(h.values) = Len(g.values) + 1
         /\ h.values[Len(h.values)] = v
<1>1. PICK m : m = Len(g.values)
  OBVIOUS
<1>2. /\ IsSequence(g.values) /\ IsSequence(g.users) /\ Len(g.users) = m /\ m \in Nat
      /\ TablesOK(g) /\ Len(g.nodes) \in Nat
  BY <1>1, TableDomains DEF GraphOK, TablesOK
<1>3. /\ h.values = Append(g.values, v) /\ h.nodes = g.nodes /\ h.users = Append(g.users, <<>>)
      /\ h.outputs = g.outputs /\ h.chain = g.chain
      /\ TablesOK(h)
  BY <1>2, Allocated
<1>4. Len(h.values) = m + 1 /\ h.values[m + 1] = v /\ \A w \in 1 .. m : h.values[w] = g.values[w]
  BY <1>1, <1>2, <1>3, SequenceAppend
<1>5. Len(h.users) = m + 1 /\ h.users[m + 1] = <<>> /\ \A w \in 1 .. m : h.users[w] = g.users[w]
  BY <1>2, <1>3, SequenceAppend
<1>6. 1 .. m + 1 = 1 .. m \union {m + 1}
  BY <1>2
<1>7. ValuesOK(h)
  <2>1. \A w \in 1 .. m : ValueOver(g.values[w], Len(g.nodes))
    BY <1>1 DEF GraphOK, ValuesOK
  <2>2. ValueOver(v, Len(g.nodes))
    BY DEF ValueOver
  <2> QED BY <1>3, <1>4, <1>6, <2>1, <2>2 DEF ValuesOK
<1>8. \A n : NodeOver(n, m) => NodeOver(n, m + 1)
  BY <1>2 DEF NodeOver
<1>9. NodesOK(h)
  BY <1>1, <1>3, <1>4, <1>8 DEF GraphOK, NodesOK
<1>10. UsersOK(h)
  <2>1. \A w \in 1 .. m : IsSequence(g.users[w])
                          /\ \A k \in 1 .. Len(g.users[w]) : g.users[w][k] \in 1 .. Len(g.nodes)
    BY <1>2 DEF GraphOK, UsersOK
  <2>2. IsSequence(<<>>) /\ Len(<<>>) = 0 /\ 1 .. 0 = {}
    BY EmptyIsSequence
  <2>3. PICK old, new, c : old = g.users /\ new = h.users /\ c = Len(g.nodes)
    OBVIOUS
  <2>4. /\ Len(new) = m + 1 /\ new[m + 1] = <<>> /\ Len(h.nodes) = c
        /\ \A w \in 1 .. m : /\ new[w] = old[w] /\ IsSequence(old[w])
                             /\ \A k \in 1 .. Len(old[w]) : old[w][k] \in 1 .. c
    BY <1>3, <1>5, <2>1, <2>3
  <2>5. ASSUME NEW w \in 1 .. m + 1
        PROVE  IsSequence(new[w]) /\ \A k \in 1 .. Len(new[w]) : new[w][k] \in 1 .. c
    <3>1. CASE w = m + 1
      BY <2>2, <2>4, <3>1
    <3>2. CASE w \in 1 .. m
      BY <2>4, <3>2
    <3> QED BY <1>6, <3>1, <3>2
  <2> QED BY <2>3, <2>4, <2>5 DEF UsersOK
<1>11. OutputsOK(h)
  BY <1>1, <1>2, <1>3, <1>4 DEF GraphOK, OutputsOK
<1>12. UseCountsOK(h)
  <2>1. ASSUME NEW n \in 1 .. Len(g.nodes)
        PROVE  Cardinality(Places(<<>>, n)) = Cardinality(Uses(g.nodes[n], m + 1))
    <3>1. NodeOver(g.nodes[n], m)
      BY <1>1 DEF GraphOK, NodesOK
    <3>2. Uses(g.nodes[n], m + 1) = {}
      <4>1. DOMAIN g.nodes[n].inputs = 1 .. Len(g.nodes[n].inputs)
        BY <3>1, SequenceOfItsItems DEF NodeOver
      <4> QED BY <3>1, <4>1, <1>2 DEF NodeOver, Uses
    <3>3. Places(<<>>, n) = {}
      BY DEF Places
    <3> QED BY <3>2, <3>3
  <2>2. \A w \in 1 .. m : \A n \in 1 .. Len(g.nodes) : ~g.nodes[n].dead =>
          Cardinality(Places(g.users[w], n)) = Cardinality(Uses(g.nodes[n], w))
    BY <1>2 DEF GraphOK, UseCountsOK
  <2> QED BY <1>3, <1>5, <1>6, <2>1, <2>2, SMTT(30) DEF UseCountsOK
<1>13. ChainOK(h)
  BY <1>3 DEF GraphOK, ChainOK, IsEffect
<1>14. Grown(g, h)
  BY <1>1, <1>2, <1>3, <1>4 DEF Grown
<1> QED BY <1>1, <1>3, <1>4, <1>7, <1>9, <1>10, <1>11, <1>12, <1>13, <1>14 DEF GraphOK

\* addNode: a node over values that exist, and its result.
LEMMA NodeAdded ==
  ASSUME NEW g, GraphOK(g), NEW op, NEW inputs, IsSequence(inputs),
         Len(inputs) = IF Binary(op) THEN 2 ELSE 1,
         \A k \in 1 .. Len(inputs) : inputs[k] \in 1 .. Len(g.values),
         NEW attr, NEW h, h = AddNode(g, op, inputs, attr)
  PROVE  /\ GraphOK(h) /\ Grown(g, h)
         /\ Len(h.values) = Len(g.values) + 1 /\ Len(g.values) \in Nat
<1>1. PICK m, c : m = Len(g.values) /\ c = Len(g.nodes)
  OBVIOUS
<1> DEFINE node == [id |-> c + 1, op |-> op, attr |-> attr, inputs |-> inputs, result |-> m + 1, dead |-> FALSE]
           v == Value("result", 0, c + 1)
           a == AllocateValue(g, v)
           users == [w \in DOMAIN a.users |-> a.users[w] \o UseEntries(node, w)]
           chain == IF Effectful(op) THEN Append(a.chain, c + 1) ELSE a.chain
<1>2. /\ IsSequence(g.values) /\ IsSequence(g.users) /\ Len(g.users) = m /\ m \in Nat
      /\ IsSequence(g.nodes) /\ IsSequence(g.chain)
      /\ TablesOK(g) /\ c \in Nat
  BY <1>1, TableDomains DEF GraphOK, TablesOK
<1>3. /\ a = [values |-> Append(g.values, v), nodes |-> g.nodes, users |-> Append(g.users, <<>>),
               outputs |-> g.outputs, chain |-> g.chain, rep |-> g.rep]
      /\ TablesOK(a)
  BY <1>2, Allocated
<1>4. /\ ValueForm(v) /\ v.kind = "result" /\ v.producer = c + 1
  BY DEF Value, ValueForm
<1>5. /\ NodeForm(node) /\ node.id = c + 1 /\ node.op = op /\ node.inputs = inputs
      /\ node.result = m + 1 /\ node.dead = FALSE
  BY DEF NodeForm
<1>6. h = [a EXCEPT !.nodes = Append(a.nodes, node), !.users = users, !.chain = chain]
  <2>1. h = [a EXCEPT !.nodes = Append(@, node),
                      !.users = [w \in DOMAIN @ |-> @[w] \o UseEntries(node, w)],
                      !.chain = IF Effectful(op) THEN Append(@, node.id) ELSE @]
    BY <1>1 DEF AddNode
  <2> HIDE DEF node, v, a
  <2> QED BY <2>1, <1>5
<1> HIDE DEF node, v, a, users, chain
<1>7. /\ h.values = Append(g.values, v) /\ h.nodes = Append(g.nodes, node)
      /\ h.users = users /\ h.outputs = g.outputs /\ h.chain = chain
      /\ GraphForm(h)
  <2>1. h = [values |-> Append(g.values, v), nodes |-> Append(g.nodes, node), users |-> users,
             outputs |-> g.outputs, chain |-> chain, rep |-> g.rep]
    BY <1>3, <1>6
  <2> QED BY <2>1 DEF GraphForm
<1>8. IsSequence(h.values) /\ Len(h.values) = m + 1 /\ h.values[m + 1] = v
      /\ \A w \in 1 .. m : h.values[w] = g.values[w]
  <2>1. IsSequence(h.values)
    BY <1>2, <1>7, AppendIsSequence
  <2>2. Len(h.values) = m + 1 /\ h.values[m + 1] = v /\ \A w \in 1 .. m : h.values[w] = g.values[w]
    BY <1>1, <1>2, <1>7, SequenceAppend
  <2> QED BY <2>1, <2>2
<1>9. IsSequence(h.nodes) /\ Len(h.nodes) = c + 1 /\ h.nodes[c + 1] = node
      /\ \A n \in 1 .. c : h.nodes[n] = g.nodes[n]
  <2>1. IsSequence(h.nodes)
    BY <1>2, <1>7, AppendIsSequence
  <2>2. Len(h.nodes) = c + 1 /\ h.nodes[c + 1] = node /\ \A n \in 1 .. c : h.nodes[n] = g.nodes[n]
    BY <1>1, <1>2, <1>7, SequenceAppend
  <2> QED BY <2>1, <2>2
<1>10. /\ 1 .. m + 1 = 1 .. m \union {m + 1} /\ m + 1 \notin 1 .. m
       /\ 1 .. c + 1 = 1 .. c \union {c + 1} /\ c + 1 \notin 1 .. c
  BY <1>2
<1>11. /\ IsSequence(h.users) /\ Len(h.users) = m + 1
       /\ \A w \in 1 .. m : h.users[w] = g.users[w] \o UseEntries(node, w)
       /\ h.users[m + 1] = <<>> \o UseEntries(node, m + 1)
  <2>1. /\ a.users = Append(g.users, <<>>)
    BY <1>3
  <2>2. DOMAIN a.users = 1 .. m + 1 /\ a.users[m + 1] = <<>> /\ \A w \in 1 .. m : a.users[w] = g.users[w]
    BY <1>2, <2>1, SequenceAppend
  <2>3. h.users = [w \in 1 .. m + 1 |-> a.users[w] \o UseEntries(node, w)]
    BY <1>7, <2>2 DEF users
  <2>4. IsSequence(h.users) /\ Len(h.users) = m + 1
    BY <1>2, <2>3, FunctionIsSequence
  <2> QED BY <1>10, <2>2, <2>3, <2>4
<1>12. /\ \A w \in 1 .. m : IsSequence(g.users[w])
                            /\ \A k \in 1 .. Len(g.users[w]) : g.users[w][k] \in 1 .. c
  BY <1>1, <1>2 DEF GraphOK, UsersOK
<1>13. \A n \in 1 .. c : NodeOver(g.nodes[n], m) /\ (~g.nodes[n].dead => g.nodes[n].id = n)
  BY <1>1 DEF GraphOK, NodesOK
<1>14. TablesOK(h)
  <2>1. IsSequence(h.chain)
    <3>1. a.chain = g.chain
      BY <1>3
    <3>2. CASE Effectful(op)
      BY <3>1, <3>2, <1>2, <1>7, AppendIsSequence DEF chain
    <3>3. CASE ~Effectful(op)
      BY <3>1, <3>3, <1>2, <1>7 DEF chain
    <3> QED BY <3>2, <3>3
  <2>2. IsSequence(h.outputs)
    BY <1>2, <1>7 DEF TablesOK
  <2> QED BY <1>7, <1>8, <1>9, <1>11, <2>1, <2>2 DEF TablesOK
<1>15. ValuesOK(h)
  <2>1. ASSUME NEW w \in 1 .. m PROVE ValueOver(h.values[w], c + 1)
    <3>1. ValueOver(g.values[w], c)
      BY <1>1 DEF GraphOK, ValuesOK
    <3> QED BY <3>1, <1>2, <1>8, SMTT(30) DEF ValueOver
  <2>2. ValueOver(v, c + 1)
    BY <1>2, <1>4 DEF ValueOver
  <2> QED BY <1>8, <1>9, <1>10, <2>1, <2>2 DEF ValuesOK
<1>16. NodesOK(h)
  <2>1. \A n : NodeOver(n, m) => NodeOver(n, m + 1)
    BY <1>2 DEF NodeOver
  <2>2. NodeOver(node, m + 1)
    <3>1. \A k \in 1 .. Len(inputs) : inputs[k] \in 1 .. m + 1
      BY <1>1, <1>2
    <3>2. m + 1 \in 1 .. m + 1
      BY <1>2
    <3> QED BY <1>5, <3>1, <3>2 DEF NodeOver
  <2> QED BY <1>5, <1>8, <1>9, <1>10, <1>13, <2>1, <2>2 DEF NodesOK
<1>17. /\ \A w \in 1 .. m + 1 : /\ IsSequence(UseEntries(node, w))
                                /\ \A k \in 1 .. Len(UseEntries(node, w)) : UseEntries(node, w)[k] = c + 1
                                /\ Cardinality(Places(UseEntries(node, w), c + 1)) = Cardinality(Uses(node, w))
                                /\ \A x : x # c + 1 => Cardinality(Places(UseEntries(node, w), x)) = 0
                                /\ Cardinality(Uses(node, w)) \in Nat
  BY <1>5, EntriesCounted
<1>18. DOMAIN inputs = 1 .. Len(inputs)
  BY SequenceOfItsItems
<1>19. ASSUME NEW old, IsSequence(old), \A k \in 1 .. Len(old) : old[k] \in 1 .. c,
              NEW w \in 1 .. m + 1, h.users[w] = old \o UseEntries(node, w)
       PROVE  /\ IsSequence(h.users[w])
              /\ \A k \in 1 .. Len(h.users[w]) : h.users[w][k] \in 1 .. c + 1
              /\ \A n \in 1 .. c : Cardinality(Places(h.users[w], n)) = Cardinality(Places(old, n))
              /\ Cardinality(Places(h.users[w], c + 1)) = Cardinality(Uses(node, w))
  <2>1. PICK e : e = UseEntries(node, w)
    OBVIOUS
  <2>2. /\ IsSequence(e) /\ \A k \in 1 .. Len(e) : e[k] = c + 1
        /\ Cardinality(Places(e, c + 1)) = Cardinality(Uses(node, w))
        /\ \A x : x # c + 1 => Cardinality(Places(e, x)) = 0
        /\ Cardinality(Uses(node, w)) \in Nat
    BY <1>17, <2>1
  <2>3. h.users[w] = old \o e
    BY <1>19, <2>1
  <2>4. IsSequence(h.users[w]) /\ \A y : Holds(h.users[w], y) <=> Holds(old, y) \/ Holds(e, y)
    BY <1>19, <2>2, <2>3, ConcatHolds
  <2>5. ASSUME NEW k \in 1 .. Len(h.users[w]) PROVE h.users[w][k] \in 1 .. c + 1
    <3>1. Holds(h.users[w], h.users[w][k])
      BY DEF Holds
    <3>2. Holds(old, h.users[w][k]) \/ Holds(e, h.users[w][k])
      BY <2>4, <3>1
    <3> QED BY <1>10, <1>19, <2>2, <3>2 DEF Holds
  <2>6. ASSUME NEW x
        PROVE  Cardinality(Places(h.users[w], x)) = Cardinality(Places(old, x)) + Cardinality(Places(e, x))
    <3>1. IsSequence(old) /\ IsSequence(e)
      BY <1>19, <2>2
    <3>2. Cardinality(Places(old \o e, x)) = Cardinality(Places(old, x)) + Cardinality(Places(e, x))
      BY <3>1, ConcatCounts, Zenon
    <3> QED BY <2>3, <3>2
  <2>7. \A x : Cardinality(Places(old, x)) \in Nat
    BY <1>19, PlacesCounted
  <2>8. ASSUME NEW n \in 1 .. c PROVE Cardinality(Places(h.users[w], n)) = Cardinality(Places(old, n))
    <3>1. n # c + 1
      BY <1>10
    <3> QED BY <2>2, <2>6, <2>7, <3>1
  <2>9. Cardinality(Places(h.users[w], c + 1)) = Cardinality(Uses(node, w))
    <3>1. ~Holds(old, c + 1)
      BY <1>10, <1>19 DEF Holds
    <3>2. Cardinality(Places(old, c + 1)) = 0
      BY <1>19, <3>1, PlacesCounted
    <3> QED BY <2>2, <2>6, <3>2
  <2> QED BY <2>4, <2>5, <2>8, <2>9
<1>20. IsSequence(<<>>) /\ \A k \in 1 .. Len(<<>>) : <<>>[k] \in 1 .. c
  BY EmptyIsSequence
<1>21. \A n : Cardinality(Places(<<>>, n)) = 0
  BY FS_EmptySet DEF Places
<1>22. ASSUME NEW n \in 1 .. c PROVE Cardinality(Uses(g.nodes[n], m + 1)) = 0
  <2>1. NodeOver(g.nodes[n], m)
    BY <1>13
  <2>2. DOMAIN g.nodes[n].inputs = 1 .. Len(g.nodes[n].inputs)
    BY <2>1, SequenceOfItsItems DEF NodeOver
  <2>3. Uses(g.nodes[n], m + 1) = {}
    BY <2>1, <2>2, <1>10 DEF NodeOver, Uses
  <2> QED BY <2>3, FS_EmptySet
<1>23. ASSUME NEW w \in 1 .. m + 1
       PROVE  /\ IsSequence(h.users[w])
              /\ \A k \in 1 .. Len(h.users[w]) : h.users[w][k] \in 1 .. c + 1
              /\ \A n \in 1 .. c : ~g.nodes[n].dead =>
                   Cardinality(Places(h.users[w], n)) = Cardinality(Uses(g.nodes[n], w))
              /\ Cardinality(Places(h.users[w], c + 1)) = Cardinality(Uses(node, w))
  <2>1. CASE w \in 1 .. m
    <3>1. \A n \in 1 .. c : ~g.nodes[n].dead =>
            Cardinality(Places(g.users[w], n)) = Cardinality(Uses(g.nodes[n], w))
      BY <2>1, <1>1, <1>2 DEF GraphOK, UseCountsOK
    <3>2. h.users[w] = g.users[w] \o UseEntries(node, w) /\ IsSequence(g.users[w])
          /\ \A k \in 1 .. Len(g.users[w]) : g.users[w][k] \in 1 .. c
      BY <2>1, <1>11, <1>12
    <3>3. /\ IsSequence(h.users[w])
          /\ \A k \in 1 .. Len(h.users[w]) : h.users[w][k] \in 1 .. c + 1
          /\ \A n \in 1 .. c : Cardinality(Places(h.users[w], n)) = Cardinality(Places(g.users[w], n))
          /\ Cardinality(Places(h.users[w], c + 1)) = Cardinality(Uses(node, w))
      BY <3>2, <1>19
    <3> QED BY <3>1, <3>3
  <2>2. CASE w = m + 1
    <3>1. h.users[w] = <<>> \o UseEntries(node, w)
      BY <2>2, <1>11
    <3>2. /\ IsSequence(h.users[w])
          /\ \A k \in 1 .. Len(h.users[w]) : h.users[w][k] \in 1 .. c + 1
          /\ \A n \in 1 .. c : Cardinality(Places(h.users[w], n)) = Cardinality(Places(<<>>, n))
          /\ Cardinality(Places(h.users[w], c + 1)) = Cardinality(Uses(node, w))
      BY <3>1, <1>19, <1>20
    <3> QED BY <2>2, <3>2, <1>21, <1>22
  <2> QED BY <2>1, <2>2, <1>10
<1>24. UsersOK(h)
  BY <1>9, <1>11, <1>23 DEF UsersOK
<1>25. UseCountsOK(h)
  <2>1. ASSUME NEW w \in 1 .. m + 1, NEW n \in 1 .. c + 1, ~h.nodes[n].dead
        PROVE  Cardinality(Places(h.users[w], n)) = Cardinality(Uses(h.nodes[n], w))
    BY <2>1, <1>9, <1>10, <1>23, SMTT(30)
  <2> QED BY <2>1, <1>9, <1>11 DEF UseCountsOK
<1>26. OutputsOK(h)
  <2>1. \A k \in 1 .. Len(g.outputs) : g.outputs[k] \in 1 .. m
    BY <1>1 DEF GraphOK, OutputsOK
  <2> QED BY <2>1, <1>7, <1>8, <1>10 DEF OutputsOK
<1>27. ChainOK(h)
  <2>1. \A x : Holds(g.chain, x) <=> IsEffect(g, x)
    BY DEF GraphOK, ChainOK
  <2>2. Distinct(g.chain) /\ a.chain = g.chain
    BY <1>3 DEF GraphOK, ChainOK
  <2>3. \A x : IsEffect(h, x) <=> IsEffect(g, x) \/ (x = c + 1 /\ Effectful(op))
    BY <1>1, <1>5, <1>9, <1>10 DEF IsEffect
  <2>4. ~IsEffect(g, c + 1)
    BY <1>1, <1>10 DEF IsEffect
  <2>5. CASE Effectful(op)
    <3>1. h.chain = Append(g.chain, c + 1)
      BY <2>2, <2>5, <1>7 DEF chain
    <3>2. /\ \A y : Holds(h.chain, y) <=> Holds(g.chain, y) \/ y = c + 1
          /\ Distinct(g.chain) /\ ~Holds(g.chain, c + 1) => Distinct(h.chain)
      BY <3>1, <1>2, AppendHolds
    <3> QED BY <2>1, <2>2, <2>3, <2>4, <2>5, <3>2 DEF ChainOK
  <2>6. CASE ~Effectful(op)
    <3>1. h.chain = g.chain
      BY <2>2, <2>6, <1>7 DEF chain
    <3> QED BY <2>1, <2>2, <2>3, <2>6, <3>1 DEF ChainOK
  <2> QED BY <2>5, <2>6
<1>28. Grown(g, h)
  BY <1>1, <1>2, <1>8, <1>9 DEF Grown
<1> QED
  <2>1. GraphOK(h)
    BY <1>14, <1>15, <1>16, <1>24, <1>25, <1>26, <1>27 DEF GraphOK
  <2> QED BY <2>1, <1>1, <1>2, <1>8, <1>28

-----------------------------------------------------------------------------
(***************************************************************************)
(* Rewiring, recording, killing.                                           *)
(***************************************************************************)

RebuildStep(v, list, n) == IF n.dead THEN list ELSE list \o UseEntries(n, v)

\* After k nodes the list of v has the entries of those of them that live.
RebuildIs(d, list, k) ==
  /\ IsSequence(list)
  /\ \A i \in 1 .. Len(list) : list[i] \in 1 .. Len(d.nodes)
  /\ \A n \in 1 .. Len(d.nodes) :
       Cardinality(Places(list, n)) =
         IF n \in 1 .. k /\ ~d.nodes[n].dead THEN Cardinality(Uses(d.nodes[n], d.value)) ELSE 0

RebuildFold == INSTANCE InductionRules WITH Step <- RebuildStep, Inv <- RebuildIs, Def <- NoDef, P <- NoP

\* rebuildUsers, for one value.
RebuiltFor(nodes, v) ==
  FoldLeft(LAMBDA list, n : IF n.dead THEN list ELSE list \o UseEntries(n, v), <<>>, nodes)

\* A use-def list rebuilt by the renumbering (math_graph.cpp) holds each live
\* node as often as its operands name the value, and only nodes that exist.
LEMMA RebuiltList ==
  ASSUME NEW nodes, IsSequence(nodes),
         \A n \in 1 .. Len(nodes) : IsSequence(nodes[n].inputs) /\ (~nodes[n].dead => nodes[n].id = n),
         NEW v, NEW list, list = RebuiltFor(nodes, v)
  PROVE  /\ IsSequence(list)
         /\ \A i \in 1 .. Len(list) : list[i] \in 1 .. Len(nodes)
         /\ \A n \in 1 .. Len(nodes) : ~nodes[n].dead =>
              Cardinality(Places(list, n)) = Cardinality(Uses(nodes[n], v))
<1> DEFINE d == [nodes |-> nodes, value |-> v]
<1>1. PICK c : c = Len(nodes)
  OBVIOUS
<1>2. c \in Nat /\ DOMAIN nodes = 1 .. c
  BY <1>1, SequenceOfItsItems DEF IsSequence
<1>3. list = RebuildFold!Folded(v, <<>>, nodes)
  BY DEF RebuiltFor, FoldLeft, MapThenFoldSet, Max, RebuildStep, RebuildFold!Folded, RebuildFold!FoldTable
<1>4. d.nodes = nodes /\ d.value = v
  OBVIOUS
<1> HIDE DEF d
<1>5. RebuildIs(d, <<>>, 0)
  <2>1. IsSequence(<<>>) /\ Len(<<>>) = 0
    BY EmptyIsSequence
  <2>2. 1 .. 0 = {}
    OBVIOUS
  <2>3. \A n : Places(<<>>, n) = {}
    BY DEF Places
  <2>4. \A n : Cardinality(Places(<<>>, n)) = 0
    BY <2>3, FS_EmptySet
  <2> QED BY <2>1, <2>2, <2>4 DEF RebuildIs
<1>6. ASSUME NEW k \in 1 .. c, NEW l, RebuildIs(d, l, k - 1)
      PROVE  RebuildIs(d, RebuildStep(v, l, nodes[k]), k)
  <2>1. 1 .. k = 1 .. k - 1 \union {k} /\ k \notin 1 .. k - 1 /\ k \in Nat
    BY <1>2
  <2>2. /\ IsSequence(l)
        /\ \A i \in 1 .. Len(l) : l[i] \in 1 .. c
        /\ \A n \in 1 .. c :
             Cardinality(Places(l, n)) =
               IF n \in 1 .. k - 1 /\ ~nodes[n].dead THEN Cardinality(Uses(nodes[n], v)) ELSE 0
    BY <1>1, <1>4, <1>6 DEF RebuildIs
  <2>3. CASE nodes[k].dead
    <3>1. RebuildStep(v, l, nodes[k]) = l
      BY <2>3 DEF RebuildStep
    <3>2. \A n \in 1 .. c :
            Cardinality(Places(l, n)) =
              IF n \in 1 .. k /\ ~nodes[n].dead THEN Cardinality(Uses(nodes[n], v)) ELSE 0
      BY <2>1, <2>2, <2>3
    <3> QED BY <1>1, <1>4, <2>2, <3>1, <3>2 DEF RebuildIs
  <2>4. CASE ~nodes[k].dead
    <3>1. PICK e : e = UseEntries(nodes[k], v)
      OBVIOUS
    <3>2. PICK u : u = l \o e
      OBVIOUS
    <3>3. RebuildStep(v, l, nodes[k]) = u
      BY <2>4, <3>1, <3>2 DEF RebuildStep
    <3>4. nodes[k].id = k /\ IsSequence(nodes[k].inputs)
      BY <1>1, <2>4
    <3> DEFINE node == nodes[k]
    <3>5. /\ IsSequence(e) /\ \A i \in 1 .. Len(e) : e[i] = node.id
          /\ Cardinality(Places(e, node.id)) = Cardinality(Uses(node, v))
          /\ \A x : x # node.id => Cardinality(Places(e, x)) = 0
          /\ Cardinality(Uses(node, v)) \in Nat
      <4> HIDE DEF node
      <4>1. IsSequence(node.inputs) /\ e = UseEntries(node, v)
        BY <3>1, <3>4 DEF node
      <4> QED BY <4>1, EntriesCounted
    <3>6. /\ IsSequence(e) /\ \A i \in 1 .. Len(e) : e[i] = k
          /\ Cardinality(Places(e, k)) = Cardinality(Uses(nodes[k], v))
          /\ \A x : x # k => Cardinality(Places(e, x)) = 0
          /\ Cardinality(Uses(nodes[k], v)) \in Nat
      BY <3>4, <3>5
    <3>7. IsSequence(u) /\ \A y : Holds(u, y) <=> Holds(l, y) \/ Holds(e, y)
      BY <2>2, <3>2, <3>6, ConcatHolds
    <3>8. ASSUME NEW i \in 1 .. Len(u) PROVE u[i] \in 1 .. c
      <4>1. Holds(l, u[i]) \/ Holds(e, u[i])
        BY <3>7 DEF Holds
      <4> QED BY <2>1, <2>2, <3>6, <4>1 DEF Holds
    <3>9. ASSUME NEW n \in 1 .. c
          PROVE  Cardinality(Places(u, n)) =
                   IF n \in 1 .. k /\ ~nodes[n].dead THEN Cardinality(Uses(nodes[n], v)) ELSE 0
      <4>1. Cardinality(Places(l \o e, n)) = Cardinality(Places(l, n)) + Cardinality(Places(e, n))
        <5>1. IsSequence(l) /\ IsSequence(e)
          BY <2>2, <3>6
        <5> QED BY <5>1, ConcatCounts, Zenon
      <4>2. Cardinality(Places(u, n)) = Cardinality(Places(l, n)) + Cardinality(Places(e, n))
        BY <3>2, <4>1
      <4>3. Cardinality(Places(l, n)) \in Nat
        BY <2>2, PlacesCounted
      <4>4. CASE n = k
        <5>1. Cardinality(Places(l, n)) = 0
          BY <2>1, <2>2, <4>4
        <5> QED BY <2>1, <2>4, <3>6, <4>2, <4>4, <5>1
      <4>5. CASE n # k
        <5>1. Cardinality(Places(e, n)) = 0
          BY <3>6, <4>5
        <5>2. Cardinality(Places(u, n)) = Cardinality(Places(l, n))
          BY <4>2, <4>3, <5>1
        <5> QED BY <2>1, <2>2, <4>5, <5>2
      <4> QED BY <4>4, <4>5
    <3> QED BY <1>1, <1>4, <3>3, <3>7, <3>8, <3>9 DEF RebuildIs
  <2> QED BY <2>3, <2>4
<1>7. RebuildIs(d, list, c)
  BY <1>2, <1>3, <1>5, <1>6, RebuildFold!FoldLeftInduction
<1> QED BY <1>1, <1>4, <1>7 DEF RebuildIs

\* A node with other operands.
LEMMA NodeRewired ==
  ASSUME NEW n, NodeForm(n), NEW x, NEW k, k = [n EXCEPT !.inputs = x]
  PROVE  /\ NodeForm(k) /\ k.inputs = x
         /\ k.id = n.id /\ k.op = n.op /\ k.result = n.result /\ k.dead = n.dead
<1>1. n = [id |-> n.id, op |-> n.op, attr |-> n.attr, inputs |-> n.inputs,
           result |-> n.result, dead |-> n.dead]
  BY DEF NodeForm
<1>2. k = [id |-> n.id, op |-> n.op, attr |-> n.attr, inputs |-> x,
           result |-> n.result, dead |-> n.dead]
  BY <1>1
<1> QED BY <1>2 DEF NodeForm

\* replaceOperandUses: what it does to the nodes and the outputs, and the
\* lists that it rebuilds.
LEMMA TablesRewired ==
  ASSUME NEW g, TablesOK(g), NEW old, NEW new, old # new, NEW h, h = ReplaceOperandUses(g, old, new)
  PROVE  /\ GraphForm(h) /\ h.values = g.values /\ h.chain = g.chain /\ h.rep = g.rep
         /\ h.nodes = [n \in 1 .. Len(g.nodes) |-> Rewired(g.nodes[n], old, new)]
         /\ h.outputs = ReplaceAll(g.outputs, old, new)
         /\ h.users = [v \in 1 .. Len(g.values) |-> RebuiltFor(h.nodes, v)]
<1> DEFINE nodes == [n \in DOMAIN g.nodes |-> Rewired(g.nodes[n], old, new)]
           outputs == ReplaceAll(g.outputs, old, new)
<1>1. PICK b : b = [g EXCEPT !.nodes = nodes, !.outputs = outputs]
  OBVIOUS
<1> DEFINE users == [v \in DOMAIN b.values |-> RebuiltFor(b.nodes, v)]
<1>2. h = RebuildUsers(b)
  BY <1>1 DEF ReplaceOperandUses
<1>3. h = [b EXCEPT !.users = users]
  BY <1>2 DEF RebuildUsers, RebuiltFor
<1>4. DOMAIN g.nodes = 1 .. Len(g.nodes) /\ DOMAIN g.values = 1 .. Len(g.values)
  BY TableDomains
<1>5. g = [values |-> g.values, nodes |-> g.nodes, users |-> g.users, outputs |-> g.outputs,
           chain |-> g.chain, rep |-> g.rep]
  BY DEF TablesOK, GraphForm
<1>6. nodes = [n \in 1 .. Len(g.nodes) |-> Rewired(g.nodes[n], old, new)]
  BY <1>4, Zenon
<1> HIDE DEF nodes, outputs
<1>7. b = [values |-> g.values, nodes |-> nodes, users |-> g.users, outputs |-> outputs,
           chain |-> g.chain, rep |-> g.rep]
  BY <1>1, <1>5
<1>8. b.values = g.values /\ b.nodes = nodes
  BY <1>7
<1>9. users = [v \in 1 .. Len(g.values) |-> RebuiltFor(nodes, v)]
  BY <1>4, <1>8
<1> HIDE DEF users
<1>10. h = [values |-> g.values, nodes |-> nodes, users |-> users, outputs |-> outputs,
            chain |-> g.chain, rep |-> g.rep]
  BY <1>3, <1>7
<1>11. /\ h.values = g.values /\ h.chain = g.chain /\ h.nodes = nodes /\ h.outputs = outputs
       /\ h.users = users /\ h.rep = g.rep /\ GraphForm(h)
  BY <1>10 DEF GraphForm
<1>12. h.users = [v \in 1 .. Len(g.values) |-> RebuiltFor(h.nodes, v)]
  BY <1>9, <1>11
<1> QED BY <1>6, <1>11, <1>12, Zenon DEF outputs

\* It keeps the tables in agreement, and is all that the lists need.
LEMMA UsesReplaced ==
  ASSUME NEW g, GraphOK(g), NEW old, NEW new \in 1 .. Len(g.values),
         NEW h, h = ReplaceOperandUses(g, old, new)
  PROVE  /\ GraphOK(h)
         /\ Len(h.values) = Len(g.values) /\ Len(h.nodes) = Len(g.nodes)
         /\ \A n \in 1 .. Len(g.nodes) :
              /\ h.nodes[n].op = g.nodes[n].op /\ h.nodes[n].dead = g.nodes[n].dead
              /\ h.nodes[n].result = g.nodes[n].result
<1>1. CASE old = new
  <2>1. h = g
    BY <1>1 DEF ReplaceOperandUses
  <2> QED BY <2>1
<1>2. CASE old # new
  <2>1. PICK m, c : m = Len(g.values) /\ c = Len(g.nodes)
    OBVIOUS
  <2>2. /\ TablesOK(g) /\ m \in Nat /\ c \in Nat
        /\ \A n \in 1 .. c : NodeOver(g.nodes[n], m) /\ (~g.nodes[n].dead => g.nodes[n].id = n)
    BY <2>1, TableDomains DEF GraphOK, NodesOK
  <2>3. /\ GraphForm(h) /\ h.values = g.values /\ h.chain = g.chain
        /\ h.nodes = [n \in 1 .. c |-> Rewired(g.nodes[n], old, new)]
        /\ h.outputs = ReplaceAll(g.outputs, old, new)
        /\ h.users = [v \in 1 .. m |-> RebuiltFor(h.nodes, v)]
    BY <1>2, <2>1, <2>2, TablesRewired
  <2>4. ASSUME NEW s, IsSequence(s), \A k \in 1 .. Len(s) : s[k] \in 1 .. m
        PROVE  /\ IsSequence(ReplaceAll(s, old, new)) /\ Len(ReplaceAll(s, old, new)) = Len(s)
               /\ \A k \in 1 .. Len(s) : ReplaceAll(s, old, new)[k] \in 1 .. m
    <3>1. PICK t : t = ReplaceAll(s, old, new)
      OBVIOUS
    <3>2. t = [i \in 1 .. Len(s) |-> IF s[i] = old THEN new ELSE s[i]]
      BY <3>1 DEF ReplaceAll
    <3>3. IsSequence(t) /\ Len(t) = Len(s)
      BY <2>4, <3>2, FunctionIsSequence DEF IsSequence
    <3>4. \A k \in 1 .. Len(s) : t[k] \in 1 .. m
      BY <2>1, <2>4, <3>2
    <3> QED BY <3>1, <3>3, <3>4
  <2>5. IsSequence(h.nodes) /\ Len(h.nodes) = c
    BY <2>2, <2>3, FunctionIsSequence
  <2>6. ASSUME NEW n \in 1 .. c
        PROVE  /\ NodeOver(h.nodes[n], m)
               /\ h.nodes[n].op = g.nodes[n].op /\ h.nodes[n].dead = g.nodes[n].dead
               /\ h.nodes[n].result = g.nodes[n].result /\ h.nodes[n].id = g.nodes[n].id
    <3>1. CASE g.nodes[n].dead
      <4>1. h.nodes[n] = g.nodes[n]
        BY <2>3, <3>1 DEF Rewired
      <4> QED BY <2>2, <4>1
    <3>2. CASE ~g.nodes[n].dead
      <4> DEFINE x == ReplaceAll(g.nodes[n].inputs, old, new)
      <4>1. h.nodes[n] = [g.nodes[n] EXCEPT !.inputs = x]
        BY <2>3, <3>2 DEF Rewired
      <4>2. NodeOver(g.nodes[n], m)
        BY <2>2
      <4>3. /\ IsSequence(x) /\ Len(x) = Len(g.nodes[n].inputs)
            /\ \A k \in 1 .. Len(x) : x[k] \in 1 .. m
        BY <2>4, <4>2 DEF NodeOver
      <4> HIDE DEF x
      <4>4. /\ NodeForm(h.nodes[n]) /\ h.nodes[n].inputs = x
            /\ h.nodes[n].id = g.nodes[n].id /\ h.nodes[n].op = g.nodes[n].op
            /\ h.nodes[n].result = g.nodes[n].result /\ h.nodes[n].dead = g.nodes[n].dead
        BY <4>1, <4>2, NodeRewired DEF NodeOver
      <4> QED BY <4>2, <4>3, <4>4 DEF NodeOver
    <3> QED BY <3>1, <3>2
  <2>7. ASSUME NEW v \in 1 .. m
        PROVE  /\ IsSequence(h.users[v])
               /\ \A i \in 1 .. Len(h.users[v]) : h.users[v][i] \in 1 .. c
               /\ \A n \in 1 .. c : ~h.nodes[n].dead =>
                    Cardinality(Places(h.users[v], n)) = Cardinality(Uses(h.nodes[n], v))
    <3>1. h.users[v] = RebuiltFor(h.nodes, v)
      BY <2>3
    <3>2. \A n \in 1 .. c : IsSequence(h.nodes[n].inputs) /\ (~h.nodes[n].dead => h.nodes[n].id = n)
      BY <2>2, <2>6 DEF NodeOver
    <3> QED BY <2>5, <3>1, <3>2, RebuiltList
  <2>8. IsSequence(h.users) /\ Len(h.users) = m
    BY <2>2, <2>3, FunctionIsSequence
  <2>9. /\ IsSequence(h.outputs) /\ \A k \in 1 .. Len(h.outputs) : h.outputs[k] \in 1 .. m
    <3>1. IsSequence(g.outputs) /\ \A k \in 1 .. Len(g.outputs) : g.outputs[k] \in 1 .. m
      BY <2>1 DEF GraphOK, TablesOK, OutputsOK
    <3> QED BY <2>3, <2>4, <3>1
  <2>10. TablesOK(h)
    <3>1. IsSequence(h.values) /\ IsSequence(h.chain)
      BY <2>2, <2>3 DEF TablesOK
    <3> QED BY <2>1, <2>3, <2>5, <2>8, <2>9, <3>1 DEF TablesOK
  <2>11. ValuesOK(h) /\ NodesOK(h)
    BY <2>1, <2>2, <2>3, <2>5, <2>6 DEF GraphOK, ValuesOK, NodesOK
  <2>12. UsersOK(h) /\ UseCountsOK(h)
    BY <2>5, <2>7, <2>8 DEF UsersOK, UseCountsOK
  <2>13. OutputsOK(h)
    BY <2>1, <2>3, <2>9 DEF OutputsOK
  <2>14. ChainOK(h)
    <3>1. \A x : IsEffect(h, x) <=> IsEffect(g, x)
      BY <2>1, <2>5, <2>6 DEF IsEffect
    <3> QED BY <2>3, <3>1 DEF GraphOK, ChainOK
  <2> QED BY <2>1, <2>3, <2>5, <2>6, <2>10, <2>11, <2>12, <2>13, <2>14 DEF GraphOK
<1> QED BY <1>1, <1>2

\* recordEquivalent: the tables after it.
LEMMA EquivalentTables ==
  ASSUME NEW g, GraphForm(g), NEW old, NEW new, NEW h, h = RecordEquivalent(g, old, new)
  PROVE  /\ GraphForm(h) /\ h.values = g.values /\ h.nodes = g.nodes /\ h.users = g.users
         /\ h.outputs = g.outputs /\ h.chain = g.chain
         /\ DOMAIN h.rep = DOMAIN g.rep \union {old}
<1> DEFINE rep == [v \in DOMAIN g.rep \union {old} |-> IF v = old THEN new ELSE g.rep[v]]
<1>1. g = [values |-> g.values, nodes |-> g.nodes, users |-> g.users, outputs |-> g.outputs,
           chain |-> g.chain, rep |-> g.rep]
  BY DEF GraphForm
<1>2. h = [g EXCEPT !.rep = rep]
  BY DEF RecordEquivalent
<1>3. DOMAIN rep = DOMAIN g.rep \union {old}
  OBVIOUS
<1> HIDE DEF rep
<1>4. h = [values |-> g.values, nodes |-> g.nodes, users |-> g.users, outputs |-> g.outputs,
           chain |-> g.chain, rep |-> rep]
  BY <1>1, <1>2
<1>5. /\ h.values = g.values /\ h.nodes = g.nodes /\ h.users = g.users /\ h.outputs = g.outputs
      /\ h.chain = g.chain /\ h.rep = rep /\ GraphForm(h)
  BY <1>4 DEF GraphForm
<1> QED BY <1>3, <1>5

\* It touches nothing else.
LEMMA EquivalentRecorded ==
  ASSUME NEW g, GraphOK(g), NEW old, NEW new, NEW h, h = RecordEquivalent(g, old, new)
  PROVE  /\ GraphOK(h) /\ h.values = g.values /\ h.nodes = g.nodes
<1>1. GraphForm(g)
  BY DEF GraphOK, TablesOK
<1>2. /\ h.values = g.values /\ h.nodes = g.nodes /\ h.users = g.users /\ h.outputs = g.outputs
      /\ h.chain = g.chain /\ GraphForm(h)
  BY <1>1, EquivalentTables
<1>3. TablesOK(h)
  BY <1>2 DEF GraphOK, TablesOK
<1>4. ValuesOK(h) /\ NodesOK(h) /\ UsersOK(h) /\ OutputsOK(h)
  BY <1>2 DEF GraphOK, ValuesOK, NodesOK, UsersOK, OutputsOK
<1>5. UseCountsOK(h) /\ ChainOK(h)
  BY <1>2 DEF GraphOK, UseCountsOK, ChainOK, IsEffect
<1> QED BY <1>2, <1>3, <1>4, <1>5 DEF GraphOK

\* killNode: the tables after it. A pure node is not in the chain.
LEMMA TablesKilled ==
  ASSUME NEW g, GraphOK(g), NEW n \in 1 .. Len(g.nodes), ~Effectful(g.nodes[n].op),
         NEW h, h = KillNode(g, n)
  PROVE  /\ GraphForm(h) /\ h.values = g.values /\ h.chain = g.chain /\ h.outputs = g.outputs
         /\ h.users = g.users /\ h.rep = g.rep
         /\ IsSequence(h.nodes) /\ Len(h.nodes) = Len(g.nodes)
         /\ h.nodes[n] = [g.nodes[n] EXCEPT !.dead = TRUE]
         /\ \A k \in 1 .. Len(g.nodes) : k # n => h.nodes[k] = g.nodes[k]
<1>1. PICK c : c = Len(g.nodes)
  OBVIOUS
<1>2. c \in Nat /\ DOMAIN g.nodes = 1 .. c /\ IsSequence(g.nodes)
  BY <1>1, TableDomains DEF GraphOK, TablesOK
<1>3. RemoveFirst(g.chain, n) = g.chain
  <2>1. ~Holds(g.chain, n)
    BY DEF GraphOK, ChainOK, IsEffect
  <2> QED BY <2>1, Zenon DEF RemoveFirst, Holds
<1>4. g = [values |-> g.values, nodes |-> g.nodes, users |-> g.users, outputs |-> g.outputs,
           chain |-> g.chain, rep |-> g.rep]
  BY DEF GraphOK, TablesOK, GraphForm
<1> DEFINE node == [g.nodes[n] EXCEPT !.dead = TRUE]
           nodes == [g.nodes EXCEPT ![n] = node]
<1>5. h = [g EXCEPT !.nodes = nodes, !.chain = g.chain]
  BY <1>3 DEF KillNode
<1>6. /\ DOMAIN nodes = 1 .. c /\ nodes = [k \in DOMAIN nodes |-> nodes[k]]
      /\ nodes[n] = node /\ \A k \in 1 .. c : k # n => nodes[k] = g.nodes[k]
  <2> HIDE DEF node
  <2>1. g.nodes = [k \in 1 .. c |-> g.nodes[k]]
    BY <1>1, <1>2 DEF IsSequence
  <2> QED BY <1>1, <1>2, <2>1
<1>7. IsSequence(nodes) /\ Len(nodes) = c
  <2> HIDE DEF nodes
  <2> QED BY <1>2, <1>6, FunctionIsSequence
<1> HIDE DEF nodes
<1>8. h = [values |-> g.values, nodes |-> nodes, users |-> g.users, outputs |-> g.outputs,
           chain |-> g.chain, rep |-> g.rep]
  BY <1>4, <1>5
<1>9. /\ h.values = g.values /\ h.nodes = nodes /\ h.users = g.users /\ h.outputs = g.outputs
      /\ h.chain = g.chain /\ h.rep = g.rep /\ GraphForm(h)
  BY <1>8 DEF GraphForm
<1> HIDE DEF node
<1>10. /\ IsSequence(h.nodes) /\ Len(h.nodes) = Len(g.nodes)
       /\ h.nodes[n] = node
       /\ \A k \in 1 .. Len(g.nodes) : k # n => h.nodes[k] = g.nodes[k]
  BY <1>1, <1>6, <1>7, <1>9
<1> QED BY <1>9, <1>10 DEF node

\* The lists keep the dead node, which is no matter: it is not live.
LEMMA NodeKilled ==
  ASSUME NEW g, GraphOK(g), NEW n \in 1 .. Len(g.nodes), ~Effectful(g.nodes[n].op),
         NEW h, h = KillNode(g, n)
  PROVE  GraphOK(h) /\ Len(h.values) = Len(g.values) /\ Len(h.nodes) = Len(g.nodes)
<1>1. PICK m, c : m = Len(g.values) /\ c = Len(g.nodes)
  OBVIOUS
<1>2. /\ GraphForm(h) /\ h.values = g.values /\ h.chain = g.chain /\ h.outputs = g.outputs
      /\ h.users = g.users
      /\ IsSequence(h.nodes) /\ Len(h.nodes) = c
      /\ h.nodes[n] = [g.nodes[n] EXCEPT !.dead = TRUE]
      /\ \A k \in 1 .. c : k # n => h.nodes[k] = g.nodes[k]
  BY <1>1, TablesKilled
<1>3. \A k \in 1 .. c : NodeOver(g.nodes[k], m) /\ (~g.nodes[k].dead => g.nodes[k].id = k)
  BY <1>1 DEF GraphOK, NodesOK
<1>4. ASSUME NEW k \in 1 .. c
      PROVE  /\ NodeOver(h.nodes[k], m)
             /\ h.nodes[k].op = g.nodes[k].op /\ h.nodes[k].id = g.nodes[k].id
             /\ h.nodes[k].inputs = g.nodes[k].inputs
             /\ ~h.nodes[k].dead <=> ~g.nodes[k].dead /\ k # n
  <2>1. CASE k # n
    <3>1. h.nodes[k] = g.nodes[k]
      BY <2>1, <1>2
    <3> QED BY <2>1, <1>3, <3>1
  <2>2. CASE k = n
    <3>1. NodeOver(g.nodes[n], m)
      BY <1>1, <1>3
    <3>2. g.nodes[n] = [id |-> g.nodes[n].id, op |-> g.nodes[n].op, attr |-> g.nodes[n].attr,
                        inputs |-> g.nodes[n].inputs, result |-> g.nodes[n].result, dead |-> g.nodes[n].dead]
      BY <3>1 DEF NodeOver, NodeForm
    <3>3. h.nodes[n] = [id |-> g.nodes[n].id, op |-> g.nodes[n].op, attr |-> g.nodes[n].attr,
                        inputs |-> g.nodes[n].inputs, result |-> g.nodes[n].result, dead |-> TRUE]
      BY <1>2, <3>2
    <3>4. /\ NodeForm(h.nodes[n]) /\ h.nodes[n].dead = TRUE
          /\ h.nodes[n].op = g.nodes[n].op /\ h.nodes[n].id = g.nodes[n].id
          /\ h.nodes[n].inputs = g.nodes[n].inputs /\ h.nodes[n].result = g.nodes[n].result
      BY <3>3 DEF NodeForm
    <3>5. NodeOver(h.nodes[n], m)
      BY <3>1, <3>4 DEF NodeOver
    <3> QED BY <2>2, <3>4, <3>5
  <2> QED BY <2>1, <2>2
<1>5. TablesOK(h)
  BY <1>2 DEF GraphOK, TablesOK
<1>6. ValuesOK(h)
  BY <1>1, <1>2 DEF GraphOK, ValuesOK
<1>7. NodesOK(h)
  BY <1>1, <1>2, <1>3, <1>4 DEF NodesOK
<1>8. UsersOK(h) /\ OutputsOK(h)
  BY <1>1, <1>2 DEF GraphOK, UsersOK, OutputsOK
<1>9. UseCountsOK(h)
  <2>1. ASSUME NEW v \in 1 .. Len(h.users), NEW k \in 1 .. c, ~h.nodes[k].dead
        PROVE  Cardinality(Places(h.users[v], k)) = Cardinality(Uses(h.nodes[k], v))
    <3>1. k # n /\ ~g.nodes[k].dead
      BY <2>1, <1>4
    <3>2. h.nodes[k] = g.nodes[k]
      BY <3>1, <1>2
    <3> QED BY <1>1, <1>2, <3>1, <3>2 DEF GraphOK, UseCountsOK
  <2> QED BY <1>2, <2>1 DEF UseCountsOK
<1>10. ChainOK(h)
  <2>1. ASSUME NEW x PROVE IsEffect(h, x) <=> IsEffect(g, x)
    BY <1>1, <1>2, <1>4 DEF IsEffect
  <2> QED BY <1>2, <2>1 DEF GraphOK, ChainOK
<1> QED BY <1>1, <1>2, <1>5, <1>6, <1>7, <1>8, <1>9, <1>10 DEF GraphOK

-----------------------------------------------------------------------------
(***************************************************************************)
(* renumberTopological: the traversal.                                     *)
(***************************************************************************)

\* The ready nodes are the live ones that wait for nothing more, once each.
TraversalOK(g, s) ==
  /\ s = [ready |-> s.ready, pending |-> s.pending]
  /\ IsSequence(s.ready) /\ Distinct(s.ready)
  /\ s.pending = [n \in 1 .. Len(g.nodes) |-> s.pending[n]]
  /\ \A n \in 1 .. Len(g.nodes) : s.pending[n] \in Nat
  /\ \A x : Holds(s.ready, x) <=>
              x \in 1 .. Len(g.nodes) /\ ~g.nodes[x].dead /\ s.pending[x] = 0

\* Releasing one user of a placed node keeps the ready list and the pending
\* counts of the traversal in step.
LEMMA Released ==
  ASSUME NEW g, NEW s, TraversalOK(g, s), NEW user \in 1 .. Len(g.nodes),
         NEW t, t = Release(g, s, user)
  PROVE  TraversalOK(g, t)
<1>1. PICK c : c = Len(g.nodes)
  OBVIOUS
<1>2. /\ s = [ready |-> s.ready, pending |-> s.pending]
      /\ IsSequence(s.ready) /\ Distinct(s.ready)
      /\ s.pending = [n \in 1 .. c |-> s.pending[n]]
      /\ \A n \in 1 .. c : s.pending[n] \in Nat
      /\ \A x : Holds(s.ready, x) <=> x \in 1 .. c /\ ~g.nodes[x].dead /\ s.pending[x] = 0
  BY <1>1 DEF TraversalOK
<1>3. CASE g.nodes[user].dead \/ s.pending[user] = 0
  BY <1>3 DEF Release
<1>4. CASE ~g.nodes[user].dead /\ s.pending[user] # 0
  <2> DEFINE ready == IF s.pending[user] = 1 THEN Append(s.ready, user) ELSE s.ready
             pending == [s.pending EXCEPT ![user] = s.pending[user] - 1]
  <2>1. t = [ready |-> ready, pending |-> pending]
    BY <1>4 DEF Release
  <2>2. /\ pending = [n \in 1 .. c |-> pending[n]]
        /\ pending[user] = s.pending[user] - 1
        /\ \A n \in 1 .. c : n # user => pending[n] = s.pending[n]
    BY <1>1, <1>2
  <2> HIDE DEF ready, pending
  <2>3. t.ready = ready /\ t.pending = pending
    BY <2>1
  <2>4. s.pending[user] \in Nat \ {0}
    BY <1>1, <1>2, <1>4
  <2>5. \A n \in 1 .. c : pending[n] \in Nat
    <3>1. pending[user] \in Nat
      BY <2>2, <2>4
    <3> QED BY <1>2, <2>2, <3>1
  <2>6. ~Holds(s.ready, user)
    BY <1>2, <1>4
  <2>7. CASE s.pending[user] = 1
    <3>1. ready = Append(s.ready, user)
      BY <2>7 DEF ready
    <3>2. /\ \A y : Holds(ready, y) <=> Holds(s.ready, y) \/ y = user
          /\ IsSequence(ready) /\ Distinct(ready)
      <4>1. IsSequence(s.ready) /\ Distinct(s.ready)
        BY <1>2
      <4>2. IsSequence(ready)
        BY <3>1, <4>1, AppendIsSequence
      <4>3. /\ \A y : Holds(ready, y) <=> Holds(s.ready, y) \/ y = user
            /\ Distinct(s.ready) /\ ~Holds(s.ready, user) => Distinct(ready)
        <5>1. PICK old, new : old = s.ready /\ new = ready
          OBVIOUS
        <5>2. IsSequence(old) /\ new = Append(old, user)
          BY <3>1, <4>1, <5>1
        <5>3. /\ \A y : Holds(new, y) <=> Holds(old, y) \/ y = user
              /\ Distinct(old) /\ ~Holds(old, user) => Distinct(new)
          BY <5>2, AppendHolds
        <5> QED BY <5>1, <5>3
      <4> QED BY <2>6, <4>1, <4>2, <4>3
    <3>3. \A x : Holds(ready, x) <=> x \in 1 .. c /\ ~g.nodes[x].dead /\ pending[x] = 0
      <4>1. pending[user] = 0
        BY <2>2, <2>7
      <4> QED BY <1>1, <1>2, <1>4, <2>2, <3>2, <4>1, ZenonT(40)
    <3> QED BY <1>1, <2>1, <2>2, <2>3, <2>5, <3>2, <3>3 DEF TraversalOK
  <2>8. CASE s.pending[user] # 1
    <3>1. ready = s.ready
      BY <2>8 DEF ready
    <3>2. \A x : Holds(ready, x) <=> x \in 1 .. c /\ ~g.nodes[x].dead /\ pending[x] = 0
      <4>1. pending[user] # 0
        BY <2>2, <2>4, <2>8
      <4> QED BY <1>2, <2>2, <2>6, <3>1, <4>1
    <3> QED BY <1>1, <1>2, <2>1, <2>2, <2>3, <2>5, <3>1, <3>2 DEF TraversalOK
  <2> QED BY <2>7, <2>8
<1> QED BY <1>3, <1>4

\* The users of one value, released one after the other.
ReleaseIs(g, s, k) == TraversalOK(g, s)

ReleaseFold == INSTANCE InductionRules WITH Step <- Release, Inv <- ReleaseIs, Def <- NoDef, P <- NoP

ReleasedAll(g, s, users) == FoldLeft(LAMBDA t, user : Release(g, t, user), s, users)

\* So does releasing all users of a placed node.
LEMMA UsersReleased ==
  ASSUME NEW g, NEW s, TraversalOK(g, s), NEW users, IsSequence(users),
         \A k \in 1 .. Len(users) : users[k] \in 1 .. Len(g.nodes),
         NEW t, t = ReleasedAll(g, s, users)
  PROVE  TraversalOK(g, t)
<1>1. PICK n : n = Len(users)
  OBVIOUS
<1>2. n \in Nat /\ DOMAIN users = 1 .. n
  BY <1>1, SequenceOfItsItems DEF IsSequence
<1>3. t = ReleaseFold!Folded(g, s, users)
  BY DEF ReleasedAll, FoldLeft, MapThenFoldSet, Max, ReleaseFold!Folded, ReleaseFold!FoldTable
<1>4. ReleaseIs(g, s, 0)
  BY DEF ReleaseIs
<1>5. ASSUME NEW k \in 1 .. n, NEW a, ReleaseIs(g, a, k - 1)
      PROVE  ReleaseIs(g, Release(g, a, users[k]), k)
  BY <1>1, <1>5, Released DEF ReleaseIs
<1>6. ReleaseIs(g, t, n)
  BY <1>2, <1>3, <1>4, <1>5, ReleaseFold!FoldLeftInduction
<1> QED BY <1>6 DEF ReleaseIs

\* The traversal takes the ready nodes one after the other.
KahnDef(g, start, f, k) ==
  IF k = 0 THEN start
  ELSE LET s == f[k - 1]
       IN IF k > Len(s.ready) THEN s
          ELSE ReleasedAll(g, s, g.users[g.nodes[s.ready[k]].result])

KahnIs(g, start, f, k) == TraversalOK(g, f[k])

KahnRecursion == INSTANCE InductionRules WITH Def <- KahnDef, P <- KahnIs, Step <- NoStep, Inv <- NoInv

KahnStart(g) ==
  LET pending == [n \in DOMAIN g.nodes |-> PendingDeps(g, n)]
  IN [ready   |-> Within(TopoOrder(g), {n \in DOMAIN pending : pending[n] = 0}),
      pending |-> pending]

\* topoOrder: the live nodes.
LEMMA TopoOrderIs ==
  ASSUME NEW g, TablesOK(g), NEW t, t = TopoOrder(g)
  PROVE  /\ IsSequence(t) /\ Distinct(t)
         /\ \A x : Holds(t, x) <=> x \in 1 .. Len(g.nodes) /\ ~g.nodes[x].dead
<1>1. PICK c : c = Len(g.nodes)
  OBVIOUS
<1>2. PICK ids : ids = [n \in DOMAIN g.nodes |-> n]
  OBVIOUS
<1>3. IsSequence(g.nodes) /\ c \in Nat /\ DOMAIN g.nodes = 1 .. c
  BY <1>1, TableDomains DEF TablesOK
<1>4. IsSequence(ids) /\ Distinct(ids) /\ \A x : Holds(ids, x) <=> x \in 1 .. c
  BY <1>1, <1>2, <1>3, AllIds
<1>5. t = Within(ids, Live(g))
  BY <1>2 DEF TopoOrder
<1>6. /\ IsSequence(t) /\ Distinct(t)
      /\ \A x : Holds(t, x) <=> Holds(ids, x) /\ x \in Live(g)
  BY <1>4, <1>5, WithinSelects
<1> QED BY <1>1, <1>3, <1>4, <1>6 DEF Live

\* A node waits for a natural number of operands.
LEMMA PendingIsNat ==
  ASSUME NEW g, GraphOK(g), NEW n \in 1 .. Len(g.nodes)
  PROVE  PendingDeps(g, n) \in Nat
<1> DEFINE node == g.nodes[n]
           S == {k \in DOMAIN node.inputs : LiveProducer(g, node.inputs[k])}
<1>1. NodeOver(node, Len(g.values))
  BY DEF GraphOK, NodesOK
<1> HIDE DEF node
<1>2. IsFiniteSet(S)
  <2>1. IsSequence(node.inputs)
    BY <1>1 DEF NodeOver
  <2>2. Len(node.inputs) \in Nat /\ DOMAIN node.inputs = 1 .. Len(node.inputs)
    BY <2>1, SequenceOfItsItems DEF IsSequence
  <2>3. IsFiniteSet(1 .. Len(node.inputs))
    BY <2>2, RangeCounts
  <2>4. S \subseteq 1 .. Len(node.inputs)
    BY <2>2
  <2> QED BY <2>3, <2>4, FS_Subset
<1>3. Cardinality(S) \in Nat
  BY <1>2, FS_CardinalityType
<1> QED BY <1>3 DEF PendingDeps, node

\* At the start of the traversal the ready nodes are the live ones that wait
\* for nothing.
LEMMA StartIs ==
  ASSUME NEW g, GraphOK(g), NEW s, s = KahnStart(g)
  PROVE  TraversalOK(g, s)
<1>1. PICK c, topo : c = Len(g.nodes) /\ topo = TopoOrder(g)
  OBVIOUS
<1>2. TablesOK(g) /\ DOMAIN g.nodes = 1 .. c
  BY <1>1, TableDomains DEF GraphOK
<1>3. PICK pending : pending = [n \in 1 .. c |-> PendingDeps(g, n)]
  OBVIOUS
<1>4. PICK ready : ready = Within(topo, {n \in 1 .. c : pending[n] = 0})
  OBVIOUS
<1>5. s = [ready |-> ready, pending |-> pending]
  <2>1. pending = [n \in DOMAIN g.nodes |-> PendingDeps(g, n)] /\ DOMAIN pending = 1 .. c
    BY <1>2, <1>3
  <2> QED BY <2>1, <1>1, <1>4 DEF KahnStart
<1>6. /\ IsSequence(topo) /\ Distinct(topo)
      /\ \A x : Holds(topo, x) <=> x \in 1 .. c /\ ~g.nodes[x].dead
  BY <1>1, <1>2, TopoOrderIs
<1>7. /\ IsSequence(ready) /\ Distinct(ready)
      /\ \A x : Holds(ready, x) <=> Holds(topo, x) /\ x \in {n \in 1 .. c : pending[n] = 0}
  BY <1>4, <1>6, WithinSelects
<1>8. \A n \in 1 .. c : pending[n] \in Nat
  BY <1>1, <1>3, PendingIsNat
<1>9. s.ready = ready /\ s.pending = pending
  BY <1>5
<1>10. pending = [n \in 1 .. c |-> pending[n]]
  BY <1>3
<1>11. \A x : Holds(ready, x) <=> x \in 1 .. c /\ ~g.nodes[x].dead /\ pending[x] = 0
  BY <1>6, <1>7
<1> QED BY <1>1, <1>5, <1>7, <1>8, <1>9, <1>10, <1>11 DEF TraversalOK

\* What is placed: live nodes, once each.
LEMMA KahnOrderIs ==
  ASSUME NEW g, GraphOK(g), NEW order, order = KahnOrder(g)
  PROVE  /\ IsSequence(order) /\ Distinct(order)
         /\ \A x : Holds(order, x) => x \in 1 .. Len(g.nodes) /\ ~g.nodes[x].dead
<1>1. PICK count, start : count = Len(g.nodes) /\ start = KahnStart(g)
  OBVIOUS
<1> DEFINE placed == CHOOSE f : f = [k \in 0 .. count |-> KahnDef(g, start, f, k)]
<1>2. order = placed[count].ready
  BY <1>1, ZenonT(60) DEF KahnOrder, KahnStart, KahnDef, ReleasedAll
<1>3. count \in Nat /\ 0 \in Int /\ count \in Int /\ TablesOK(g)
  BY <1>1, TableDomains DEF GraphOK
<1>4. placed = CHOOSE f : f = [k \in 0 .. count |-> KahnDef(g, start, f, k)]
  OBVIOUS
<1> HIDE DEF placed
<1>5. placed = [k \in 0 .. count |-> KahnDef(g, start, placed, k)]
  <2>1. KahnRecursion!LookBack(g, start, 0, count)
    <3> SUFFICES ASSUME NEW k \in 0 .. count, NEW r, NEW t, \A j \in 0 .. k - 1 : r[j] = t[j]
                 PROVE  KahnDef(g, start, r, k) = KahnDef(g, start, t, k)
      BY DEF KahnRecursion!LookBack
    <3>1. k # 0 => r[k - 1] = t[k - 1]
      BY <1>3
    <3> QED BY <3>1 DEF KahnDef
  <2> QED BY <1>3, <1>4, <2>1, KahnRecursion!RecursionEquation
<1>6. ASSUME NEW k \in 0 .. count, \A j \in 0 .. k - 1 : KahnIs(g, start, placed, j)
      PROVE  KahnIs(g, start, placed, k)
  <2>1. placed[k] = KahnDef(g, start, placed, k)
    BY <1>5
  <2>2. CASE k = 0
    <3>1. placed[k] = start
      BY <2>1, <2>2 DEF KahnDef
    <3> QED BY <3>1, <1>1, StartIs DEF KahnIs
  <2>3. CASE k # 0
    <3>1. PICK s : s = placed[k - 1]
      OBVIOUS
    <3>2. TraversalOK(g, s)
      BY <1>3, <1>6, <2>3, <3>1, SMTT(30) DEF KahnIs
    <3>3. CASE k > Len(s.ready)
      BY <2>1, <2>3, <3>1, <3>2, <3>3 DEF KahnDef, KahnIs
    <3>4. CASE ~(k > Len(s.ready))
      <4>1. k \in 1 .. Len(s.ready)
        BY <1>3, <2>3, <3>2, <3>4 DEF TraversalOK, IsSequence
      <4>2. PICK n : n = s.ready[k]
        OBVIOUS
      <4>3. n \in 1 .. count
        BY <1>1, <3>2, <4>1, <4>2 DEF TraversalOK, Holds
      <4>4. PICK users : users = g.users[g.nodes[n].result]
        OBVIOUS
      <4>5. g.nodes[n].result \in 1 .. Len(g.users)
        BY <1>1, <4>3 DEF GraphOK, TablesOK, NodesOK, NodeOver
      <4>6. IsSequence(users) /\ \A i \in 1 .. Len(users) : users[i] \in 1 .. Len(g.nodes)
        BY <4>4, <4>5, SMTT(30) DEF GraphOK, UsersOK
      <4>7. placed[k] = ReleasedAll(g, s, users)
        BY <2>1, <2>3, <3>1, <3>4, <4>2, <4>4 DEF KahnDef
      <4> QED BY <3>2, <4>6, <4>7, UsersReleased DEF KahnIs
    <3> QED BY <3>3, <3>4
  <2> QED BY <2>2, <2>3
<1>7. \A k \in 0 .. count : KahnIs(g, start, placed, k)
  BY <1>3, <1>6, KahnRecursion!RecursionInduction
<1>8. TraversalOK(g, placed[count])
  BY <1>3, <1>7 DEF KahnIs
<1> QED BY <1>2, <1>8 DEF TraversalOK

-----------------------------------------------------------------------------
(***************************************************************************)
(* renumberTopological: the new order, in which dead nodes may stand twice *)
(* and live ones do not.                                                   *)
(***************************************************************************)

Once(s, x) == \A i, j \in 1 .. Len(s) : s[i] = x /\ s[j] = x => i = j

\* What stands once in one part and not in the other stands once in the whole.
LEMMA ConcatOnce ==
  ASSUME NEW s, IsSequence(s), NEW t, IsSequence(t), NEW x, Once(s, x), Once(t, x),
         ~(Holds(s, x) /\ Holds(t, x)), NEW u, u = s \o t
  PROVE  Once(u, x)
<1>1. PICK m, n : m = Len(s) /\ n = Len(t)
  OBVIOUS
<1>2. Len(u) = m + n /\ m \in Nat /\ n \in Nat /\ DOMAIN u = 1 .. m + n
  <2>1. m \in Nat /\ n \in Nat
    BY <1>1 DEF IsSequence
  <2>2. Len(u) = m + n
    BY <1>1, SequenceConcat
  <2>3. DOMAIN u = 1 .. m + n
    BY <1>1, SequenceConcat
  <2> QED BY <2>1, <2>2, <2>3
<1>3. /\ \A k \in 1 .. m : u[k] = s[k]
      /\ \A k \in 1 .. n : u[m + k] = t[k]
  BY <1>1, SequenceConcat
<1>4. ASSUME NEW k \in 1 .. m + n, u[k] = x
      PROVE  \/ k \in 1 .. m /\ s[k] = x /\ Holds(s, x)
             \/ k - m \in 1 .. n /\ t[k - m] = x /\ Holds(t, x)
  <2>1. CASE k \in 1 .. m
    BY <1>1, <1>3, <1>4, <2>1 DEF Holds
  <2>2. CASE k \notin 1 .. m
    <3>1. k - m \in 1 .. n /\ m + (k - m) = k
      BY <1>2, <2>2
    <3>2. t[k - m] = x
      BY <1>3, <1>4, <3>1
    <3> QED BY <1>1, <3>1, <3>2 DEF Holds
  <2> QED BY <2>1, <2>2
<1>5. ASSUME NEW i \in 1 .. m + n, NEW j \in 1 .. m + n, u[i] = x, u[j] = x PROVE i = j
  <2>1. CASE Holds(s, x)
    <3>1. i \in 1 .. m /\ s[i] = x /\ j \in 1 .. m /\ s[j] = x
      BY <1>4, <1>5, <2>1
    <3> QED BY <1>1, <3>1 DEF Once
  <2>2. CASE ~Holds(s, x)
    <3>1. i - m \in 1 .. n /\ t[i - m] = x /\ j - m \in 1 .. n /\ t[j - m] = x
      BY <1>4, <1>5, <2>2
    <3>2. i - m = j - m
      BY <1>1, <3>1 DEF Once
    <3> QED BY <1>2, <3>2
  <2> QED BY <2>1, <2>2
<1> QED BY <1>2, <1>5 DEF Once

\* Every node has its place, a live one no other.
OrderOK(g, order) ==
  /\ IsSequence(order)
  /\ \A x : Holds(order, x) <=> x \in 1 .. Len(g.nodes)
  /\ \A n \in 1 .. Len(g.nodes) : ~g.nodes[n].dead => Once(order, n)

\* The new order of a renumbering holds every node, and each live node once.
LEMMA NewOrderIs ==
  ASSUME NEW g, GraphOK(g), NEW order, order = NewOrder(g)
  PROVE  OrderOK(g, order)
<1>1. PICK c, ids, placed : c = Len(g.nodes) /\ ids = [n \in DOMAIN g.nodes |-> n] /\ placed = KahnOrder(g)
  OBVIOUS
<1>2. PICK dead, rest : dead = Within(ids, DOMAIN g.nodes \ Live(g))
                        /\ rest = Within(ids, DOMAIN g.nodes \ ToSet(placed))
  OBVIOUS
<1>3. PICK front : front = placed \o dead
  OBVIOUS
<1>4. order = front \o rest
  BY <1>1, <1>2, <1>3 DEF NewOrder
<1>5. IsSequence(g.nodes) /\ c \in Nat /\ DOMAIN g.nodes = 1 .. c
  BY <1>1, TableDomains DEF GraphOK, TablesOK
<1>6. IsSequence(ids) /\ Distinct(ids) /\ \A x : Holds(ids, x) <=> x \in 1 .. c
  BY <1>1, <1>5, AllIds
<1>7. /\ IsSequence(placed) /\ Distinct(placed)
      /\ \A x : Holds(placed, x) => x \in 1 .. c /\ ~g.nodes[x].dead
  BY <1>1, KahnOrderIs
<1>8. /\ IsSequence(dead) /\ Distinct(dead)
      /\ \A x : Holds(dead, x) <=> x \in 1 .. c /\ x \notin Live(g)
  <2>1. /\ IsSequence(dead) /\ Distinct(dead)
        /\ \A x : Holds(dead, x) <=> Holds(ids, x) /\ x \in DOMAIN g.nodes \ Live(g)
    BY <1>2, <1>6, WithinSelects
  <2> QED BY <1>5, <1>6, <2>1
<1>9. /\ IsSequence(rest) /\ Distinct(rest)
      /\ \A x : Holds(rest, x) <=> x \in 1 .. c /\ x \notin ToSet(placed)
  <2>1. /\ IsSequence(rest) /\ Distinct(rest)
        /\ \A x : Holds(rest, x) <=> Holds(ids, x) /\ x \in DOMAIN g.nodes \ ToSet(placed)
    BY <1>2, <1>6, WithinSelects
  <2> QED BY <1>5, <1>6, <2>1
<1>10. \A x : x \in ToSet(placed) <=> Holds(placed, x)
  BY <1>7, HoldsIsMember
<1>11. IsSequence(front) /\ \A y : Holds(front, y) <=> Holds(placed, y) \/ Holds(dead, y)
  BY <1>3, <1>7, <1>8, ConcatHolds
<1>12. IsSequence(order) /\ \A y : Holds(order, y) <=> Holds(front, y) \/ Holds(rest, y)
  BY <1>4, <1>9, <1>11, ConcatHolds
<1>13. \A x : Holds(order, x) <=> x \in 1 .. c
  BY <1>7, <1>8, <1>9, <1>10, <1>11, <1>12
<1>14. ASSUME NEW n \in 1 .. c, ~g.nodes[n].dead PROVE Once(order, n)
  <2>1. Once(placed, n) /\ Once(dead, n) /\ Once(rest, n)
    BY <1>7, <1>8, <1>9 DEF Distinct, Once
  <2>2. ~Holds(dead, n)
    BY <1>5, <1>8, <1>14 DEF Live
  <2>3. Once(front, n)
    BY <1>3, <1>7, <1>8, <2>1, <2>2, ConcatOnce
  <2>4. ~(Holds(front, n) /\ Holds(rest, n))
    BY <1>9, <1>10, <1>11, <2>2
  <2> QED BY <1>4, <1>9, <1>11, <2>1, <2>3, <2>4, ConcatOnce
<1> QED BY <1>1, <1>12, <1>13, <1>14 DEF OrderOK

\* The remap sends a node to one of its places, and a live node to its place.
RemapOK(g, order, to) ==
  /\ DOMAIN to = 1 .. Len(g.nodes)
  /\ \A n \in 1 .. Len(g.nodes) : to[n] \in 1 .. Len(order) /\ order[to[n]] = n
  /\ \A p \in 1 .. Len(order) : ~g.nodes[order[p]].dead => to[order[p]] = p

\* The table from old to new ids inverts the order on live nodes, so two live
\* nodes never share an id.
LEMMA RemapIs ==
  ASSUME NEW g, NEW order, OrderOK(g, order), NEW to, to = Remap(order)
  PROVE  RemapOK(g, order, to)
<1>1. PICK c, l : c = Len(g.nodes) /\ l = Len(order)
  OBVIOUS
<1>2. /\ IsSequence(order) /\ l \in Nat /\ DOMAIN order = 1 .. l
      /\ \A x : Holds(order, x) <=> x \in 1 .. c
  <2>1. IsSequence(order)
    BY DEF OrderOK
  <2> QED BY <1>1, <2>1, SequenceOfItsItems DEF OrderOK, IsSequence
<1>3. ToSet(order) = 1 .. c
  <2>1. \A x : x \in ToSet(order) <=> Holds(order, x)
    BY <1>2, HoldsIsMember
  <2> QED BY <1>2, <2>1
<1> DEFINE LastAt(n, p) == order[p] = n /\ \A q \in 1 .. l : order[q] = n => q <= p
<1>4. to = [n \in 1 .. c |-> CHOOSE p \in 1 .. l : LastAt(n, p)]
  BY <1>2, <1>3 DEF Remap
<1>5. ASSUME NEW n \in 1 .. c PROVE \E p \in 1 .. l : LastAt(n, p)
  <2>1. PICK S : S = {p \in 1 .. l : order[p] = n}
    OBVIOUS
  <2>2. S \in SUBSET (1 .. l) /\ S # {}
    BY <1>1, <1>2, <2>1 DEF Holds
  <2>3. PICK p : p \in S /\ \A k \in S : k <= p
    BY <1>2, <2>2, WithinFold!LastPosition
  <2> QED BY <2>1, <2>3
<1>6. ASSUME NEW n \in 1 .. c PROVE to[n] \in 1 .. l /\ LastAt(n, to[n])
  <2>1. to[n] = CHOOSE p \in 1 .. l : LastAt(n, p)
    BY <1>4
  <2> HIDE DEF LastAt
  <2> QED BY <1>5, <2>1
<1>7. \A n \in 1 .. c : to[n] \in 1 .. l /\ order[to[n]] = n
  BY <1>6
<1>8. ASSUME NEW p \in 1 .. l, ~g.nodes[order[p]].dead PROVE to[order[p]] = p
  <2>1. order[p] \in 1 .. c
    BY <1>1, <1>2 DEF Holds
  <2>2. Once(order, order[p])
    BY <1>1, <1>8, <2>1 DEF OrderOK
  <2> QED BY <1>1, <1>7, <2>1, <2>2 DEF Once
<1>9. DOMAIN to = 1 .. c
  BY <1>4
<1> QED BY <1>1, <1>7, <1>8, <1>9 DEF RemapOK

\* A value whose producer is renamed, and a node.
LEMMA ValueReproduced ==
  ASSUME NEW v, NEW c, ValueOver(v, c), NEW l, NEW to, \A n \in 1 .. c : to[n] \in 1 .. l,
         NEW w, w = Reproduced(v, to)
  PROVE  /\ ValueOver(w, l) /\ w.kind = v.kind /\ w.payload = v.payload
         /\ v.kind = "result" => w.producer = to[v.producer]
<1>1. v = [kind |-> v.kind, payload |-> v.payload, producer |-> v.producer]
  BY DEF ValueOver, ValueForm
<1>2. CASE v.kind = "result"
  <2>1. w = [v EXCEPT !.producer = to[v.producer]]
    BY <1>2 DEF Reproduced
  <2>2. w = [kind |-> v.kind, payload |-> v.payload, producer |-> to[v.producer]]
    BY <1>1, <2>1
  <2>3. w.kind = v.kind /\ w.payload = v.payload /\ w.producer = to[v.producer] /\ ValueForm(w)
    BY <2>2 DEF ValueForm
  <2> QED BY <1>2, <2>3 DEF ValueOver
<1>3. CASE v.kind # "result"
  <2>1. w = v
    BY <1>3 DEF Reproduced
  <2> QED BY <1>3, <2>1 DEF ValueOver
<1> QED BY <1>2, <1>3

\* A new id changes nothing else in a node.
LEMMA NodeRenamed ==
  ASSUME NEW n, NodeForm(n), NEW x, NEW k, k = [n EXCEPT !.id = x]
  PROVE  /\ NodeForm(k) /\ k.id = x
         /\ k.inputs = n.inputs /\ k.op = n.op /\ k.attr = n.attr /\ k.result = n.result /\ k.dead = n.dead
<1>1. n = [id |-> n.id, op |-> n.op, attr |-> n.attr, inputs |-> n.inputs,
           result |-> n.result, dead |-> n.dead]
  BY DEF NodeForm
<1>2. k = [id |-> x, op |-> n.op, attr |-> n.attr, inputs |-> n.inputs,
           result |-> n.result, dead |-> n.dead]
  BY <1>1
<1> QED BY <1>2 DEF NodeForm

\* h is g with its nodes in the given order, under their new ids.
TablesMoved(g, order, to, h) ==
  /\ GraphForm(h) /\ h.outputs = g.outputs
  /\ h.nodes = [p \in 1 .. Len(order) |-> [g.nodes[order[p]] EXCEPT !.id = to[order[p]]]]
  /\ h.values = [v \in 1 .. Len(g.values) |-> Reproduced(g.values[v], to)]
  /\ h.users = [v \in 1 .. Len(g.values) |-> [k \in DOMAIN g.users[v] |-> to[g.users[v][k]]]]
  /\ h.chain = [k \in 1 .. Len(g.chain) |-> to[g.chain[k]]]

\* renumberTopological: the tables after it, if anything moves.
LEMMA TablesRenumbered ==
  ASSUME NEW g, GraphOK(g), NEW order, OrderOK(g, order), order = NewOrder(g),
         NEW to, to = Remap(order), RemapOK(g, order, to),
         NEW h, h = RenumberTopological(g), \E n \in DOMAIN to : to[n] # n
  PROVE  TablesMoved(g, order, to, h)
<1> DEFINE nodes  == [p \in DOMAIN order |-> [g.nodes[order[p]] EXCEPT !.id = to[order[p]]]]
           values == [v \in DOMAIN g.values |-> Reproduced(g.values[v], to)]
           users  == [v \in DOMAIN g.users |-> [k \in DOMAIN g.users[v] |-> to[g.users[v][k]]]]
           chain  == [k \in DOMAIN g.chain |-> to[g.chain[k]]]
<1>1. h = [g EXCEPT !.nodes = nodes, !.values = values, !.users = users, !.chain = chain]
  BY DEF RenumberTopological
<1>2. /\ DOMAIN g.values = 1 .. Len(g.values) /\ DOMAIN g.users = 1 .. Len(g.values)
      /\ DOMAIN g.chain = 1 .. Len(g.chain) /\ DOMAIN order = 1 .. Len(order)
  <2>1. IsSequence(order)
    BY DEF OrderOK
  <2>2. DOMAIN order = 1 .. Len(order)
    BY <2>1, SequenceOfItsItems
  <2>3. TablesOK(g)
    BY DEF GraphOK
  <2> QED BY <2>2, <2>3, TableDomains
<1>3. g = [values |-> g.values, nodes |-> g.nodes, users |-> g.users, outputs |-> g.outputs,
           chain |-> g.chain, rep |-> g.rep]
  BY DEF GraphOK, TablesOK, GraphForm
<1>4. nodes = [p \in 1 .. Len(order) |-> [g.nodes[order[p]] EXCEPT !.id = to[order[p]]]]
  BY <1>2, Zenon
<1>5. values = [v \in 1 .. Len(g.values) |-> Reproduced(g.values[v], to)]
  BY <1>2, Zenon
<1>6. users = [v \in 1 .. Len(g.values) |-> [k \in DOMAIN g.users[v] |-> to[g.users[v][k]]]]
  BY <1>2, Zenon
<1>7. chain = [k \in 1 .. Len(g.chain) |-> to[g.chain[k]]]
  BY <1>2, Zenon
<1> HIDE DEF nodes, values, users, chain
<1>8. h = [values |-> values, nodes |-> nodes, users |-> users, outputs |-> g.outputs,
           chain |-> chain, rep |-> g.rep]
  BY <1>1, <1>3
<1>9. /\ h.values = values /\ h.nodes = nodes /\ h.users = users /\ h.outputs = g.outputs
      /\ h.chain = chain /\ GraphForm(h)
  BY <1>8 DEF GraphForm
<1>10. /\ GraphForm(h) /\ h.outputs = g.outputs
       /\ h.nodes = [p \in 1 .. Len(order) |-> [g.nodes[order[p]] EXCEPT !.id = to[order[p]]]]
       /\ h.values = [v \in 1 .. Len(g.values) |-> Reproduced(g.values[v], to)]
       /\ h.users = [v \in 1 .. Len(g.values) |-> [k \in DOMAIN g.users[v] |-> to[g.users[v][k]]]]
       /\ h.chain = [k \in 1 .. Len(g.chain) |-> to[g.chain[k]]]
  BY <1>4, <1>5, <1>6, <1>7, <1>9, Zenon
<1> QED BY <1>10, Zenon DEF TablesMoved

\* Renumbering keeps the tables in agreement.
LEMMA Renumbered ==
  ASSUME NEW g, GraphOK(g), NEW h, h = RenumberTopological(g)
  PROVE  GraphOK(h)
<1>1. CASE h = g
  BY <1>1
<1>2. CASE h # g
  <2>1. PICK order, to : order = NewOrder(g) /\ to = Remap(order)
    OBVIOUS
  <2>2. OrderOK(g, order)
    BY <2>1, NewOrderIs
  <2>3. RemapOK(g, order, to)
    BY <2>1, <2>2, RemapIs
  <2>4. PICK m, c, l : m = Len(g.values) /\ c = Len(g.nodes) /\ l = Len(order)
    OBVIOUS
  <2>5. /\ GraphForm(h) /\ h.outputs = g.outputs
        /\ h.nodes = [p \in 1 .. l |-> [g.nodes[order[p]] EXCEPT !.id = to[order[p]]]]
        /\ h.values = [v \in 1 .. m |-> Reproduced(g.values[v], to)]
        /\ h.users = [v \in 1 .. m |-> [k \in DOMAIN g.users[v] |-> to[g.users[v][k]]]]
        /\ h.chain = [k \in 1 .. Len(g.chain) |-> to[g.chain[k]]]
    <3>1. TablesMoved(g, order, to, h)
      <4>1. \E n \in DOMAIN to : to[n] # n
        BY <1>2, <2>1 DEF RenumberTopological
      <4> QED BY <2>1, <2>2, <2>3, <4>1, TablesRenumbered
    <3> QED BY <2>4, <3>1 DEF TablesMoved
  <2>6. /\ TablesOK(g) /\ m \in Nat /\ c \in Nat /\ Len(g.chain) \in Nat /\ Len(g.users) = m
        /\ DOMAIN g.chain = 1 .. Len(g.chain)
        /\ IsSequence(order) /\ l \in Nat
    <3>1. TablesOK(g) /\ IsSequence(order)
      BY <2>2 DEF GraphOK, OrderOK
    <3>2. m \in Nat /\ c \in Nat /\ Len(g.chain) \in Nat /\ Len(g.users) = m
          /\ DOMAIN g.chain = 1 .. Len(g.chain)
      BY <2>4, <3>1, TableDomains
    <3> QED BY <2>4, <3>1, <3>2 DEF IsSequence
  <2>7. /\ \A n \in 1 .. c : to[n] \in 1 .. l /\ order[to[n]] = n
        /\ \A p \in 1 .. l : order[p] \in 1 .. c
        /\ \A p \in 1 .. l : ~g.nodes[order[p]].dead => to[order[p]] = p
    BY <2>2, <2>3, <2>4 DEF OrderOK, RemapOK, Holds
  <2>8. ASSUME NEW p \in 1 .. l
        PROVE  /\ NodeOver(h.nodes[p], m)
               /\ h.nodes[p].id = to[order[p]] /\ h.nodes[p].op = g.nodes[order[p]].op
               /\ h.nodes[p].inputs = g.nodes[order[p]].inputs
               /\ h.nodes[p].dead = g.nodes[order[p]].dead
    <3>1. PICK n : n = order[p]
      OBVIOUS
    <3>2. NodeOver(g.nodes[n], m)
      BY <2>4, <2>7, <3>1 DEF GraphOK, NodesOK
    <3>3. h.nodes[p] = [g.nodes[n] EXCEPT !.id = to[n]]
      BY <2>5, <3>1
    <3>4. NodeForm(g.nodes[n])
      BY <3>2 DEF NodeOver
    <3>5. /\ NodeForm(h.nodes[p]) /\ h.nodes[p].id = to[n]
          /\ h.nodes[p].inputs = g.nodes[n].inputs /\ h.nodes[p].op = g.nodes[n].op
          /\ h.nodes[p].result = g.nodes[n].result /\ h.nodes[p].dead = g.nodes[n].dead
      BY <3>3, <3>4, NodeRenamed
    <3>6. NodeOver(h.nodes[p], m)
      BY <3>2, <3>5 DEF NodeOver
    <3> QED BY <3>1, <3>5, <3>6
  <2>9. IsSequence(h.nodes) /\ Len(h.nodes) = l
    BY <2>5, <2>6, FunctionIsSequence
  <2>10. IsSequence(h.values) /\ Len(h.values) = m
    BY <2>5, <2>6, FunctionIsSequence
  <2>11. IsSequence(h.users) /\ Len(h.users) = m
    BY <2>5, <2>6, FunctionIsSequence
  <2>12. IsSequence(h.chain) /\ Len(h.chain) = Len(g.chain)
    <3>1. PICK new, n : new = h.chain /\ n = Len(g.chain)
      OBVIOUS
    <3>2. n \in Nat /\ DOMAIN new = 1 .. n /\ new = [k \in DOMAIN new |-> new[k]]
      BY <2>5, <2>6, <3>1
    <3>3. IsSequence(new) /\ Len(new) = n
      BY <3>2, FunctionIsSequence
    <3> QED BY <3>1, <3>3
  <2>13. TablesOK(h)
    <3>1. IsSequence(h.outputs)
      BY <2>5, <2>6 DEF TablesOK
    <3> QED BY <2>5, <2>9, <2>10, <2>11, <2>12, <3>1 DEF TablesOK
  <2>14. ValuesOK(h)
    <3>1. ASSUME NEW v \in 1 .. m PROVE ValueOver(h.values[v], l)
      <4>1. ValueOver(g.values[v], c)
        BY <2>4 DEF GraphOK, ValuesOK
      <4>2. h.values[v] = Reproduced(g.values[v], to)
        BY <2>5
      <4> QED BY <2>7, <4>1, <4>2, ValueReproduced
    <3> QED BY <2>9, <2>10, <3>1 DEF ValuesOK
  <2>15. NodesOK(h)
    BY <2>7, <2>8, <2>9, <2>10, SMTT(30) DEF NodesOK
  <2>16. ASSUME NEW v \in 1 .. m
         PROVE  /\ IsSequence(h.users[v])
                /\ \A k \in 1 .. Len(h.users[v]) : h.users[v][k] \in 1 .. l
                /\ \A p \in 1 .. l : ~h.nodes[p].dead =>
                     Cardinality(Places(h.users[v], p)) = Cardinality(Uses(h.nodes[p], v))
    <3>1. PICK s, t : s = g.users[v] /\ t = h.users[v]
      OBVIOUS
    <3>2. t = [k \in DOMAIN s |-> to[s[k]]]
      BY <2>5, <3>1
    <3>3. IsSequence(s) /\ \A k \in 1 .. Len(s) : s[k] \in 1 .. c
      BY <2>4, <2>6, <3>1 DEF GraphOK, UsersOK
    <3>4. DOMAIN s = 1 .. Len(s) /\ Len(s) \in Nat
      BY <3>3, SequenceOfItsItems DEF IsSequence
    <3>5. IsSequence(t) /\ Len(t) = Len(s)
      BY <3>2, <3>4, FunctionIsSequence
    <3>6. \A k \in 1 .. Len(t) : t[k] \in 1 .. l
      BY <2>7, <3>2, <3>3, <3>4, <3>5
    <3>7. ASSUME NEW p \in 1 .. l, ~h.nodes[p].dead
          PROVE  Cardinality(Places(t, p)) = Cardinality(Uses(h.nodes[p], v))
      <4>1. PICK n : n = order[p]
        OBVIOUS
      <4>2. n \in 1 .. c /\ ~g.nodes[n].dead /\ to[n] = p /\ h.nodes[p].inputs = g.nodes[n].inputs
        BY <2>7, <2>8, <3>7, <4>1
      <4>3. \A k \in DOMAIN s : to[s[k]] = p <=> s[k] = n
        BY <2>7, <3>3, <3>4, <4>1, <4>2
      <4>4. Places(t, p) = Places(s, n)
        BY <3>2, <4>3, RenamedCount
      <4>5. Cardinality(Places(s, n)) = Cardinality(Uses(g.nodes[n], v))
        BY <2>4, <2>6, <3>1, <4>2 DEF GraphOK, UseCountsOK
      <4>6. Uses(h.nodes[p], v) = Uses(g.nodes[n], v)
        BY <4>2 DEF Uses
      <4> QED BY <4>4, <4>5, <4>6
    <3> QED BY <3>1, <3>5, <3>6, <3>7
  <2>17. UsersOK(h) /\ UseCountsOK(h)
    BY <2>9, <2>11, <2>16 DEF UsersOK, UseCountsOK
  <2>18. OutputsOK(h)
    BY <2>4, <2>5, <2>10 DEF GraphOK, OutputsOK
  <2>19. ChainOK(h)
    <3>1. /\ \A x : Holds(g.chain, x) <=> IsEffect(g, x)
          /\ Distinct(g.chain)
      BY DEF GraphOK, ChainOK
    <3>2. \A k \in 1 .. Len(g.chain) : h.chain[k] = to[g.chain[k]] /\ IsEffect(g, g.chain[k])
      BY <2>5, <3>1 DEF Holds
    <3>3. ASSUME NEW x PROVE Holds(h.chain, x) => IsEffect(h, x)
      <4> SUFFICES ASSUME NEW k \in 1 .. Len(g.chain), h.chain[k] = x PROVE IsEffect(h, x)
        BY <2>12 DEF Holds
      <4>1. PICK n : n = g.chain[k]
        OBVIOUS
      <4>2. n \in 1 .. c /\ ~g.nodes[n].dead /\ Effectful(g.nodes[n].op) /\ x = to[n]
        BY <2>4, <3>2, <4>1 DEF IsEffect
      <4> QED BY <2>7, <2>8, <2>9, <4>2, SMTT(30) DEF IsEffect
    <3>4. ASSUME NEW x, IsEffect(h, x) PROVE Holds(h.chain, x)
      <4>1. x \in 1 .. l /\ ~h.nodes[x].dead /\ Effectful(h.nodes[x].op)
        BY <2>9, <3>4 DEF IsEffect
      <4>2. PICK n : n = order[x]
        OBVIOUS
      <4>3. IsEffect(g, n) /\ to[n] = x
        BY <2>4, <2>7, <2>8, <4>1, <4>2 DEF IsEffect
      <4>4. PICK k \in 1 .. Len(g.chain) : g.chain[k] = n
        BY <3>1, <4>3 DEF Holds
      <4> QED BY <2>12, <3>2, <4>3, <4>4 DEF Holds
    <3>5. ASSUME NEW i \in 1 .. Len(h.chain), NEW j \in 1 .. Len(h.chain), h.chain[i] = h.chain[j]
          PROVE  i = j
      <4>1. g.chain[i] \in 1 .. c /\ g.chain[j] \in 1 .. c /\ to[g.chain[i]] = to[g.chain[j]]
        BY <2>4, <2>12, <3>2, <3>5 DEF IsEffect
      <4>2. g.chain[i] = g.chain[j]
        BY <2>7, <4>1
      <4> QED BY <2>12, <3>1, <4>2 DEF Distinct
    <3> QED BY <3>3, <3>4, <3>5 DEF ChainOK, Distinct
  <2> QED BY <2>13, <2>14, <2>15, <2>17, <2>18, <2>19 DEF GraphOK
<1> QED BY <1>1, <1>2

-----------------------------------------------------------------------------
(***************************************************************************)
(* The rewrites.                                                           *)
(***************************************************************************)

\* What a rewrite of g must give: g with what was appended, and a value of it.
RewriteOK(g, r) ==
  GraphOK(r.graph) /\ Grown(g, r.graph) /\ r.value \in 1 .. Len(r.graph.values)

\* Replacing a result by an existing value edits no table.
LEMMA KeepOK ==
  ASSUME NEW g, GraphOK(g), NEW v \in 1 .. Len(g.values), NEW r \in Keep(g, v)
  PROVE  RewriteOK(g, r)
<1>1. r.graph = g /\ r.value = v
  BY DEF Keep
<1>2. Len(g.values) \in Nat /\ Len(g.nodes) \in Nat
  BY TableDomains DEF GraphOK
<1>3. Grown(g, g)
  BY <1>2 DEF Grown
<1> QED BY <1>1, <1>3 DEF RewriteOK

\* What grows in two steps has grown.
LEMMA GrownTwice ==
  ASSUME NEW g, GraphOK(g), NEW h, GraphOK(h), NEW l, GraphOK(l), Grown(g, h), Grown(h, l)
  PROVE  Grown(g, l)
<1>1. /\ Len(g.values) \in Nat /\ Len(g.nodes) \in Nat /\ Len(h.values) \in Nat /\ Len(h.nodes) \in Nat
      /\ Len(l.values) \in Nat /\ Len(l.nodes) \in Nat
  BY TableDomains DEF GraphOK
<1> QED BY <1>1 DEF Grown

\* A graph that has grown by a leaf or a node, whose value takes over.
LEMMA AppendedOK ==
  ASSUME NEW g, NEW h, GraphOK(h), Grown(g, h), NEW n \in Nat, Len(h.values) = n + 1,
         NEW r \in Appended(h)
  PROVE  RewriteOK(g, r)
<1>1. r.graph = h /\ r.value = Len(h.values)
  BY DEF Appended, NewestValue
<1>2. Len(h.values) \in 1 .. Len(h.values)
  OBVIOUS
<1> QED BY <1>1, <1>2 DEF RewriteOK

\* A new constant (addConstant) keeps the invariant and existing ids.
LEMMA ConstantAdded ==
  ASSUME NEW g, GraphOK(g), NEW c, NEW h, h = AddConstant(g, c)
  PROVE  /\ GraphOK(h) /\ Grown(g, h) /\ Len(h.values) = Len(g.values) + 1
         /\ Len(g.values) \in Nat
<1>1. PICK v : v = Value("constant", c, 0)
  OBVIOUS
<1>2. ValueForm(v) /\ v.kind # "result" /\ h = AllocateValue(g, v)
  <2>1. v = [kind |-> "constant", payload |-> c, producer |-> 0]
    BY <1>1 DEF Value
  <2>2. v.kind = "constant" /\ v.payload = c /\ v.producer = 0
    BY <2>1
  <2> QED BY <1>1, <2>1, <2>2 DEF ValueForm, AddConstant
<1>3. GraphOK(h) /\ Grown(g, h) /\ Len(h.values) = Len(g.values) + 1
  BY <1>2, LeafAdded
<1>4. Len(g.values) \in Nat
  BY TableDomains DEF GraphOK
<1> QED BY <1>3, <1>4

\* A unary node over a value of the graph, and a binary one over two.
LEMMA UnaryAdded ==
  ASSUME NEW g, GraphOK(g), NEW op, ~Binary(op), NEW a \in 1 .. Len(g.values),
         NEW attr, NEW h, h = AddNode(g, op, <<a>>, attr)
  PROVE  GraphOK(h) /\ Grown(g, h) /\ Len(h.values) = Len(g.values) + 1 /\ Len(g.values) \in Nat
<1>1. PICK inputs : inputs = <<a>>
  OBVIOUS
<1>2. Len(inputs) = 1 /\ inputs[1] = a /\ DOMAIN inputs = 1 .. 1 /\ inputs = [k \in 1 .. 1 |-> inputs[k]]
  BY <1>1
<1>3. IsSequence(inputs)
  BY <1>2, FunctionIsSequence
<1>4. \A k \in 1 .. Len(inputs) : inputs[k] \in 1 .. Len(g.values)
  BY <1>2
<1> QED BY <1>1, <1>2, <1>3, <1>4, NodeAdded

\* So does a new operation on two existing values.
LEMMA BinaryAdded ==
  ASSUME NEW g, GraphOK(g), NEW op, Binary(op), NEW a \in 1 .. Len(g.values),
         NEW b \in 1 .. Len(g.values), NEW attr, NEW h, h = AddNode(g, op, <<a, b>>, attr)
  PROVE  GraphOK(h) /\ Grown(g, h) /\ Len(h.values) = Len(g.values) + 1 /\ Len(g.values) \in Nat
<1>1. PICK inputs : inputs = <<a, b>>
  OBVIOUS
<1>2. /\ Len(inputs) = 2 /\ inputs[1] = a /\ inputs[2] = b
      /\ DOMAIN inputs = 1 .. 2 /\ inputs = [k \in 1 .. 2 |-> inputs[k]]
  BY <1>1
<1>3. IsSequence(inputs)
  BY <1>2, FunctionIsSequence
<1>4. \A k \in 1 .. Len(inputs) : inputs[k] \in 1 .. Len(g.values)
  BY <1>2
<1> QED BY <1>1, <1>2, <1>3, <1>4, NodeAdded, SMTT(30)

\* The operands of a node: a second one where the operation has two.
LEMMA OperandsExist ==
  ASSUME NEW g, GraphOK(g), NEW n \in 1 .. Len(g.nodes)
  PROVE  /\ Operand(g, n, 1) \in 1 .. Len(g.values)
         /\ Binary(g.nodes[n].op) => Operand(g, n, 2) \in 1 .. Len(g.values)
         /\ g.nodes[n].result \in 1 .. Len(g.values)
<1>1. NodeOver(g.nodes[n], Len(g.values))
  BY DEF GraphOK, NodesOK
<1>2. /\ Len(g.nodes[n].inputs) = IF Binary(g.nodes[n].op) THEN 2 ELSE 1
      /\ \A k \in 1 .. Len(g.nodes[n].inputs) : g.nodes[n].inputs[k] \in 1 .. Len(g.values)
      /\ g.nodes[n].result \in 1 .. Len(g.values)
  BY <1>1 DEF NodeOver
<1> QED BY <1>2 DEF Operand

\* A square written as a product is a rewrite that keeps the invariant.
LEMMA NormalizeOpsOK ==
  ASSUME NEW g, GraphOK(g), NEW n \in 1 .. Len(g.nodes), NEW r \in NormalizeOps(g, n)
  PROVE  RewriteOK(g, r)
<1>1. PICK x, h : x = Operand(g, n, 1) /\ h = AddNode(g, "mul", <<x, x>>, 0)
  OBVIOUS
<1>2. r \in Appended(h)
  BY <1>1 DEF NormalizeOps
<1>3. x \in 1 .. Len(g.values) /\ Binary("mul")
  BY <1>1, OperandsExist DEF Binary
<1>4. GraphOK(h) /\ Grown(g, h) /\ Len(h.values) = Len(g.values) + 1 /\ Len(g.values) \in Nat
  BY <1>1, <1>3, BinaryAdded
<1> QED BY <1>2, <1>4, AppendedOK

\* So is a folded constant.
LEMMA ConstantFoldOK ==
  ASSUME NEW g, GraphOK(g), NEW n, NEW r \in ConstantFold(g, n)
  PROVE  RewriteOK(g, r)
<1>1. PICK c : r \in Appended(AddConstant(g, c))
  BY DEF ConstantFold
<1>2. PICK h : h = AddConstant(g, c)
  OBVIOUS
<1>3. GraphOK(h) /\ Grown(g, h) /\ Len(h.values) = Len(g.values) + 1 /\ Len(g.values) \in Nat
  BY <1>2, ConstantAdded
<1> QED BY <1>1, <1>2, <1>3, AppendedOK

\* So is the removal of a neutral operand.
LEMMA IdentityElimOK ==
  ASSUME NEW g, GraphOK(g), NEW n \in 1 .. Len(g.nodes), NEW r \in IdentityElim(g, n)
  PROVE  RewriteOK(g, r)
<1>1. Binary(g.nodes[n].op) /\ (r \in Keep(g, Operand(g, n, 1)) \/ r \in Keep(g, Operand(g, n, 2)))
  BY DEF IdentityElim, Binary
<1>2. Operand(g, n, 1) \in 1 .. Len(g.values) /\ Operand(g, n, 2) \in 1 .. Len(g.values)
  BY <1>1, OperandsExist
<1> QED BY <1>1, <1>2, KeepOK

\* So is a simplification: an operand, a negation, or what a double negation
\* negates.
LEMMA AlgebraicSimplifyOK ==
  ASSUME NEW g, GraphOK(g), NEW n \in 1 .. Len(g.nodes), NEW r \in AlgebraicSimplify(g, n)
  PROVE  RewriteOK(g, r)
<1>1. PICK x : x = Operand(g, n, 1)
  OBVIOUS
<1>2. x \in 1 .. Len(g.values)
  BY <1>1, OperandsExist
<1>3. \/ r \in Keep(g, x)
      \/ r \in Appended(AddNode(g, "neg", <<x>>, 0))
      \/ /\ LiveProducer(g, x) /\ r \in Keep(g, Operand(g, g.values[x].producer, 1))
  BY <1>1 DEF AlgebraicSimplify
<1>4. CASE r \in Keep(g, x)
  BY <1>2, <1>4, KeepOK
<1>5. CASE r \in Appended(AddNode(g, "neg", <<x>>, 0))
  <2>1. PICK h : h = AddNode(g, "neg", <<x>>, 0)
    OBVIOUS
  <2>2. ~Binary("neg")
    BY DEF Binary
  <2>3. GraphOK(h) /\ Grown(g, h) /\ Len(h.values) = Len(g.values) + 1 /\ Len(g.values) \in Nat
    BY <1>2, <2>1, <2>2, UnaryAdded
  <2> QED BY <1>5, <2>1, <2>3, AppendedOK
<1>6. CASE LiveProducer(g, x) /\ r \in Keep(g, Operand(g, g.values[x].producer, 1))
  <2>1. g.values[x].producer \in 1 .. Len(g.nodes)
    BY <1>2, <1>6 DEF LiveProducer, GraphOK, ValuesOK, ValueOver
  <2>2. Operand(g, g.values[x].producer, 1) \in 1 .. Len(g.values)
    BY <2>1, OperandsExist
  <2> QED BY <1>6, <2>2, KeepOK
<1> QED BY <1>3, <1>4, <1>5, <1>6

\* So is a division turned into a product by the inverse constant.
LEMMA StrengthReduceOK ==
  ASSUME NEW g, GraphOK(g), NEW n \in 1 .. Len(g.nodes), NEW r \in StrengthReduce(g, n)
  PROVE  RewriteOK(g, r)
<1>1. PICK x, h : x = Operand(g, n, 1) /\ h = AddConstant(g, Inverted(g.values[Operand(g, n, 2)].payload))
  OBVIOUS
<1>2. PICK y, l : y = NewestValue(h) /\ l = AddNode(h, "mul", <<x, y>>, 0)
  OBVIOUS
<1>3. r \in Appended(l)
  BY <1>1, <1>2 DEF StrengthReduce
<1>4. GraphOK(h) /\ Grown(g, h) /\ Len(h.values) = Len(g.values) + 1 /\ Len(g.values) \in Nat
  BY <1>1, ConstantAdded
<1>5. x \in 1 .. Len(h.values) /\ y \in 1 .. Len(h.values)
  <2>1. x \in 1 .. Len(g.values)
    BY <1>1, OperandsExist
  <2> QED BY <1>2, <1>4, <2>1 DEF NewestValue
<1>6. Binary("mul")
  BY DEF Binary
<1>7. GraphOK(l) /\ Grown(h, l) /\ Len(l.values) = Len(h.values) + 1 /\ Len(h.values) \in Nat
  <2>1. l = AddNode(h, "mul", <<x, y>>, 0) /\ GraphOK(h)
    BY <1>2, <1>4
  <2>2. \A a \in 1 .. Len(h.values), b \in 1 .. Len(h.values) : \A t : t = AddNode(h, "mul", <<a, b>>, 0) =>
          GraphOK(t) /\ Grown(h, t) /\ Len(t.values) = Len(h.values) + 1 /\ Len(h.values) \in Nat
    BY <1>6, <2>1, BinaryAdded
  <2> QED BY <1>5, <2>1, <2>2, Zenon
<1>8. Grown(g, l)
  BY <1>4, <1>7, GrownTwice
<1> QED BY <1>3, <1>7, <1>8, AppendedOK

\* So is the replacement by an earlier equal node.
LEMMA CommonSubexpressionOK ==
  ASSUME NEW g, GraphOK(g), NEW order, NEW k \in Nat,
         \A j \in 1 .. k : order[j] \in 1 .. Len(g.nodes), NEW r \in CommonSubexpression(g, order, k)
  PROVE  RewriteOK(g, r)
<1>1. PICK j \in EarlierEqual(g, order, k) : r \in Keep(g, g.nodes[order[j]].result)
  BY DEF CommonSubexpression
<1>2. order[j] \in 1 .. Len(g.nodes)
  BY <1>1 DEF EarlierEqual
<1>3. g.nodes[order[j]].result \in 1 .. Len(g.values)
  BY <1>2, OperandsExist
<1> QED BY <1>1, <1>3, KeepOK

\* The visit of one node, whatever the sweep.
LEMMA RewritesOK ==
  ASSUME NEW sweep, NEW g, GraphOK(g), NEW order, NEW k \in Nat \ {0},
         \A j \in 1 .. k : order[j] \in 1 .. Len(g.nodes), NEW r \in Rewrites(sweep, g, order, k)
  PROVE  RewriteOK(g, r) /\ Pure(g, order[k])
<1>1. PICK n : n = order[k]
  OBVIOUS
<1>2. n \in 1 .. Len(g.nodes)
  <2>1. k \in 1 .. k
    OBVIOUS
  <2> QED BY <1>1, <2>1
<1>3. /\ Pure(g, n)
      /\ \/ r \in NormalizeOps(g, n) \/ r \in ConstantFold(g, n) \/ r \in IdentityElim(g, n)
         \/ r \in AlgebraicSimplify(g, n) \/ r \in StrengthReduce(g, n)
         \/ r \in CommonSubexpression(g, order, k)
  BY <1>1, Zenon DEF Rewrites
<1>4. RewriteOK(g, r)
  <2>1. CASE r \in NormalizeOps(g, n)
    BY <1>2, <2>1, NormalizeOpsOK
  <2>2. CASE r \in ConstantFold(g, n)
    BY <2>2, ConstantFoldOK
  <2>3. CASE r \in IdentityElim(g, n)
    BY <1>2, <2>3, IdentityElimOK
  <2>4. CASE r \in AlgebraicSimplify(g, n)
    BY <1>2, <2>4, AlgebraicSimplifyOK
  <2>5. CASE r \in StrengthReduce(g, n)
    BY <1>2, <2>5, StrengthReduceOK
  <2>6. CASE r \in CommonSubexpression(g, order, k)
    BY <2>6, CommonSubexpressionOK
  <2> QED BY <1>3, <2>1, <2>2, <2>3, <2>4, <2>5, <2>6
<1> QED BY <1>1, <1>3, <1>4

\* replaceResult: rewiring, recording and killing in a row.
LEMMA ResultReplaced ==
  ASSUME NEW g, GraphOK(g), NEW n \in 1 .. Len(g.nodes), Pure(g, n), NEW v \in 1 .. Len(g.values),
         NEW h, h = ReplaceResult(g, n, v)
  PROVE  GraphOK(h) /\ Len(h.nodes) = Len(g.nodes)
<1>1. PICK r, a, b : /\ r = g.nodes[n].result
                     /\ a = ReplaceOperandUses(g, r, v) /\ b = RecordEquivalent(a, r, v)
  OBVIOUS
<1>2. h = KillNode(b, n)
  BY <1>1 DEF ReplaceResult
<1>3. /\ GraphOK(a) /\ Len(a.nodes) = Len(g.nodes)
      /\ \A k \in 1 .. Len(g.nodes) : a.nodes[k].op = g.nodes[k].op
  BY <1>1, UsesReplaced
<1>4. GraphOK(b) /\ b.nodes = a.nodes
  BY <1>1, <1>3, EquivalentRecorded
<1>5. n \in 1 .. Len(b.nodes) /\ ~Effectful(b.nodes[n].op)
  BY <1>3, <1>4 DEF Pure
<1>6. GraphOK(h) /\ Len(h.nodes) = Len(b.nodes)
  BY <1>2, <1>4, <1>5, NodeKilled
<1> QED BY <1>3, <1>4, <1>6

\* An edit keeps the tables in agreement and loses no place.
LEMMA EditOK ==
  ASSUME NEW sweep, NEW g, GraphOK(g), NEW order, NEW k \in Nat \ {0},
         \A j \in 1 .. k : order[j] \in 1 .. Len(g.nodes), NEW h \in Edits(sweep, g, order, k)
  PROVE  GraphOK(h) /\ Len(g.nodes) <= Len(h.nodes) /\ Len(g.nodes) \in Nat /\ Len(h.nodes) \in Nat
<1>1. PICK n : n = order[k]
  OBVIOUS
<1>2. n \in 1 .. Len(g.nodes)
  <2>1. k \in 1 .. k
    OBVIOUS
  <2> QED BY <1>1, <2>1
<1>3. GraphOK(h) /\ Len(g.nodes) <= Len(h.nodes)
  <2>1. CASE sweep = "dce"
    <3>1. h = KillNode(g, n) /\ Pure(g, n)
      BY <1>1, <2>1 DEF Edits, Unreached
    <3>2. GraphOK(h) /\ Len(h.nodes) = Len(g.nodes)
      BY <1>2, <3>1, NodeKilled DEF Pure
    <3>3. Len(g.nodes) \in Nat
      BY TableDomains DEF GraphOK
    <3> QED BY <3>2, <3>3
  <2>2. CASE sweep # "dce"
    <3>1. PICK r \in Rewrites(sweep, g, order, k) : h = ReplaceResult(r.graph, n, r.value)
      BY <1>1, <2>2 DEF Edits
    <3>2. RewriteOK(g, r) /\ Pure(g, n)
      BY <1>1, <3>1, RewritesOK
    <3>3. /\ GraphOK(r.graph) /\ Grown(g, r.graph) /\ r.value \in 1 .. Len(r.graph.values)
      BY <3>2 DEF RewriteOK
    <3>4. Len(g.nodes) \in Nat /\ Len(r.graph.nodes) \in Nat
      BY <3>3, TableDomains DEF GraphOK
    <3>5. n \in 1 .. Len(r.graph.nodes) /\ Pure(r.graph, n)
      BY <1>2, <3>2, <3>3, <3>4 DEF Grown, Pure
    <3>6. GraphOK(h) /\ Len(h.nodes) = Len(r.graph.nodes)
      BY <3>1, <3>3, <3>5, ResultReplaced
    <3> QED BY <3>3, <3>6 DEF Grown
  <2> QED BY <2>1, <2>2
<1>4. Len(g.nodes) \in Nat /\ Len(h.nodes) \in Nat
  BY <1>3, TableDomains DEF GraphOK
<1> QED BY <1>3, <1>4

-----------------------------------------------------------------------------
(***************************************************************************)
(* The frontend's graph.                                                   *)
(***************************************************************************)

LeafStep(c, g, leaf) == AllocateValue(g, Value(leaf.kind, leaf.payload, 0))

LeavesOK(c, g, k) == GraphOK(g) /\ Len(g.nodes) = 0

LeafFold == INSTANCE InductionRules WITH Step <- LeafStep, Inv <- LeavesOK, Def <- NoDef, P <- NoP

\* The graph of the leaves satisfies the invariant and has no node.
LEMMA LeafGraphOK == GraphOK(LeafGraph) /\ Len(LeafGraph.nodes) = 0
<1>1. LeafGraph = LeafFold!Folded(0, EmptyGraph, Leaves)
  BY DEF LeafGraph, FoldLeft, MapThenFoldSet, Max, LeafStep, LeafFold!Folded, LeafFold!FoldTable
<1>2. PICK n : n = Len(Leaves)
  OBVIOUS
<1>3. /\ n \in Nat /\ DOMAIN Leaves = 1 .. n
      /\ \A k \in 1 .. n : Leaves[k].kind \in {"placeholder", "constant"}
  <2>1. PICK S : S = [kind : {"placeholder", "constant"}, payload : Residues]
    OBVIOUS
  <2>2. Leaves \in Seq(S)
    BY <2>1, LeavesAssumption
  <2>3. n \in Nat /\ DOMAIN Leaves = 1 .. n /\ \A k \in 1 .. n : Leaves[k] \in S
    BY <1>2, <2>2
  <2>4. \A l \in S : l.kind \in {"placeholder", "constant"}
    BY <2>1
  <2> QED BY <2>3, <2>4
<1>4. LeavesOK(0, EmptyGraph, 0)
  <2>1. Len(EmptyGraph.nodes) = 0
    BY DEF EmptyGraph
  <2> QED BY <2>1, EmptyGraphOK DEF LeavesOK
<1>5. ASSUME NEW k \in 1 .. n, NEW g, LeavesOK(0, g, k - 1)
      PROVE  LeavesOK(0, LeafStep(0, g, Leaves[k]), k)
  <2>1. PICK v, h : v = Value(Leaves[k].kind, Leaves[k].payload, 0) /\ h = AllocateValue(g, v)
    OBVIOUS
  <2>2. v = [kind |-> Leaves[k].kind, payload |-> Leaves[k].payload, producer |-> 0]
    BY <2>1 DEF Value
  <2>3. v.kind = Leaves[k].kind /\ v.payload = Leaves[k].payload /\ v.producer = 0
    BY <2>2
  <2>4. ValueForm(v) /\ v.kind # "result"
    BY <1>3, <2>2, <2>3 DEF ValueForm
  <2>5. GraphOK(g) /\ Len(g.nodes) = 0
    BY <1>5 DEF LeavesOK
  <2>6. GraphOK(h)
    BY <2>1, <2>4, <2>5, LeafAdded
  <2>7. TablesOK(g)
    BY <2>5 DEF GraphOK
  <2>8. h = [values |-> Append(g.values, v), nodes |-> g.nodes, users |-> Append(g.users, <<>>),
             outputs |-> g.outputs, chain |-> g.chain, rep |-> g.rep]
    BY <2>1, <2>7, Allocated, ZenonT(40)
  <2>9. h.nodes = g.nodes
    BY <2>8
  <2> QED BY <2>1, <2>5, <2>6, <2>9 DEF LeavesOK, LeafStep
<1>6. LeavesOK(0, LeafFold!Folded(0, EmptyGraph, Leaves), n)
  BY <1>3, <1>4, <1>5, LeafFold!FoldLeftInduction
<1> QED BY <1>1, <1>6 DEF LeavesOK

\* The operands that the frontend gives are a sequence of the right length.
LEMMA OperandsForm ==
  ASSUME NEW g, NEW op, NEW inputs \in Operands(g, op)
  PROVE  IsSequence(inputs) /\ Len(inputs) = IF Binary(op) THEN 2 ELSE 1
<1>1. CASE Binary(op)
  <2>1. PICK a, b : inputs = <<a, b>>
    BY <1>1 DEF Operands, Binary
  <2>2. Len(inputs) = 2 /\ DOMAIN inputs = 1 .. 2 /\ inputs = [k \in 1 .. 2 |-> inputs[k]]
    BY <2>1
  <2>3. IsSequence(inputs)
    BY <2>2, FunctionIsSequence
  <2> QED BY <1>1, <2>2, <2>3
<1>2. CASE ~Binary(op)
  <2>1. PICK a : inputs = <<a>>
    BY <1>2 DEF Operands, Binary
  <2>2. Len(inputs) = 1 /\ DOMAIN inputs = 1 .. 1 /\ inputs = [k \in 1 .. 1 |-> inputs[k]]
    BY <2>1
  <2>3. IsSequence(inputs)
    BY <2>2, FunctionIsSequence
  <2> QED BY <1>2, <2>2, <2>3
<1> QED BY <1>1, <1>2

\* addOutput: only the outputs change.
LEMMA OutputAdded ==
  ASSUME NEW g, GraphOK(g), NEW v \in 1 .. Len(g.values), NEW h, h = AddOutput(g, v)
  PROVE  GraphOK(h) /\ h.nodes = g.nodes
<1> DEFINE outputs == IF v \in ToSet(g.outputs) THEN g.outputs ELSE Append(g.outputs, v)
<1>1. g = [values |-> g.values, nodes |-> g.nodes, users |-> g.users, outputs |-> g.outputs,
           chain |-> g.chain, rep |-> g.rep]
  BY DEF GraphOK, TablesOK, GraphForm
<1>2. h = [g EXCEPT !.outputs = outputs]
  BY DEF AddOutput
<1>3. IsSequence(g.outputs) /\ \A k \in 1 .. Len(g.outputs) : g.outputs[k] \in 1 .. Len(g.values)
  BY DEF GraphOK, TablesOK, OutputsOK
<1>4. IsSequence(outputs) /\ \A k \in 1 .. Len(outputs) : outputs[k] \in 1 .. Len(g.values)
  <2>1. CASE v \in ToSet(g.outputs)
    BY <1>3, <2>1
  <2>2. CASE v \notin ToSet(g.outputs)
    <3>1. outputs = Append(g.outputs, v)
      BY <2>2
    <3> HIDE DEF outputs
    <3>2. IsSequence(outputs)
      BY <1>3, <3>1, AppendIsSequence
    <3>3. \A y : Holds(outputs, y) <=> Holds(g.outputs, y) \/ y = v
      <4>1. PICK old : old = g.outputs
        OBVIOUS
      <4>2. IsSequence(old) /\ outputs = Append(old, v)
        BY <1>3, <3>1, <4>1
      <4>3. \A y : Holds(outputs, y) <=> Holds(old, y) \/ y = v
        BY <4>2, AppendHolds
      <4> QED BY <4>1, <4>3
    <3>4. \A k \in 1 .. Len(outputs) : outputs[k] \in 1 .. Len(g.values)
      BY <1>3, <3>3 DEF Holds
    <3> QED BY <3>2, <3>4
  <2> QED BY <2>1, <2>2
<1> HIDE DEF outputs
<1>5. h = [values |-> g.values, nodes |-> g.nodes, users |-> g.users, outputs |-> outputs,
           chain |-> g.chain, rep |-> g.rep]
  BY <1>1, <1>2
<1>6. /\ h.values = g.values /\ h.nodes = g.nodes /\ h.users = g.users /\ h.outputs = outputs
      /\ h.chain = g.chain /\ GraphForm(h)
  BY <1>5 DEF GraphForm
<1>7. TablesOK(h) /\ OutputsOK(h)
  BY <1>4, <1>6 DEF GraphOK, TablesOK, OutputsOK
<1>8. ValuesOK(h) /\ NodesOK(h) /\ UsersOK(h)
  BY <1>6 DEF GraphOK, ValuesOK, NodesOK, UsersOK
<1>9. UseCountsOK(h) /\ ChainOK(h)
  BY <1>6 DEF GraphOK, UseCountsOK, ChainOK, IsEffect
<1> QED BY <1>6, <1>7, <1>8, <1>9 DEF GraphOK

-----------------------------------------------------------------------------
(***************************************************************************)
(* The inductive invariant: the tables agree, and a sweep's list of nodes  *)
(* points into them. Edits only append nodes, and a renumbering drops the  *)
(* list.                                                                   *)
(***************************************************************************)

\* A sweep goes through nodes that exist.
TodoOK == IsSequence(todo) /\ \A k \in 1 .. Len(todo) : todo[k] \in 1 .. Len(graph.nodes)

\* The control state.
ControlOK ==
  /\ phase \in {"build", "between", "pass", "stopped", "rejected"}
  /\ pass = "none" \/ pass \in Passes
  /\ sub \in 1 .. 3 /\ at \in Nat \ {0} /\ edited \in BOOLEAN /\ changed \in BOOLEAN
  /\ rounds \in 0 .. FixpointIterations /\ passes \in 0 .. MaxPasses

\* The inductive invariant.
IInv == GraphOK(graph) /\ TodoOK /\ ControlOK

\* The invariant holds when the frontend begins.
LEMMA InitInv == Init => IInv
<1> SUFFICES ASSUME Init PROVE IInv
  OBVIOUS
<1>1. GraphOK(graph)
  BY LeafGraphOK DEF Init
<1>2. TodoOK
  BY EmptyIsSequence DEF Init, TodoOK
<1>3. ControlOK
  <2>1. /\ phase = "build" /\ pass = "none" /\ sub = 1 /\ at = 1 /\ edited = FALSE /\ changed = FALSE
        /\ rounds = 0 /\ passes = 0
    BY DEF Init
  <2>2. 0 \in 0 .. FixpointIterations /\ 0 \in 0 .. MaxPasses
    BY RewritingBoundsAssumption
  <2>3. 1 \in 1 .. 3 /\ 1 \in Nat \ {0}
    OBVIOUS
  <2> QED BY <2>1, <2>2, <2>3, Zenon DEF ControlOK
<1> QED BY <1>1, <1>2, <1>3 DEF IInv

\* A dropped list of nodes, and a new one.
LEMMA LocalsDropped ==
  ASSUME DropLocals
  PROVE  /\ TodoOK' /\ sub' \in 1 .. 3 /\ at' \in Nat \ {0} /\ edited' \in BOOLEAN /\ changed' \in BOOLEAN
         /\ rounds' \in 0 .. FixpointIterations
<1>1. 0 \in 0 .. FixpointIterations
  BY RewritingBoundsAssumption
<1>2. TodoOK'
  BY EmptyIsSequence DEF DropLocals, TodoOK
<1>3. 1 \in 1 .. 3 /\ 1 \in Nat \ {0}
  OBVIOUS
<1> QED BY <1>1, <1>2, <1>3, Zenon DEF DropLocals

\* A sweep goes through nodes that exist.
LEMMA SweepBegun ==
  ASSUME IInv, NEW k \in 1 .. 3, BeginSweep(k), graph' = graph
  PROVE  TodoOK' /\ sub' \in 1 .. 3 /\ at' \in Nat \ {0}
<1>1. TablesOK(graph) /\ todo' = TopoOrder(graph)
  BY DEF IInv, GraphOK, BeginSweep
<1>2. IsSequence(todo') /\ \A x : Holds(todo', x) => x \in 1 .. Len(graph.nodes)
  BY <1>1, TopoOrderIs
<1>3. TodoOK'
  BY <1>2 DEF TodoOK, Holds
<1> QED BY <1>3 DEF BeginSweep

\* What follows a pass, renumbering and verification, keeps the invariant.
LEMMA Settled ==
  ASSUME IInv, NEW b \in BOOLEAN, Settle(graph, b)
  PROVE  GraphOK(graph') /\ phase' \in {"between", "rejected"}
<1>1. PICK h : h = IF b THEN RenumberTopological(graph) ELSE graph
  OBVIOUS
<1>2. graph' = h /\ phase' = IF VerifyGraph(h) THEN "between" ELSE "rejected"
  BY <1>1 DEF Settle
<1>3. GraphOK(h)
  BY <1>1, Renumbered DEF IInv
<1> QED BY <1>2, <1>3

\* Every step of building, compiling, stopping and compiling again keeps the
\* invariant.
LEMMA NextInv == "extract" \notin Passes => (IInv /\ [Next]_vars => IInv')
<1> SUFFICES ASSUME "extract" \notin Passes, IInv, [Next]_vars PROVE IInv'
  OBVIOUS
<1>1. GraphOK(graph) /\ TodoOK /\ ControlOK /\ Len(graph.nodes) \in Nat
      /\ DOMAIN graph.values = 1 .. Len(graph.values)
  <2>1. GraphOK(graph) /\ TodoOK /\ ControlOK
    BY DEF IInv
  <2> QED BY <2>1, TableDomains DEF GraphOK
<1>2. ASSUME NEW op \in Operations, NEW inputs \in Operands(graph, op), BuildNode(op, inputs)
      PROVE  IInv'
  <2>1. PICK h : h = AddNode(graph, op, inputs, 0)
    OBVIOUS
  <2>2. IsSequence(inputs) /\ Len(inputs) = IF Binary(op) THEN 2 ELSE 1
    BY OperandsForm
  <2>3. \A k \in 1 .. Len(inputs) : inputs[k] \in 1 .. Len(graph.values)
    <3>1. DOMAIN inputs = 1 .. Len(inputs)
      BY <2>2, SequenceOfItsItems
    <3> QED BY <1>1, <1>2, <3>1 DEF BuildNode, MayAddNode
  <2>4. GraphOK(h) /\ Grown(graph, h)
    BY <1>1, <2>1, <2>2, <2>3, NodeAdded
  <2>5. Len(h.nodes) \in Nat
    BY <2>4, TableDomains DEF GraphOK
  <2>6. graph' = h /\ UNCHANGED <<phase, pass, locals, passes>>
    BY <1>2, <2>1 DEF BuildNode
  <2>7. TodoOK'
    BY <1>1, <2>4, <2>5, <2>6 DEF TodoOK, Grown, locals
  <2>8. ControlOK'
    BY <1>1, <2>6 DEF ControlOK, locals
  <2> QED BY <2>4, <2>6, <2>7, <2>8 DEF IInv
<1>3. ASSUME NEW v \in DOMAIN graph.values, BuildOutput(v)
      PROVE  IInv'
  <2>1. PICK h : h = AddOutput(graph, v)
    OBVIOUS
  <2>2. GraphOK(h) /\ h.nodes = graph.nodes
    BY <1>1, <2>1, OutputAdded
  <2>3. graph' = h /\ UNCHANGED <<phase, pass, locals, passes>>
    BY <1>3, <2>1 DEF BuildOutput
  <2>4. TodoOK' /\ ControlOK'
    BY <1>1, <2>2, <2>3 DEF TodoOK, ControlOK, locals
  <2> QED BY <2>2, <2>3, <2>4 DEF IInv
<1>4. CASE Compile
  <2>1. UNCHANGED <<graph, locals, passes>> /\ pass' = "none" /\ phase' \in {"between", "rejected"}
    BY <1>4 DEF Compile
  <2>2. TodoOK' /\ ControlOK'
    BY <1>1, <2>1 DEF TodoOK, ControlOK, locals
  <2> QED BY <1>1, <2>1, <2>2 DEF IInv
<1>5. ASSUME NEW p \in Passes, BeginPass(p)
      PROVE  IInv'
  <2>1. /\ graph' = graph /\ BeginSweep(1) /\ phase' = "pass" /\ pass' = p /\ passes' = passes + 1
        /\ passes < MaxPasses /\ UNCHANGED <<edited, changed, rounds>>
    BY <1>5 DEF BeginPass
  <2>2. TodoOK' /\ sub' \in 1 .. 3 /\ at' \in Nat \ {0}
    BY <2>1, SweepBegun
  <2>3. passes' \in 0 .. MaxPasses
    BY <1>1, <2>1, RewritingBoundsAssumption DEF ControlOK
  <2>4. ControlOK'
    BY <1>1, <2>1, <2>2, <2>3 DEF ControlOK
  <2> QED BY <1>1, <2>1, <2>2, <2>4 DEF IInv
<1>6. CASE Edit
  <2>1. PICK k \in EditPositions : graph' \in Edits(Sweeps(pass)[sub], graph, todo, k) /\ at' = k + 1
    BY <1>6 DEF Edit
  <2>2. /\ edited' = TRUE /\ changed' = TRUE /\ UNCHANGED <<phase, pass, sub, todo, rounds, passes>>
    BY <1>6 DEF Edit
  <2>3. k \in Nat \ {0} /\ \A j \in 1 .. k : todo[j] \in 1 .. Len(graph.nodes)
    BY <1>1, <2>1 DEF EditPositions, TodoOK, ControlOK, IsSequence
  <2>4. /\ GraphOK(graph') /\ Len(graph.nodes) <= Len(graph'.nodes)
        /\ Len(graph.nodes) \in Nat /\ Len(graph'.nodes) \in Nat
    BY <1>1, <2>1, <2>3, EditOK
  <2>5. TodoOK'
    BY <1>1, <2>2, <2>4 DEF TodoOK
  <2>6. ControlOK'
    BY <1>1, <2>1, <2>2, <2>3 DEF ControlOK
  <2> QED BY <2>4, <2>5, <2>6 DEF IInv
<1>7. CASE NextSweep
  <2>1. /\ graph' = graph /\ BeginSweep(sub + 1) /\ sub < Len(Sweeps(pass))
        /\ UNCHANGED <<phase, pass, edited, changed, rounds, passes>>
    BY <1>7 DEF NextSweep
  <2>2. sub + 1 \in 1 .. 3
    BY <1>1, <2>1 DEF Sweeps, ControlOK
  <2>3. TodoOK' /\ sub' \in 1 .. 3 /\ at' \in Nat \ {0}
    BY <2>1, <2>2, SweepBegun
  <2>4. ControlOK'
    BY <1>1, <2>1, <2>3 DEF ControlOK
  <2> QED BY <1>1, <2>1, <2>3, <2>4 DEF IInv
<1>8. CASE NextRound
  <2>1. /\ graph' = graph /\ BeginSweep(1) /\ edited' = FALSE /\ rounds' = rounds + 1
        /\ rounds + 1 < FixpointIterations /\ UNCHANGED <<phase, pass, changed, passes>>
    BY <1>8 DEF NextRound, Repeats
  <2>2. TodoOK' /\ sub' \in 1 .. 3 /\ at' \in Nat \ {0}
    BY <2>1, SweepBegun
  <2>3. rounds' \in 0 .. FixpointIterations
    BY <1>1, <2>1, RewritingBoundsAssumption DEF ControlOK
  <2>4. ControlOK'
    BY <1>1, <2>1, <2>2, <2>3 DEF ControlOK
  <2> QED BY <1>1, <2>1, <2>2, <2>4 DEF IInv
<1>9. ASSUME NEW b \in BOOLEAN, Settle(graph, b), DropLocals, UNCHANGED <<pass, passes>>
      PROVE  IInv'
  <2>1. GraphOK(graph') /\ phase' \in {"between", "rejected"}
    BY <1>9, Settled
  <2>2. /\ TodoOK' /\ sub' \in 1 .. 3 /\ at' \in Nat \ {0} /\ edited' \in BOOLEAN /\ changed' \in BOOLEAN
        /\ rounds' \in 0 .. FixpointIterations
    BY <1>9, LocalsDropped
  <2>3. ControlOK'
    BY <1>1, <1>9, <2>1, <2>2 DEF ControlOK
  <2> QED BY <2>1, <2>2, <2>3 DEF IInv
<1>10. CASE EndPass
  <2>1. changed \in BOOLEAN /\ Settle(graph, changed) /\ DropLocals /\ UNCHANGED <<pass, passes>>
    BY <1>1, <1>10 DEF EndPass, ControlOK
  <2> QED BY <1>9, <2>1
<1>11. CASE Annotate
  <2>1. TRUE \in BOOLEAN /\ Settle(graph, TRUE) /\ DropLocals /\ UNCHANGED <<pass, passes>>
    BY <1>11 DEF Annotate
  <2> QED BY <1>9, <2>1
<1>12. ASSUME NEW stale \in BOOLEAN, EgraphExtract(stale)
       PROVE  IInv'
  <2>1. pass = "extract"
    BY <1>12 DEF EgraphExtract
  <2> QED BY <1>1, <2>1 DEF ControlOK
<1>13. CASE StopPass
  <2>1. phase' = "stopped" /\ DropLocals /\ UNCHANGED <<graph, pass, passes>>
    BY <1>13 DEF StopPass
  <2>2. /\ TodoOK' /\ sub' \in 1 .. 3 /\ at' \in Nat \ {0} /\ edited' \in BOOLEAN /\ changed' \in BOOLEAN
        /\ rounds' \in 0 .. FixpointIterations
    BY <2>1, LocalsDropped
  <2>3. ControlOK'
    BY <1>1, <2>1, <2>2 DEF ControlOK
  <2> QED BY <1>1, <2>1, <2>2, <2>3 DEF IInv
<1>14. CASE UNCHANGED vars
  BY <1>1, <1>14 DEF vars, locals, IInv, TodoOK, ControlOK
<1>15. CASE Finished
  BY <1>14, <1>15 DEF Finished
<1> QED
  BY <1>2, <1>3, <1>4, <1>5, <1>6, <1>7, <1>8, <1>10, <1>11, <1>12, <1>13, <1>14, <1>15 DEF Next

\* However compilations rewrite, stop and start again on one graph, as long as
\* no pass extracts from an e-graph.
THEOREM RewritingInvariant ==
  ASSUME "extract" \notin Passes
  PROVE  Spec => []IInv
<1>1. IInv /\ [Next]_vars => IInv'
  BY NextInv
<1> QED BY <1>1, InitInv, PTL DEF Spec

\* The use-def lists of a value hold each live node once per operand at every
\* point, in the middle of a pass too: no rewiring, kill, renumbering or
\* interrupted sweep leaves a stale entry for a live node or loses one.
THEOREM UseListsExact ==
  ASSUME "extract" \notin Passes
  PROVE  Spec => []UsersExact
<1>1. IInv => UsersExact
  <2> SUFFICES ASSUME IInv, NEW v \in DOMAIN graph.values, NEW n \in Live(graph)
               PROVE  Cardinality({k \in DOMAIN graph.users[v] : graph.users[v][k] = n})
                        = Cardinality(Uses(graph.nodes[n], v))
    BY DEF UsersExact
  <2>1. GraphOK(graph) /\ TablesOK(graph)
    BY DEF IInv, GraphOK
  <2>2. v \in 1 .. Len(graph.users) /\ n \in 1 .. Len(graph.nodes) /\ ~graph.nodes[n].dead
    BY <2>1, TableDomains DEF Live
  <2>3. Cardinality(Places(graph.users[v], n)) = Cardinality(Uses(graph.nodes[n], v))
    BY <2>1, <2>2 DEF GraphOK, UseCountsOK
  <2> QED BY <2>3 DEF Places
<1> QED BY <1>1, RewritingInvariant, PTL

\* The effect chain holds each live effectful node once and nothing else at
\* every point: no rewrite loses an effect or keeps a dead one.
THEOREM ChainIsExact ==
  ASSUME "extract" \notin Passes
  PROVE  Spec => []ChainExact
<1>1. IInv => ChainExact
  <2> SUFFICES ASSUME IInv PROVE ChainExact
    OBVIOUS
  <2>1. PICK s, l : s = graph.chain /\ l = Len(s)
    OBVIOUS
  <2>2. /\ IsSequence(s) /\ Distinct(s) /\ l \in Nat
        /\ DOMAIN s = 1 .. l /\ DOMAIN graph.nodes = 1 .. Len(graph.nodes)
        /\ \A x : Holds(s, x) <=> IsEffect(graph, x)
    BY <2>1, TableDomains DEF IInv, GraphOK, TablesOK, ChainOK
  <2>3. \A x : x \in ToSet(s) <=> Holds(s, x)
    BY <2>2, HoldsIsMember
  <2>4. ToSet(s) = {n \in Live(graph) : Effectful(graph.nodes[n].op)}
    BY <2>2, <2>3 DEF IsEffect, Live
  <2>5. s \in Bijection(1 .. l, ToSet(s))
    <3>1. s = [k \in 1 .. l |-> s[k]]
      BY <2>1, <2>2 DEF IsSequence
    <3>2. s \in [1 .. l -> ToSet(s)]
      BY <2>2, <3>1 DEF ToSet
    <3>3. \A i, j \in 1 .. l : s[i] = s[j] => i = j
      BY <2>1, <2>2 DEF Distinct
    <3>4. \A x \in ToSet(s) : \E k \in 1 .. l : s[k] = x
      BY <2>1, <2>3 DEF Holds
    <3> QED BY <3>2, <3>3, <3>4 DEF Bijection, Injection, Surjection, IsInjective
  <2>6. Cardinality(ToSet(s)) = Cardinality(1 .. l) /\ Cardinality(1 .. l) = l
    <3>1. ExistsBijection(1 .. l, ToSet(s))
      BY <2>5 DEF ExistsBijection
    <3>2. IsFiniteSet(1 .. l) /\ Cardinality(1 .. l) = l
      BY <2>2, RangeCounts
    <3> QED BY <3>1, <3>2, FS_Bijection
  <2> QED BY <2>1, <2>4, <2>6 DEF ChainExact
<1> QED BY <1>1, RewritingInvariant, PTL

\* The control state, and ids that point inside the graph's tables: no sweep
\* visits, and no table names, a node or a value that does not exist.
THEOREM RewritingTypeCorrect ==
  ASSUME "extract" \notin Passes
  PROVE  Spec => []TypeOK
<1>1. IInv => TypeOK
  <2> SUFFICES ASSUME IInv PROVE TypeOK
    OBVIOUS
  <2>1. /\ GraphOK(graph) /\ TablesOK(graph) /\ TodoOK /\ ControlOK
        /\ IsSequence(graph.outputs) /\ IsSequence(todo)
        /\ DOMAIN graph.nodes = 1 .. Len(graph.nodes) /\ DOMAIN graph.values = 1 .. Len(graph.values)
        /\ Len(graph.users) = Len(graph.values)
    BY TableDomains DEF IInv, GraphOK, TablesOK, TodoOK
  <2>2. ASSUME NEW n \in DOMAIN graph.nodes PROVE ToSet(graph.nodes[n].inputs) \subseteq DOMAIN graph.values
    <3>1. NodeOver(graph.nodes[n], Len(graph.values))
      BY <2>1 DEF GraphOK, NodesOK
    <3>2. \A x : x \in ToSet(graph.nodes[n].inputs) <=> Holds(graph.nodes[n].inputs, x)
      BY <3>1, HoldsIsMember DEF NodeOver
    <3> QED BY <2>1, <3>1, <3>2, SMTT(30) DEF NodeOver, Holds
  <2>3. ToSet(graph.outputs) \subseteq DOMAIN graph.values
    <3>1. \A x : x \in ToSet(graph.outputs) <=> Holds(graph.outputs, x)
      BY <2>1, HoldsIsMember
    <3> QED BY <2>1, <3>1 DEF GraphOK, OutputsOK, Holds
  <2>4. ToSet(todo) \subseteq DOMAIN graph.nodes
    <3>1. \A x : x \in ToSet(todo) <=> Holds(todo, x)
      BY <2>1, HoldsIsMember
    <3> QED BY <2>1, <3>1 DEF TodoOK, Holds
  <2> QED BY <2>1, <2>2, <2>3, <2>4 DEF TypeOK, ControlOK
<1> QED BY <1>1, RewritingInvariant, PTL

-----------------------------------------------------------------------------
(***************************************************************************)
(* The field that stands for the doubles.                                  *)
(***************************************************************************)

\* A number that differs from a residue by a multiple of the modulus leaves it.
LEMMA ModUnique ==
  ASSUME NEW r \in Residues, NEW q \in Int
  PROVE  (q * Modulus + r) % Modulus = r
<1>1. Modulus \in Nat /\ Modulus > 0 /\ r \in Nat /\ r < Modulus
  BY ModulusAssumption DEF Residues
<1> QED BY <1>1

\* Numbers that differ by a multiple of the modulus leave the same residue.
LEMMA ModShift ==
  ASSUME NEW a \in Int, NEW q \in Int
  PROVE  (a + q * Modulus) % Modulus = a % Modulus
<1>1. Modulus \in Nat /\ Modulus > 0
  BY ModulusAssumption
<1>2. PICK p, r : p = a \div Modulus /\ r = a % Modulus
  OBVIOUS
<1>3. p \in Int /\ r \in Residues /\ a = p * Modulus + r
  BY <1>1, <1>2 DEF Residues
<1>4. p + q \in Int /\ (p + q) * Modulus = p * Modulus + q * Modulus
  BY <1>1, <1>3
<1>5. a + q * Modulus = (p + q) * Modulus + r
  <2>1. PICK y, z : y = p * Modulus /\ z = q * Modulus
    OBVIOUS
  <2>2. y \in Int /\ z \in Int /\ r \in Int
    BY <1>1, <1>3, <2>1 DEF Residues
  <2>3. a = y + r /\ (p + q) * Modulus = y + z
    BY <1>3, <1>4, <2>1
  <2>4. a + z = (y + z) + r
    BY <2>2, <2>3
  <2> QED BY <2>1, <2>3, <2>4
<1> QED BY <1>2, <1>3, <1>4, <1>5, ModUnique

\* A residue is its own.
LEMMA ModOfResidue ==
  ASSUME NEW a \in Residues
  PROVE  a % Modulus = a
<1>1. Modulus \in Nat /\ Modulus > 0 /\ a \in Nat /\ a < Modulus
  BY ModulusAssumption DEF Residues
<1> QED BY <1>1

\* Every number leaves a residue.
LEMMA ModIsResidue ==
  ASSUME NEW a \in Int
  PROVE  a % Modulus \in Residues
<1>1. Modulus \in Nat /\ Modulus > 0
  BY ModulusAssumption
<1> QED BY <1>1 DEF Residues

\* The inverse of a residue other than 0.
LEMMA InvertedIs ==
  ASSUME NEW b \in Residues, b # 0
  PROVE  Inverted(b) \in Residues /\ (b * Inverted(b)) % Modulus = 1
BY FieldAssumption DEF Inverted

\* 1 is its own inverse, and so is -1.
LEMMA InvertedOne == Inverted(1) = 1
<1>1. Modulus \in Nat /\ Modulus > 1 /\ 1 \in Residues
  BY ModulusAssumption DEF Residues
<1>2. PICK c : c = Inverted(1)
  OBVIOUS
<1>3. c \in Residues /\ (1 * c) % Modulus = 1
  BY <1>1, <1>2, InvertedIs
<1>4. 1 * c = c
  BY <1>3 DEF Residues
<1> QED BY <1>2, <1>3, <1>4, ModOfResidue

\* Minus one is its own inverse.
LEMMA InvertedMinusOne == Inverted(MinusOne) = MinusOne
<1>1. Modulus \in Nat /\ Modulus > 1 /\ MinusOne \in Residues /\ MinusOne # 0
  BY ModulusAssumption DEF Residues, MinusOne
<1>2. PICK c : c = Inverted(MinusOne)
  OBVIOUS
<1>3. c \in Residues /\ (MinusOne * c) % Modulus = 1
  BY <1>1, <1>2, InvertedIs
<1>4. c \in Nat /\ c < Modulus
  BY <1>1, <1>3 DEF Residues
<1>5. c # 0
  <2>1. MinusOne * 0 = 0 /\ 0 % Modulus = 0
    <3>1. 0 \in Residues
      BY <1>1 DEF Residues
    <3> QED BY <1>1, <3>1, ModOfResidue DEF MinusOne
  <2> QED BY <1>3, <2>1
<1>6. MinusOne * c = (Modulus - c) + (c - 1) * Modulus
  BY <1>1, <1>4 DEF MinusOne
<1>7. Modulus - c \in Residues /\ c - 1 \in Int
  BY <1>1, <1>4, <1>5 DEF Residues
<1>8. (MinusOne * c) % Modulus = Modulus - c
  BY <1>6, <1>7, ModShift, ModOfResidue DEF Residues
<1>9. Modulus - c = 1
  BY <1>3, <1>8
<1> QED BY <1>1, <1>2, <1>4, <1>9 DEF MinusOne

\* Multiplying by -1 negates.
LEMMA TimesMinusOne ==
  ASSUME NEW a \in Residues
  PROVE  (a * MinusOne) % Modulus = (-a) % Modulus
<1>1. Modulus \in Nat /\ a \in Nat
  BY ModulusAssumption DEF Residues
<1>2. a * MinusOne = (-a) + a * Modulus
  <2>1. MinusOne = Modulus - 1
    BY DEF MinusOne
  <2>2. a * (Modulus - 1) = a * Modulus - a
    BY <1>1
  <2>3. a * Modulus \in Int
    BY <1>1
  <2> QED BY <1>1, <2>1, <2>2, <2>3
<1>3. -a \in Int /\ a \in Int
  BY <1>1
<1> QED BY <1>2, <1>3, ModShift

\* A negation is a difference.
LEMMA NegationIs ==
  ASSUME NEW a \in Int
  PROVE  -a = 0 - a
OBVIOUS

\* Negating twice gives the residue back.
LEMMA NegatedTwice ==
  ASSUME NEW a \in Residues
  PROVE  (-((-a) % Modulus)) % Modulus = a
<1>1. Modulus \in Nat /\ a \in Nat /\ a < Modulus /\ a \in Int
  BY ModulusAssumption DEF Residues
<1>2. PICK q, z : q = (IF a = 0 THEN 0 ELSE 1) /\ z = (IF a = 0 THEN 0 ELSE Modulus - a)
  OBVIOUS
<1>3. q \in Int /\ 0 - q \in Int /\ z \in Residues
  BY <1>1, <1>2 DEF Residues
<1>4. PICK y : y = (0 - q) * Modulus
  OBVIOUS
<1>5. y \in Int /\ 0 - a = z + y /\ 0 - z = a + y
  <2>1. CASE a = 0
    <3>1. y = 0 * Modulus /\ z = 0
      BY <1>2, <1>4, <2>1
    <3>2. y = 0
      BY <1>1, <3>1
    <3> QED BY <2>1, <3>1, <3>2
  <2>2. CASE a # 0
    <3>1. y = (0 - 1) * Modulus /\ z = Modulus - a
      BY <1>2, <1>4, <2>2
    <3>2. y = 0 - Modulus
      BY <1>1, <3>1
    <3> QED BY <1>1, <3>1, <3>2
  <2> QED BY <2>1, <2>2
<1>6. (0 - a) % Modulus = z
  <2>1. (z + y) % Modulus = z % Modulus
    BY <1>3, <1>4, ModShift DEF Residues
  <2> QED BY <1>3, <1>5, <2>1, ModOfResidue
<1>7. (0 - z) % Modulus = a
  <2>1. (a + y) % Modulus = a % Modulus
    BY <1>1, <1>3, <1>4, ModShift
  <2> QED BY <1>5, <2>1, ModOfResidue
<1>8. -a = 0 - a /\ -z = 0 - z
  BY <1>1, <1>3, NegationIs DEF Residues
<1> QED BY <1>6, <1>7, <1>8

PowerDef(a, u, f, k) == IF k = 0 THEN 1 ELSE a * f[k - 1]

PowerIsNat(a, u, f, k) == f[k] \in Nat

PowerRecursion == INSTANCE InductionRules WITH Def <- PowerDef, P <- PowerIsNat, Step <- NoStep, Inv <- NoInv

\* A power of residues is a natural number, and the square is the product.
LEMMA PowerIs ==
  ASSUME NEW a \in Nat, NEW n \in Nat
  PROVE  /\ Power(a, n) \in Nat
         /\ n = 2 => Power(a, n) = a * a
<1> DEFINE r == CHOOSE f : f = [k \in 0 .. n |-> PowerDef(a, 0, f, k)]
<1>1. /\ 0 \in Int /\ n \in Int
      /\ r = CHOOSE f : f = [k \in 0 .. n |-> PowerDef(a, 0, f, k)]
  OBVIOUS
<1>2. Power(a, n) = r[n]
  BY DEF Power, PowerDef
<1> HIDE DEF r
<1>3. r = [k \in 0 .. n |-> PowerDef(a, 0, r, k)]
  <2>1. PowerRecursion!LookBack(a, 0, 0, n)
    BY DEF PowerRecursion!LookBack, PowerDef
  <2> QED BY <2>1, <1>1, PowerRecursion!RecursionEquation
<1>4. \A k \in 0 .. n : r[k] = IF k = 0 THEN 1 ELSE a * r[k - 1]
  BY <1>3 DEF PowerDef
<1>5. ASSUME NEW k \in 0 .. n, \A j \in 0 .. k - 1 : PowerIsNat(a, 0, r, j)
      PROVE  PowerIsNat(a, 0, r, k)
  <2>1. CASE k = 0
    BY <1>4, <2>1 DEF PowerIsNat
  <2>2. CASE k # 0
    <3>1. r[k] = a * r[k - 1] /\ r[k - 1] \in Nat
      BY <1>4, <1>5, <2>2 DEF PowerIsNat
    <3> QED BY <3>1 DEF PowerIsNat
  <2> QED BY <2>1, <2>2
<1>6. \A k \in 0 .. n : PowerIsNat(a, 0, r, k)
  BY <1>1, <1>5, PowerRecursion!RecursionInduction
<1>7. Power(a, n) \in Nat
  BY <1>2, <1>6 DEF PowerIsNat
<1>8. ASSUME n = 2 PROVE Power(a, n) = a * a
  <2>1. r[0] = 1 /\ r[1] = a * r[0] /\ r[2] = a * r[1]
    BY <1>4, <1>8
  <2> QED BY <2>1, <1>2, <1>8
<1> QED BY <1>7, <1>8

\* The operations that evalScalar computes.
Computed == {"add", "sub", "mul", "div", "pow", "neg", "ffi", "lift", "matmul"}

\* Each of them gives a residue.
LEMMA ScalarIsResidue ==
  ASSUME NEW op \in Computed, NEW a \in Residues, NEW b \in Residues
  PROVE  EvalScalar(op, a, b) \in Residues
<1>1. a \in Nat /\ b \in Nat /\ 0 \in Residues
  BY ModulusAssumption DEF Residues
<1>2. CASE op = "div"
  <2>1. CASE b = 0
    BY <1>1, <1>2, <2>1 DEF EvalScalar
  <2>2. CASE b # 0
    <3>1. Inverted(b) \in Residues
      BY <2>2, InvertedIs
    <3>2. Inverted(b) \in Nat
      BY <3>1 DEF Residues
    <3>3. a * Inverted(b) \in Int
      BY <1>1, <3>2
    <3> QED BY <1>2, <2>2, <3>3, ModIsResidue DEF EvalScalar
  <2> QED BY <2>1, <2>2
<1>3. CASE op = "pow"
  <2>1. Power(a, b) \in Int
    BY <1>1, PowerIs
  <2> QED BY <1>3, <2>1, ModIsResidue DEF EvalScalar
<1>4. CASE op \in {"add", "sub", "mul", "neg"}
  <2>1. a + b \in Int /\ a - b \in Int /\ a * b \in Int /\ -a \in Int
    BY <1>1
  <2> QED BY <1>4, <2>1, ModIsResidue DEF EvalScalar
<1>5. CASE op \in {"ffi", "lift", "matmul"}
  BY <1>1, <1>5 DEF EvalScalar
<1> QED BY <1>2, <1>3, <1>4, <1>5 DEF Computed

-----------------------------------------------------------------------------
(***************************************************************************)
(* The graph as terms: what a value is made of does not change with the    *)
(* ids of the nodes. The values that have been bypassed keep their dead    *)
(* producers, and through them their terms.                                *)
(***************************************************************************)

\* A leaf, or a result whose producer is live.
Available(g, v) == IsResult(g, v) => ~ProducerOf(g, v).dead

\* A result is its producer's, a live node its result's producer.
LinksOK(g) ==
  /\ \A v \in 1 .. Len(g.values) :
       /\ g.values[v].kind \in {"placeholder", "constant", "result"}
       /\ IsConstant(g, v) => g.values[v].payload \in Residues
       /\ IsResult(g, v) => ProducerOf(g, v).result = v
  /\ \A n \in 1 .. Len(g.nodes) :
       /\ g.nodes[n].op \in Computed
       /\ IsResult(g, g.nodes[n].result)
       /\ ~g.nodes[n].dead => g.values[g.nodes[n].result].producer = n

\* What has been replaced is dead, and nothing live reads it.
RepOK(g) ==
  /\ \A v \in DOMAIN g.rep : v \in 1 .. Len(g.values) /\ ~Available(g, v)
  /\ \A n \in 1 .. Len(g.nodes) : ~g.nodes[n].dead =>
       \A k \in 1 .. Len(g.nodes[n].inputs) : g.nodes[n].inputs[k] \notin DOMAIN g.rep
  /\ \A k \in 1 .. Len(g.outputs) : g.outputs[k] \notin DOMAIN g.rep

Sound(g) == GraphOK(g) /\ LinksOK(g) /\ RepOK(g)

\* A rank that decreases from a result to its operands, so that no value is
\* computed from itself.
Ranks(g, b, rank) ==
  /\ rank \in [1 .. Len(g.values) -> 0 .. b]
  /\ \A v \in 1 .. Len(g.values) : IsResult(g, v) =>
       \A k \in 1 .. Len(ProducerOf(g, v).inputs) : rank[ProducerOf(g, v).inputs[k]] < rank[v]

Ranked(g) == \E b \in Nat : \E rank : Ranks(g, b, rank)

\* What the values denote on the input x: den satisfies every node's equation,
\* that of a dead node too.
BoundInput(g, x, v) ==
  LET k == Cardinality({w \in 1 .. v : g.values[w].kind = "placeholder"})
  IN IF k \in DOMAIN x THEN x[k] ELSE 0

NodeValue(node, den) ==
  EvalScalar(node.op, den[node.inputs[1]], IF Len(node.inputs) > 1 THEN den[node.inputs[2]] ELSE 0)

Denotes(g, x, den) ==
  /\ den \in [1 .. Len(g.values) -> Residues]
  /\ \A v \in 1 .. Len(g.values) :
       /\ IsConstant(g, v) => den[v] = g.values[v].payload
       /\ g.values[v].kind = "placeholder" => den[v] = BoundInput(g, x, v)
       /\ IsResult(g, v) => den[v] = NodeValue(ProducerOf(g, v), den)

\* Live nodes and outputs are over live nodes.
LiveBelow(g) ==
  /\ \A n \in 1 .. Len(g.nodes) : ~g.nodes[n].dead =>
       \A k \in 1 .. Len(g.nodes[n].inputs) : Available(g, g.nodes[n].inputs[k])
  /\ \A k \in 1 .. Len(g.outputs) : Available(g, g.outputs[k])

\* A table of a graph, and its entry for one more value.
Extended(f, m, y) == [v \in 1 .. m + 1 |-> IF v = m + 1 THEN y ELSE f[v]]

\* A table with one more entry.
LEMMA ExtendedIs ==
  ASSUME NEW m \in Nat, NEW f, NEW y, NEW t, t = Extended(f, m, y)
  PROVE  /\ t[m + 1] = y /\ \A v \in 1 .. m : t[v] = f[v]
         /\ \A S : f \in [1 .. m -> S] /\ y \in S => t \in [1 .. m + 1 -> S]
BY SMTT(30) DEF Extended

\* The tables of a sound graph, by position.
LEMMA SoundTables ==
  ASSUME NEW g, GraphOK(g), NEW m, m = Len(g.values), NEW c, c = Len(g.nodes)
  PROVE  /\ m \in Nat /\ c \in Nat /\ TablesOK(g)
         /\ DOMAIN g.values = 1 .. m /\ DOMAIN g.nodes = 1 .. c
         /\ \A v \in 1 .. m : IsResult(g, v) => g.values[v].producer \in 1 .. c
         /\ \A n \in 1 .. c :
              /\ NodeOver(g.nodes[n], m)
              /\ g.nodes[n].result \in 1 .. m
              /\ IsSequence(g.nodes[n].inputs) /\ DOMAIN g.nodes[n].inputs = 1 .. Len(g.nodes[n].inputs)
              /\ Len(g.nodes[n].inputs) = IF Binary(g.nodes[n].op) THEN 2 ELSE 1
              /\ \A k \in 1 .. Len(g.nodes[n].inputs) : g.nodes[n].inputs[k] \in 1 .. m
         /\ \A v \in 1 .. m : IsResult(g, v) =>
              /\ IsSequence(ProducerOf(g, v).inputs)
              /\ DOMAIN ProducerOf(g, v).inputs = 1 .. Len(ProducerOf(g, v).inputs)
              /\ Len(ProducerOf(g, v).inputs) = IF Binary(ProducerOf(g, v).op) THEN 2 ELSE 1
              /\ \A k \in 1 .. Len(ProducerOf(g, v).inputs) : ProducerOf(g, v).inputs[k] \in 1 .. m
<1>1. /\ m \in Nat /\ c \in Nat /\ TablesOK(g)
      /\ DOMAIN g.values = 1 .. m /\ DOMAIN g.nodes = 1 .. c
  BY TableDomains DEF GraphOK
<1>2. \A v \in 1 .. m : IsResult(g, v) => g.values[v].producer \in 1 .. c
  BY DEF GraphOK, ValuesOK, ValueOver, IsResult
<1>3. \A n \in 1 .. c : NodeOver(g.nodes[n], m)
  BY DEF GraphOK, NodesOK
<1>4. \A s : IsSequence(s) => DOMAIN s = 1 .. Len(s)
  BY SequenceOfItsItems
<1>5. \A n \in 1 .. c :
        /\ g.nodes[n].result \in 1 .. m
        /\ IsSequence(g.nodes[n].inputs) /\ DOMAIN g.nodes[n].inputs = 1 .. Len(g.nodes[n].inputs)
        /\ Len(g.nodes[n].inputs) = IF Binary(g.nodes[n].op) THEN 2 ELSE 1
        /\ \A k \in 1 .. Len(g.nodes[n].inputs) : g.nodes[n].inputs[k] \in 1 .. m
  BY <1>3, <1>4 DEF NodeOver
<1> QED BY <1>1, <1>2, <1>3, <1>5 DEF ProducerOf

\* The operands of a result's producer.
LEMMA ProducerInputs ==
  ASSUME NEW g, GraphOK(g), NEW v \in 1 .. Len(g.values), IsResult(g, v)
  PROVE  /\ DOMAIN ProducerOf(g, v).inputs = 1 .. Len(ProducerOf(g, v).inputs)
         /\ Len(ProducerOf(g, v).inputs) \in {1, 2}
         /\ Len(ProducerOf(g, v).inputs) = IF Binary(ProducerOf(g, v).op) THEN 2 ELSE 1
         /\ \A k \in 1 .. Len(ProducerOf(g, v).inputs) : ProducerOf(g, v).inputs[k] \in 1 .. Len(g.values)
<1>1. PICK m : m = Len(g.values)
  OBVIOUS
<1>2. v \in 1 .. m /\ IsResult(g, v)
  BY <1>1
<1>3. /\ DOMAIN ProducerOf(g, v).inputs = 1 .. Len(ProducerOf(g, v).inputs)
      /\ Len(ProducerOf(g, v).inputs) = IF Binary(ProducerOf(g, v).op) THEN 2 ELSE 1
      /\ \A k \in 1 .. Len(ProducerOf(g, v).inputs) : ProducerOf(g, v).inputs[k] \in 1 .. m
  BY <1>1, <1>2, SoundTables, ZenonT(60)
<1>4. Len(ProducerOf(g, v).inputs) \in {1, 2}
  BY <1>3
<1>5. \A k \in 1 .. Len(ProducerOf(g, v).inputs) : ProducerOf(g, v).inputs[k] \in 1 .. Len(g.values)
  BY <1>1, <1>3
<1> QED BY <1>3, <1>4, <1>5, Zenon

\* addConstant: the tables after it.
LEMMA ConstantForm ==
  ASSUME NEW g, GraphOK(g), NEW m, m = Len(g.values), NEW p, NEW h, h = AddConstant(g, p)
  PROVE  /\ Len(h.values) = m + 1 /\ m \in Nat
         /\ \A v \in 1 .. m : h.values[v] = g.values[v]
         /\ h.values[m + 1].kind = "constant" /\ h.values[m + 1].payload = p
         /\ h.nodes = g.nodes /\ h.outputs = g.outputs /\ h.chain = g.chain /\ h.rep = g.rep
<1>1. PICK v : v = Value("constant", p, 0)
  OBVIOUS
<1>2. v.kind = "constant" /\ v.payload = p /\ h = AllocateValue(g, v)
  BY <1>1 DEF Value, AddConstant
<1>3. TablesOK(g) /\ IsSequence(g.values)
  BY DEF GraphOK, TablesOK
<1>4. h = [values |-> Append(g.values, v), nodes |-> g.nodes, users |-> Append(g.users, <<>>),
           outputs |-> g.outputs, chain |-> g.chain, rep |-> g.rep]
  BY <1>2, <1>3, Allocated
<1>5. /\ h.values = Append(g.values, v) /\ h.nodes = g.nodes /\ h.outputs = g.outputs
      /\ h.chain = g.chain /\ h.rep = g.rep
  BY <1>4
<1>6. /\ Len(h.values) = m + 1 /\ m \in Nat /\ h.values[m + 1] = v
      /\ \A w \in 1 .. m : h.values[w] = g.values[w]
  BY <1>3, <1>5, SequenceAppend
<1> QED BY <1>2, <1>5, <1>6

\* addNode: the tables after it.
AfterNode(g, h, m, c, op, inputs, attr) ==
  /\ Len(h.values) = m + 1 /\ m \in Nat /\ Len(h.nodes) = c + 1 /\ c \in Nat
  /\ \A v \in 1 .. m : h.values[v] = g.values[v]
  /\ h.values[m + 1].kind = "result" /\ h.values[m + 1].producer = c + 1
  /\ \A n \in 1 .. c : h.nodes[n] = g.nodes[n]
  /\ h.nodes[c + 1].op = op /\ h.nodes[c + 1].inputs = inputs /\ h.nodes[c + 1].attr = attr
  /\ h.nodes[c + 1].result = m + 1 /\ h.nodes[c + 1].dead = FALSE /\ h.nodes[c + 1].id = c + 1
  /\ h.outputs = g.outputs /\ h.rep = g.rep
  /\ h.chain = IF Effectful(op) THEN Append(g.chain, c + 1) ELSE g.chain

\* The tables after addNode, one by one.
LEMMA NodeForms ==
  ASSUME NEW g, GraphOK(g), NEW m, m = Len(g.values), NEW c, c = Len(g.nodes),
         NEW op, NEW inputs, NEW attr, NEW h, h = AddNode(g, op, inputs, attr)
  PROVE  AfterNode(g, h, m, c, op, inputs, attr)
<1> DEFINE node == [id |-> c + 1, op |-> op, attr |-> attr, inputs |-> inputs, result |-> m + 1, dead |-> FALSE]
           v == Value("result", 0, c + 1)
           a == AllocateValue(g, v)
           users == [w \in DOMAIN a.users |-> a.users[w] \o UseEntries(node, w)]
           chain == IF Effectful(op) THEN Append(a.chain, c + 1) ELSE a.chain
<1>1. v.kind = "result" /\ v.producer = c + 1
  BY DEF Value
<1>2. /\ node.id = c + 1 /\ node.op = op /\ node.inputs = inputs /\ node.attr = attr
      /\ node.result = m + 1 /\ node.dead = FALSE
  OBVIOUS
<1>3. TablesOK(g) /\ IsSequence(g.values) /\ IsSequence(g.nodes)
  BY DEF GraphOK, TablesOK
<1>4. h = [a EXCEPT !.nodes = Append(a.nodes, node), !.users = users, !.chain = chain]
  <2>1. h = [a EXCEPT !.nodes = Append(@, node),
                      !.users = [w \in DOMAIN @ |-> @[w] \o UseEntries(node, w)],
                      !.chain = IF Effectful(op) THEN Append(@, node.id) ELSE @]
    BY DEF AddNode
  <2> HIDE DEF node, v, a
  <2> QED BY <2>1, <1>2
<1> HIDE DEF node, v, users
<1>5. a = [values |-> Append(g.values, v), nodes |-> g.nodes, users |-> Append(g.users, <<>>),
           outputs |-> g.outputs, chain |-> g.chain, rep |-> g.rep]
  BY <1>3, Allocated
<1> HIDE DEF a
<1>6. /\ a.nodes = g.nodes /\ a.chain = g.chain
  BY <1>5
<1>7. /\ h.values = Append(g.values, v) /\ h.nodes = Append(g.nodes, node) /\ h.outputs = g.outputs
      /\ h.rep = g.rep /\ h.chain = chain
  <2> HIDE DEF chain
  <2>1. h = [values |-> Append(g.values, v), nodes |-> Append(g.nodes, node), users |-> users,
             outputs |-> g.outputs, chain |-> chain, rep |-> g.rep]
    BY <1>4, <1>5, <1>6
  <2> QED BY <2>1
<1>8. /\ Len(h.values) = m + 1 /\ m \in Nat /\ h.values[m + 1] = v
      /\ \A w \in 1 .. m : h.values[w] = g.values[w]
  BY <1>3, <1>7, SequenceAppend
<1>9. /\ Len(h.nodes) = c + 1 /\ c \in Nat /\ h.nodes[c + 1] = node
      /\ \A n \in 1 .. c : h.nodes[n] = g.nodes[n]
  BY <1>3, <1>7, SequenceAppend
<1> QED BY <1>1, <1>2, <1>6, <1>7, <1>8, <1>9 DEF AfterNode

\* What an operation computes depends on the values of its operands alone.
LEMMA NodeValueSame ==
  ASSUME NEW node, NEW a, NEW b, Len(node.inputs) \in {1, 2},
         \A k \in 1 .. Len(node.inputs) : a[node.inputs[k]] = b[node.inputs[k]]
  PROVE  NodeValue(node, a) = NodeValue(node, b)
<1>1. PICK s, l : s = node.inputs /\ l = Len(s)
  OBVIOUS
<1>2. l \in {1, 2} /\ \A k \in 1 .. l : a[s[k]] = b[s[k]]
  BY <1>1
<1>3. a[s[1]] = b[s[1]] /\ (l > 1 => a[s[2]] = b[s[2]])
  BY <1>2
<1> QED BY <1>1, <1>3 DEF NodeValue

\* A graph that grows keeps its terms.
LEMMA TermsKept ==
  ASSUME NEW g, GraphOK(g), NEW h, Grown(g, h), NEW m, m = Len(g.values), NEW v \in 1 .. m
  PROVE  /\ h.values[v] = g.values[v]
         /\ IsResult(h, v) <=> IsResult(g, v)
         /\ IsConstant(h, v) <=> IsConstant(g, v)
         /\ IsResult(g, v) => ProducerOf(h, v) = ProducerOf(g, v)
         /\ Available(h, v) <=> Available(g, v)
         /\ \A x : BoundInput(h, x, v) = BoundInput(g, x, v)
<1>1. h.values[v] = g.values[v] /\ m \in Nat
  BY SoundTables DEF Grown
<1>2. IsResult(g, v) => ProducerOf(h, v) = ProducerOf(g, v)
  <2>1. IsResult(g, v) => g.values[v].producer \in 1 .. Len(g.nodes)
    BY SoundTables
  <2> QED BY <1>1, <2>1 DEF ProducerOf, Grown
<1>3. \A w \in 1 .. v : h.values[w] = g.values[w]
  BY <1>1 DEF Grown
<1>4. {w \in 1 .. v : h.values[w].kind = "placeholder"} = {w \in 1 .. v : g.values[w].kind = "placeholder"}
  BY <1>3
<1> QED BY <1>1, <1>2, <1>4 DEF IsResult, IsConstant, Available, BoundInput

\* The rank of one more value.
LEMMA RankExtended ==
  ASSUME NEW g, GraphOK(g), NEW h, Grown(g, h), NEW m, m = Len(g.values), Len(h.values) = m + 1,
         NEW b \in Nat, NEW rank, Ranks(g, b, rank), NEW t \in 0 .. b,
         IsResult(h, m + 1) => \A k \in 1 .. Len(ProducerOf(h, m + 1).inputs) :
           /\ ProducerOf(h, m + 1).inputs[k] \in 1 .. m
           /\ rank[ProducerOf(h, m + 1).inputs[k]] < t
  PROVE  Ranks(h, b, Extended(rank, m, t))
<1>1. PICK new : new = Extended(rank, m, t)
  OBVIOUS
<1>2. m \in Nat /\ rank \in [1 .. m -> 0 .. b]
  BY SoundTables DEF Ranks
<1>3. /\ new[m + 1] = t /\ \A v \in 1 .. m : new[v] = rank[v]
      /\ new \in [1 .. m + 1 -> 0 .. b]
  BY <1>1, <1>2 DEF Extended
<1>4. ASSUME NEW v \in 1 .. m + 1, IsResult(h, v), NEW k \in 1 .. Len(ProducerOf(h, v).inputs)
      PROVE  new[ProducerOf(h, v).inputs[k]] < new[v]
  <2>1. CASE v = m + 1
    BY <1>3, <1>4, <2>1
  <2>2. CASE v # m + 1
    <3>1. v \in 1 .. m
      BY <1>2, <2>2
    <3>2. IsResult(g, v) /\ ProducerOf(h, v) = ProducerOf(g, v)
      BY <1>4, <3>1, TermsKept
    <3>3. \A j \in 1 .. Len(ProducerOf(g, v).inputs) : ProducerOf(g, v).inputs[j] \in 1 .. m
      BY <3>1, <3>2, SoundTables
    <3>4. \A j \in 1 .. Len(ProducerOf(g, v).inputs) : rank[ProducerOf(g, v).inputs[j]] < rank[v]
      BY <3>1, <3>2 DEF Ranks
    <3> QED BY <1>3, <1>4, <3>1, <3>2, <3>3, <3>4
  <2> QED BY <2>1, <2>2
<1> QED BY <1>1, <1>3, <1>4 DEF Ranks

\* What one more value denotes.
LEMMA DenotesExtended ==
  ASSUME NEW g, GraphOK(g), NEW h, Grown(g, h), NEW m, m = Len(g.values), Len(h.values) = m + 1,
         NEW x, NEW den, Denotes(g, x, den), NEW y \in Residues,
         h.values[m + 1].kind \in {"constant", "result"},
         IsConstant(h, m + 1) => y = h.values[m + 1].payload,
         IsResult(h, m + 1) =>
           /\ Len(ProducerOf(h, m + 1).inputs) \in {1, 2}
           /\ \A k \in 1 .. Len(ProducerOf(h, m + 1).inputs) : ProducerOf(h, m + 1).inputs[k] \in 1 .. m
           /\ y = NodeValue(ProducerOf(h, m + 1), den)
  PROVE  Denotes(h, x, Extended(den, m, y))
<1>1. PICK new : new = Extended(den, m, y)
  OBVIOUS
<1>2. m \in Nat /\ den \in [1 .. m -> Residues]
  BY SoundTables DEF Denotes
<1>3. /\ new[m + 1] = y /\ \A v \in 1 .. m : new[v] = den[v]
      /\ new \in [1 .. m + 1 -> Residues]
  BY <1>1, <1>2, ExtendedIs
<1>4. ASSUME NEW v \in 1 .. m + 1
      PROVE  /\ IsConstant(h, v) => new[v] = h.values[v].payload
             /\ h.values[v].kind = "placeholder" => new[v] = BoundInput(h, x, v)
             /\ IsResult(h, v) => new[v] = NodeValue(ProducerOf(h, v), new)
  <2>1. CASE v = m + 1
    <3>1. h.values[v].kind # "placeholder"
      BY <2>1
    <3>2. IsResult(h, v) => NodeValue(ProducerOf(h, v), den) = NodeValue(ProducerOf(h, v), new)
      BY <1>3, <2>1, NodeValueSame, SMTT(30)
    <3> QED BY <1>3, <2>1, <3>1, <3>2
  <2>2. CASE v # m + 1
    <3>1. v \in 1 .. m
      BY <1>2, <2>2
    <3>2. /\ h.values[v] = g.values[v]
          /\ IsResult(h, v) <=> IsResult(g, v)
          /\ IsConstant(h, v) <=> IsConstant(g, v)
          /\ IsResult(g, v) => ProducerOf(h, v) = ProducerOf(g, v)
          /\ BoundInput(h, x, v) = BoundInput(g, x, v)
      BY <3>1, TermsKept
    <3>3. /\ IsConstant(g, v) => den[v] = g.values[v].payload
          /\ g.values[v].kind = "placeholder" => den[v] = BoundInput(g, x, v)
          /\ IsResult(g, v) => den[v] = NodeValue(ProducerOf(g, v), den)
      BY <3>1 DEF Denotes
    <3>4. IsResult(g, v) => NodeValue(ProducerOf(g, v), den) = NodeValue(ProducerOf(g, v), new)
      <4>1. IsResult(g, v) =>
              /\ Len(ProducerOf(g, v).inputs) = IF Binary(ProducerOf(g, v).op) THEN 2 ELSE 1
              /\ \A k \in 1 .. Len(ProducerOf(g, v).inputs) : ProducerOf(g, v).inputs[k] \in 1 .. m
        BY <3>1, SoundTables
      <4>2. ASSUME NEW node, IsResult(g, v), node = ProducerOf(g, v)
            PROVE  NodeValue(node, den) = NodeValue(node, new)
        <5>1. Len(node.inputs) \in {1, 2} /\ \A k \in 1 .. Len(node.inputs) : node.inputs[k] \in 1 .. m
          BY <4>1, <4>2
        <5>2. \A k \in 1 .. Len(node.inputs) : den[node.inputs[k]] = new[node.inputs[k]]
          BY <1>3, <5>1
        <5> QED BY <5>1, <5>2, NodeValueSame
      <4> QED BY <4>2
    <3> QED BY <1>3, <3>1, <3>2, <3>3, <3>4
  <2> QED BY <2>1, <2>2
<1> QED BY <1>1, <1>3, <1>4 DEF Denotes

\* A new constant.
LEMMA ConstantSound ==
  ASSUME NEW g, Sound(g), NEW m, m = Len(g.values), NEW p \in Residues, NEW h, h = AddConstant(g, p)
  PROVE  /\ Sound(h) /\ Grown(g, h) /\ Len(h.values) = m + 1 /\ m \in Nat /\ h.nodes = g.nodes
         /\ h.outputs = g.outputs /\ h.chain = g.chain /\ h.rep = g.rep
         /\ IsConstant(h, m + 1) /\ h.values[m + 1].payload = p
         /\ LiveBelow(g) => LiveBelow(h)
<1>1. GraphOK(g) /\ LinksOK(g) /\ RepOK(g)
  BY DEF Sound
<1>2. /\ Len(h.values) = m + 1 /\ m \in Nat
      /\ \A v \in 1 .. m : h.values[v] = g.values[v]
      /\ h.values[m + 1].kind = "constant" /\ h.values[m + 1].payload = p
      /\ h.nodes = g.nodes /\ h.outputs = g.outputs /\ h.chain = g.chain /\ h.rep = g.rep
  BY <1>1, ConstantForm
<1>3. GraphOK(h) /\ Grown(g, h)
  BY <1>1, ConstantAdded
<1>4. \A v \in 1 .. m : /\ IsResult(h, v) <=> IsResult(g, v)
                        /\ IsConstant(h, v) <=> IsConstant(g, v)
                        /\ IsResult(g, v) => ProducerOf(h, v) = ProducerOf(g, v)
                        /\ Available(h, v) <=> Available(g, v)
  BY <1>1, <1>3, TermsKept
<1>5. \A n \in 1 .. Len(g.nodes) :
        /\ g.nodes[n].result \in 1 .. m
        /\ \A k \in 1 .. Len(g.nodes[n].inputs) : g.nodes[n].inputs[k] \in 1 .. m
  BY <1>1, SoundTables
<1>6. LinksOK(h)
  <2>1. ASSUME NEW v \in 1 .. m + 1
        PROVE  /\ h.values[v].kind \in {"placeholder", "constant", "result"}
               /\ IsConstant(h, v) => h.values[v].payload \in Residues
               /\ IsResult(h, v) => ProducerOf(h, v).result = v
    <3>1. CASE v = m + 1
      BY <1>2, <3>1 DEF IsResult
    <3>2. CASE v \in 1 .. m
      BY <1>1, <1>2, <1>4, <3>2 DEF LinksOK
    <3> QED BY <1>2, <3>1, <3>2
  <2>2. ASSUME NEW n \in 1 .. Len(g.nodes)
        PROVE  /\ h.nodes[n].op \in Computed
               /\ IsResult(h, h.nodes[n].result)
               /\ ~h.nodes[n].dead => h.values[h.nodes[n].result].producer = n
    BY <1>1, <1>2, <1>4, <1>5, SMTT(30) DEF LinksOK
  <2> QED BY <1>2, <2>1, <2>2 DEF LinksOK
<1>7. RepOK(h)
  <2>1. ASSUME NEW v \in DOMAIN h.rep PROVE v \in 1 .. m + 1 /\ ~Available(h, v)
    <3>1. v \in 1 .. m /\ ~Available(g, v)
      BY <1>1, <1>2, <2>1 DEF RepOK
    <3> QED BY <1>2, <1>4, <3>1
  <2> QED BY <1>1, <1>2, <2>1 DEF RepOK
<1>8. ASSUME LiveBelow(g) PROVE LiveBelow(h)
  <2>1. \A k \in 1 .. Len(g.outputs) : g.outputs[k] \in 1 .. m
    BY <1>1 DEF GraphOK, OutputsOK
  <2> QED BY <1>2, <1>4, <1>5, <1>8, <2>1 DEF LiveBelow
<1> QED BY <1>2, <1>3, <1>6, <1>7, <1>8 DEF Sound, IsConstant

\* The operands of an operation, values that nothing has replaced.
MayRead(g, op, inputs) ==
  /\ IsSequence(inputs) /\ Len(inputs) = IF Binary(op) THEN 2 ELSE 1
  /\ \A k \in 1 .. Len(inputs) : inputs[k] \in 1 .. Len(g.values) /\ inputs[k] \notin DOMAIN g.rep

\* A new node over them.
WithNode(g, h, m, c, op, inputs) ==
  /\ Sound(h) /\ Grown(g, h) /\ Len(h.values) = m + 1 /\ m \in Nat
  /\ Len(h.nodes) = c + 1 /\ c \in Nat
  /\ h.outputs = g.outputs /\ h.rep = g.rep
  /\ h.chain = IF Effectful(op) THEN Append(g.chain, c + 1) ELSE g.chain
  /\ IsResult(h, m + 1) /\ ~IsConstant(h, m + 1) /\ Available(h, m + 1)
  /\ h.nodes[c + 1].dead = FALSE /\ h.nodes[c + 1].op = op /\ h.nodes[c + 1].inputs = inputs
  /\ ProducerOf(h, m + 1) = h.nodes[c + 1]
  /\ LiveBelow(g) /\ (\A k \in 1 .. Len(inputs) : Available(g, inputs[k])) => LiveBelow(h)

\* A node added over operands that may be read leaves the graph sound.
LEMMA NodeSound ==
  ASSUME NEW g, Sound(g), NEW m, m = Len(g.values), NEW c, c = Len(g.nodes),
         NEW op \in Computed, NEW inputs, MayRead(g, op, inputs),
         NEW attr, NEW h, h = AddNode(g, op, inputs, attr)
  PROVE  WithNode(g, h, m, c, op, inputs)
<1>1. /\ IsSequence(inputs) /\ Len(inputs) = IF Binary(op) THEN 2 ELSE 1
      /\ \A k \in 1 .. Len(inputs) : inputs[k] \in 1 .. m /\ inputs[k] \notin DOMAIN g.rep
  BY DEF MayRead
<1>2. GraphOK(g) /\ LinksOK(g) /\ RepOK(g)
  BY DEF Sound
<1>3. /\ Len(h.values) = m + 1 /\ m \in Nat /\ Len(h.nodes) = c + 1 /\ c \in Nat
      /\ \A v \in 1 .. m : h.values[v] = g.values[v]
      /\ h.values[m + 1].kind = "result" /\ h.values[m + 1].producer = c + 1
      /\ \A n \in 1 .. c : h.nodes[n] = g.nodes[n]
      /\ h.nodes[c + 1].op = op /\ h.nodes[c + 1].inputs = inputs
      /\ h.nodes[c + 1].result = m + 1 /\ h.nodes[c + 1].dead = FALSE
      /\ h.outputs = g.outputs /\ h.rep = g.rep
      /\ h.chain = IF Effectful(op) THEN Append(g.chain, c + 1) ELSE g.chain
  <2>1. AfterNode(g, h, m, c, op, inputs, attr)
    BY <1>1, <1>2, NodeForms
  <2> QED BY <2>1 DEF AfterNode
<1>4. GraphOK(h) /\ Grown(g, h)
  BY <1>1, <1>2, NodeAdded
<1>5. \A v \in 1 .. m : /\ IsResult(h, v) <=> IsResult(g, v)
                        /\ IsConstant(h, v) <=> IsConstant(g, v)
                        /\ IsResult(g, v) => ProducerOf(h, v) = ProducerOf(g, v)
                        /\ Available(h, v) <=> Available(g, v)
  BY <1>2, <1>4, TermsKept
<1>6. \A n \in 1 .. c :
        /\ g.nodes[n].result \in 1 .. m
        /\ \A k \in 1 .. Len(g.nodes[n].inputs) : g.nodes[n].inputs[k] \in 1 .. m
  BY <1>2, SoundTables, SMTT(30)
<1>7. /\ IsResult(h, m + 1) /\ ~IsConstant(h, m + 1) /\ Available(h, m + 1)
      /\ ProducerOf(h, m + 1) = h.nodes[c + 1]
  BY <1>3 DEF IsResult, IsConstant, Available, ProducerOf
<1>8. LinksOK(h)
  <2>1. ASSUME NEW v \in 1 .. m + 1
        PROVE  /\ h.values[v].kind \in {"placeholder", "constant", "result"}
               /\ IsConstant(h, v) => h.values[v].payload \in Residues
               /\ IsResult(h, v) => ProducerOf(h, v).result = v
    <3>1. CASE v = m + 1
      BY <1>3, <1>7, <3>1
    <3>2. CASE v \in 1 .. m
      BY <1>2, <1>3, <1>5, <3>2, SMTT(30) DEF LinksOK
    <3> QED BY <1>3, <3>1, <3>2
  <2>2. ASSUME NEW n \in 1 .. c + 1
        PROVE  /\ h.nodes[n].op \in Computed
               /\ IsResult(h, h.nodes[n].result)
               /\ ~h.nodes[n].dead => h.values[h.nodes[n].result].producer = n
    <3>1. CASE n = c + 1
      BY <1>3, <1>7, <3>1
    <3>2. CASE n \in 1 .. c
      <4>1. PICK node : node = g.nodes[n] /\ node = h.nodes[n]
        BY <1>3, <3>2
      <4>2. /\ node.op \in Computed /\ IsResult(g, node.result)
            /\ ~node.dead => g.values[node.result].producer = n
        BY <1>2, <3>2, <4>1 DEF LinksOK
      <4>3. node.result \in 1 .. m
        BY <1>6, <3>2, <4>1
      <4>4. IsResult(h, node.result) /\ h.values[node.result] = g.values[node.result]
        BY <1>3, <1>5, <4>2, <4>3
      <4> QED BY <4>1, <4>2, <4>4
    <3> QED BY <1>3, <3>1, <3>2
  <2> QED BY <1>3, <2>1, <2>2 DEF LinksOK
<1>9. RepOK(h)
  <2>1. ASSUME NEW v \in DOMAIN h.rep PROVE v \in 1 .. m + 1 /\ ~Available(h, v)
    <3>1. v \in 1 .. m /\ ~Available(g, v)
      BY <1>2, <1>3, <2>1 DEF RepOK
    <3> QED BY <1>3, <1>5, <3>1
  <2>2. ASSUME NEW n \in 1 .. c + 1, ~h.nodes[n].dead, NEW k \in 1 .. Len(h.nodes[n].inputs)
        PROVE  h.nodes[n].inputs[k] \notin DOMAIN h.rep
    <3>1. CASE n = c + 1
      BY <1>1, <1>3, <2>2, <3>1
    <3>2. CASE n \in 1 .. c
      BY <1>2, <1>3, <2>2, <3>2 DEF RepOK
    <3> QED BY <1>3, <3>1, <3>2
  <2> QED BY <1>2, <1>3, <2>1, <2>2 DEF RepOK
<1>10. ASSUME LiveBelow(g), \A k \in 1 .. Len(inputs) : Available(g, inputs[k]) PROVE LiveBelow(h)
  <2>1. \A k \in 1 .. Len(g.outputs) : g.outputs[k] \in 1 .. m /\ Available(g, g.outputs[k])
    BY <1>2, <1>10 DEF GraphOK, OutputsOK, LiveBelow
  <2>2. ASSUME NEW n \in 1 .. c + 1, ~h.nodes[n].dead, NEW k \in 1 .. Len(h.nodes[n].inputs)
        PROVE  Available(h, h.nodes[n].inputs[k])
    <3>1. CASE n = c + 1
      BY <1>1, <1>3, <1>5, <1>10, <2>2, <3>1
    <3>2. CASE n \in 1 .. c
      <4>1. h.nodes[n] = g.nodes[n] /\ ~g.nodes[n].dead /\ k \in 1 .. Len(g.nodes[n].inputs)
        BY <1>3, <2>2, <3>2
      <4>2. Available(g, g.nodes[n].inputs[k]) /\ g.nodes[n].inputs[k] \in 1 .. m
        BY <1>6, <1>10, <3>2, <4>1 DEF LiveBelow
      <4> QED BY <1>5, <4>1, <4>2
    <3> QED BY <1>3, <3>1, <3>2
  <2> QED BY <1>3, <1>5, <2>1, <2>2 DEF LiveBelow
<1> QED BY <1>3, <1>4, <1>7, <1>8, <1>9, <1>10 DEF Sound, WithNode

-----------------------------------------------------------------------------
(***************************************************************************)
(* Structural equality of values: a recursion over pairs of values, which  *)
(* is well defined because ranks decrease.                                 *)
(***************************************************************************)

\* What structurallyEqualValues answers for the pair p from its answers f for
\* pairs of operands.
EqualBody(g, f, p) ==
  LET a == g.values[p[1]]
      b == g.values[p[2]]
      m == g.nodes[a.producer]
      n == g.nodes[b.producer]
  IN \/ p[1] = p[2]
     \/ a.kind = b.kind /\ a.kind # "result" /\ a.payload = b.payload
     \/ /\ a.kind = "result" /\ b.kind = "result"
        /\ m.op = n.op /\ m.attr = n.attr /\ Len(m.inputs) = Len(n.inputs)
        /\ \A k \in DOMAIN m.inputs : f[<<m.inputs[k], n.inputs[k]>>]

Answers(g) ==
  CHOOSE f : f = [p \in (DOMAIN g.values) \X (DOMAIN g.values) |-> EqualBody(g, f, p)]

\* The name stands for the recursion.
LEMMA EqualIsAnswer ==
  ASSUME NEW g, NEW v, NEW w
  PROVE  StructurallyEqual(g, v, w) = Answers(g)[<<v, w>>]
BY DEF StructurallyEqual, Answers, EqualBody

Pairs(m) == (1 .. m) \X (1 .. m)

\* e and f answer alike on the pairs of smaller rank than p.
AgreeBelow(m, rank, p, e, f) == \A q \in Pairs(m) : rank[q[1]] < rank[p[1]] => e[q] = f[q]

\* The answer for a pair looks at pairs of smaller rank.
LEMMA EqualLooksBelow ==
  ASSUME NEW g, GraphOK(g), NEW m, m = Len(g.values), NEW b, NEW rank, Ranks(g, b, rank),
         NEW p \in Pairs(m), NEW e, NEW f, AgreeBelow(m, rank, p, e, f)
  PROVE  EqualBody(g, e, p) = EqualBody(g, f, p)
<1>1. PICK v, w : v = p[1] /\ w = p[2]
  OBVIOUS
<1>2. v \in 1 .. m /\ w \in 1 .. m
  BY <1>1 DEF Pairs
<1> DEFINE s == ProducerOf(g, v).inputs
           t == ProducerOf(g, w).inputs
<1>3. ASSUME IsResult(g, v), IsResult(g, w), Len(s) = Len(t), NEW k \in DOMAIN s
      PROVE  e[<<s[k], t[k]>>] = f[<<s[k], t[k]>>]
  <2>1. /\ DOMAIN s = 1 .. Len(s)
        /\ \A j \in 1 .. Len(s) : s[j] \in 1 .. m
        /\ \A j \in 1 .. Len(t) : t[j] \in 1 .. m
    BY <1>2, <1>3, ProducerInputs
  <2>2. \A j \in 1 .. Len(s) : rank[s[j]] < rank[v]
    BY <1>2, <1>3 DEF Ranks
  <2> HIDE DEF s, t
  <2>3. s[k] \in 1 .. m /\ t[k] \in 1 .. m /\ rank[s[k]] < rank[v]
    BY <1>3, <2>1, <2>2
  <2>4. PICK q : q = <<s[k], t[k]>>
    OBVIOUS
  <2>5. q \in Pairs(m) /\ q[1] = s[k]
    BY <2>3, <2>4 DEF Pairs
  <2> QED BY <1>1, <2>3, <2>4, <2>5 DEF AgreeBelow
<1>4. EqualBody(g, e, p) <=> EqualBody(g, f, p)
  <2>1. CASE IsResult(g, v) /\ IsResult(g, w) /\ Len(s) = Len(t)
    <3>1. (\A k \in DOMAIN s : e[<<s[k], t[k]>>]) <=> (\A k \in DOMAIN s : f[<<s[k], t[k]>>])
      <4> HIDE DEF s, t
      <4> QED BY <1>3, <2>1
    <3> QED BY <1>1, <3>1, ZenonT(30) DEF EqualBody, ProducerOf
  <2>2. CASE ~(IsResult(g, v) /\ IsResult(g, w) /\ Len(s) = Len(t))
    BY <1>1, <2>2, ZenonT(30) DEF EqualBody, ProducerOf, IsResult
  <2> QED BY <2>1, <2>2
<1>5. EqualBody(g, e, p) \in BOOLEAN /\ EqualBody(g, f, p) \in BOOLEAN
  BY DEF EqualBody
<1> QED BY <1>4, <1>5

\* So the recursion has a solution, and the answers are one.
LEMMA AnswersEquation ==
  ASSUME NEW g, GraphOK(g), Ranked(g), NEW m, m = Len(g.values)
  PROVE  Answers(g) = [p \in Pairs(m) |-> EqualBody(g, Answers(g), p)]
<1> DEFINE D == Pairs(m)
<1>1. DOMAIN g.values = 1 .. m /\ m \in Nat
  BY SoundTables
<1>2. PICK b, rank : b \in Nat /\ Ranks(g, b, rank)
  BY DEF Ranked
<1>3. PICK level : level = [p \in D |-> rank[p[1]]]
  OBVIOUS
<1>4. \A p \in D : level[p] \in Nat /\ level[p] < b + 1
  <2>1. \A v \in 1 .. m : rank[v] \in 0 .. b
    BY <1>2 DEF Ranks
  <2>2. \A p \in D : p[1] \in 1 .. m /\ level[p] = rank[p[1]]
    BY <1>3 DEF Pairs
  <2>3. \A r \in 0 .. b : r \in Nat /\ r < b + 1
    BY <1>2
  <2> HIDE DEF D
  <2> QED BY <2>1, <2>2, <2>3
<1>5. ASSUME NEW p \in D, NEW e, NEW f, \A q \in D : level[q] < level[p] => e[q] = f[q]
      PROVE  EqualBody(g, e, p) = EqualBody(g, f, p)
  <2>1. \A q \in D : level[q] = rank[q[1]]
    BY <1>3
  <2>2. AgreeBelow(m, rank, p, e, f)
    BY <1>5, <2>1 DEF AgreeBelow
  <2> QED BY <1>2, <2>2, EqualLooksBelow
<1> DEFINE Solves(f, l) == \A p \in D : level[p] < l => f[p] = EqualBody(g, f, p)
           Unsolved == {l \in 0 .. b + 1 : ~\E f : Solves(f, l)}
<1> HIDE DEF D
<1>6. Unsolved = {}
  <2> SUFFICES ASSUME Unsolved # {} PROVE FALSE
    OBVIOUS
  <2>1. PICK l \in Unsolved : \A k \in Unsolved : l <= k
    <3>1. Unsolved \in SUBSET Nat
      OBVIOUS
    <3> HIDE DEF Unsolved
    <3> QED BY <3>1, WithinFold!LeastNatural
  <2>2. l # 0
    <3>1. \A p \in D : ~(level[p] < 0)
      BY <1>4
    <3>2. Solves(0, 0)
      BY <3>1
    <3> QED BY <3>2
  <2>3. l \in Nat /\ l # 0
    BY <2>1, <2>2
  <2>4. PICK f : Solves(f, l - 1)
    <3> HIDE DEF Solves
    <3>1. l - 1 \in 0 .. b + 1 /\ l - 1 \notin Unsolved
      BY <1>2, <2>1, <2>2
    <3> QED BY <3>1
  <2>5. PICK h : h = [p \in D |-> EqualBody(g, f, p)]
    OBVIOUS
  <2>6. \A p \in D : level[p] < l - 1 => h[p] = f[p]
    BY <2>4, <2>5
  <2>7. ASSUME NEW p \in D, level[p] < l PROVE h[p] = EqualBody(g, h, p)
    <3>1. ASSUME NEW q \in D, level[q] < level[p] PROVE h[q] = f[q]
      <4>1. level[q] \in Nat /\ level[p] \in Nat
        BY <1>4
      <4>2. level[q] < l - 1
        BY <2>3, <2>7, <3>1, <4>1
      <4> QED BY <2>6, <4>2
    <3>2. EqualBody(g, h, p) = EqualBody(g, f, p)
      BY <1>5, <3>1
    <3> QED BY <2>5, <3>2
  <2>8. Solves(h, l)
    BY <2>7
  <2> HIDE DEF Solves
  <2> QED BY <2>1, <2>8
<1>7. \E f : Solves(f, b + 1)
  <2> HIDE DEF Solves
  <2>1. b + 1 \in 0 .. b + 1
    BY <1>2
  <2> QED BY <2>1, <1>6
<1>8. PICK f : \A p \in D : f[p] = EqualBody(g, f, p)
  BY <1>4, <1>7
<1>9. PICK h : h = [p \in D |-> f[p]]
  OBVIOUS
<1>10. \A p \in D : h[p] = f[p]
  BY <1>9
<1>11. \A p \in D : EqualBody(g, h, p) = EqualBody(g, f, p)
  BY <1>5, <1>10
<1>12. h = [p \in D |-> EqualBody(g, h, p)]
  BY <1>8, <1>9, <1>11
<1>13. Answers(g) = CHOOSE e : e = [p \in D |-> EqualBody(g, e, p)]
  BY <1>1 DEF Answers, D, Pairs
<1>14. Answers(g) = [p \in D |-> EqualBody(g, Answers(g), p)]
  BY <1>12, <1>13
<1> QED BY <1>14 DEF D

\* Two results made by one operation on operands that are equal one by one.
SameMade(g, v, w) ==
  /\ IsResult(g, v) /\ IsResult(g, w)
  /\ ProducerOf(g, v).op = ProducerOf(g, w).op /\ ProducerOf(g, v).attr = ProducerOf(g, w).attr
  /\ Len(ProducerOf(g, v).inputs) = Len(ProducerOf(g, w).inputs)
  /\ \A k \in 1 .. Len(ProducerOf(g, v).inputs) :
       StructurallyEqual(g, ProducerOf(g, v).inputs[k], ProducerOf(g, w).inputs[k])

SameLeaf(g, v, w) ==
  ~IsResult(g, v) /\ g.values[v].kind = g.values[w].kind /\ g.values[v].payload = g.values[w].payload

\* The equation of structural equality.
LEMMA EqualMeans ==
  ASSUME NEW g, GraphOK(g), Ranked(g), NEW m, m = Len(g.values), NEW v \in 1 .. m, NEW w \in 1 .. m
  PROVE  StructurallyEqual(g, v, w) <=> v = w \/ SameLeaf(g, v, w) \/ SameMade(g, v, w)
<1>1. PICK p : p = <<v, w>>
  OBVIOUS
<1>2. p \in Pairs(m) /\ p[1] = v /\ p[2] = w
  BY <1>1 DEF Pairs
<1>3. StructurallyEqual(g, v, w) = EqualBody(g, Answers(g), p)
  <2>1. Answers(g) = [q \in Pairs(m) |-> EqualBody(g, Answers(g), q)]
    BY AnswersEquation
  <2>2. Answers(g)[p] = EqualBody(g, Answers(g), p)
    BY <1>2, <2>1
  <2> QED BY <1>1, <2>2, EqualIsAnswer
<1>4. \A x, y : Answers(g)[<<x, y>>] = StructurallyEqual(g, x, y)
  BY EqualIsAnswer
<1> DEFINE s == ProducerOf(g, v).inputs
           t == ProducerOf(g, w).inputs
<1>5. IsResult(g, v) => DOMAIN s = 1 .. Len(s)
  BY SoundTables, SMTT(30)
<1>6. ASSUME IsResult(g, v), IsResult(g, w)
      PROVE  EqualBody(g, Answers(g), p) <=> v = w \/ SameMade(g, v, w)
  <2>1. (\A k \in DOMAIN s : Answers(g)[<<s[k], t[k]>>])
          <=> (\A k \in 1 .. Len(s) : StructurallyEqual(g, s[k], t[k]))
    <3> HIDE DEF s, t
    <3> QED BY <1>4, <1>5, <1>6, ZenonT(60)
  <2> QED BY <1>2, <1>6, <2>1 DEF EqualBody, SameMade, ProducerOf, IsResult
<1>7. ASSUME ~(IsResult(g, v) /\ IsResult(g, w))
      PROVE  EqualBody(g, Answers(g), p) <=> v = w \/ SameLeaf(g, v, w)
  BY <1>2, <1>7 DEF EqualBody, SameLeaf, IsResult
<1> QED BY <1>3, <1>6, <1>7 DEF SameMade, SameLeaf, IsResult

\* Every operand of the value's producer is in S.
OperandsIn(g, v, S) == \A k \in 1 .. Len(ProducerOf(g, v).inputs) : ProducerOf(g, v).inputs[k] \in S

\* Induction from operands to results: a set that has every leaf, and every
\* result whose operands it has, has all values.
LEMMA RankInduction ==
  ASSUME NEW g, GraphOK(g), Ranked(g), NEW m, m = Len(g.values), NEW S,
         \A v \in 1 .. m : (IsResult(g, v) => OperandsIn(g, v, S)) => v \in S
  PROVE  \A v \in 1 .. m : v \in S
<1>1. PICK b, rank : b \in Nat /\ Ranks(g, b, rank)
  BY DEF Ranked
<1>2. \A v \in 1 .. m : rank[v] \in Nat
  BY <1>1 DEF Ranks
<1> DEFINE Absent == {v \in 1 .. m : v \notin S}
           R == {rank[v] : v \in Absent}
<1> SUFFICES ASSUME Absent # {} PROVE FALSE
  OBVIOUS
<1>3. R \in SUBSET Nat /\ R # {}
  BY <1>2
<1>4. PICK l \in R : \A k \in R : l <= k
  <2> HIDE DEF R
  <2> QED BY <1>3, WithinFold!LeastNatural
<1>5. PICK v \in Absent : l = rank[v]
  BY <1>4
<1>6. v \in 1 .. m /\ v \notin S
  BY <1>5
<1>7. \A w \in 1 .. m : rank[w] < rank[v] => w \in S
  <2>1. ASSUME NEW w \in 1 .. m, rank[w] < rank[v], w \notin S PROVE FALSE
    <3>1. rank[w] \in R
      BY <2>1
    <3>2. rank[v] <= rank[w] /\ rank[v] \in Nat /\ rank[w] \in Nat
      BY <1>2, <1>4, <1>5, <1>6, <2>1, <3>1
    <3> QED BY <2>1, <3>2
  <2> QED BY <2>1
<1>8. ASSUME IsResult(g, v) PROVE OperandsIn(g, v, S)
  <2>1. \A k \in 1 .. Len(ProducerOf(g, v).inputs) : rank[ProducerOf(g, v).inputs[k]] < rank[v]
    BY <1>1, <1>6, <1>8 DEF Ranks
  <2>2. \A k \in 1 .. Len(ProducerOf(g, v).inputs) : ProducerOf(g, v).inputs[k] \in 1 .. m
    BY <1>6, <1>8, ProducerInputs
  <2> QED BY <1>7, <2>1, <2>2 DEF OperandsIn
<1> QED BY <1>6, <1>8

\* Structural equality is an equivalence.
LEMMA EqualReflexive ==
  ASSUME NEW g, GraphOK(g), Ranked(g), NEW m, m = Len(g.values), NEW v \in 1 .. m
  PROVE  StructurallyEqual(g, v, v)
BY EqualMeans

\* Structural equality is symmetric.
LEMMA EqualSymmetric ==
  ASSUME NEW g, GraphOK(g), Ranked(g), NEW m, m = Len(g.values)
  PROVE  \A v, w \in 1 .. m : StructurallyEqual(g, v, w) => StructurallyEqual(g, w, v)
<1> DEFINE S == {v \in 1 .. m : \A w \in 1 .. m : StructurallyEqual(g, v, w) => StructurallyEqual(g, w, v)}
<1>1. ASSUME NEW v \in 1 .. m, IsResult(g, v) => OperandsIn(g, v, S) PROVE v \in S
  <2>1. ASSUME NEW w \in 1 .. m, StructurallyEqual(g, v, w) PROVE StructurallyEqual(g, w, v)
    <3>1. v = w \/ SameLeaf(g, v, w) \/ SameMade(g, v, w)
      BY <2>1, EqualMeans
    <3>2. CASE v = w
      BY <2>1, <3>2
    <3>3. CASE SameLeaf(g, v, w)
      <4>1. SameLeaf(g, w, v)
        BY <3>3 DEF SameLeaf, IsResult
      <4> QED BY <4>1, EqualMeans
    <3>4. CASE SameMade(g, v, w)
      <4>1. PICK s, t : s = ProducerOf(g, v).inputs /\ t = ProducerOf(g, w).inputs
        OBVIOUS
      <4>2. /\ IsResult(g, v) /\ IsResult(g, w) /\ Len(s) = Len(t)
            /\ \A k \in 1 .. Len(s) : StructurallyEqual(g, s[k], t[k])
        BY <3>4, <4>1 DEF SameMade
      <4>3. \A k \in 1 .. Len(s) : s[k] \in S
        BY <1>1, <4>1, <4>2 DEF OperandsIn
      <4>4. \A k \in 1 .. Len(t) : t[k] \in 1 .. m
        BY <4>1, <4>2, ProducerInputs
      <4>5. \A k \in 1 .. Len(t) : StructurallyEqual(g, t[k], s[k])
        BY <4>2, <4>3, <4>4
      <4>6. SameMade(g, w, v)
        BY <3>4, <4>1, <4>2, <4>5 DEF SameMade
      <4> QED BY <4>6, EqualMeans
    <3> QED BY <3>1, <3>2, <3>3, <3>4
  <2> QED BY <2>1
<1> HIDE DEF S
<1>2. \A v \in 1 .. m : v \in S
  BY <1>1, RankInduction
<1> QED BY <1>2 DEF S

\* Structural equality is transitive.
LEMMA EqualTransitive ==
  ASSUME NEW g, GraphOK(g), Ranked(g), NEW m, m = Len(g.values)
  PROVE  \A v, w, u \in 1 .. m :
           StructurallyEqual(g, v, w) /\ StructurallyEqual(g, w, u) => StructurallyEqual(g, v, u)
<1> DEFINE S == {v \in 1 .. m : \A w, u \in 1 .. m :
                   StructurallyEqual(g, v, w) /\ StructurallyEqual(g, w, u) => StructurallyEqual(g, v, u)}
<1>1. ASSUME NEW v \in 1 .. m, IsResult(g, v) => OperandsIn(g, v, S) PROVE v \in S
  <2>1. ASSUME NEW w \in 1 .. m, NEW u \in 1 .. m, StructurallyEqual(g, v, w), StructurallyEqual(g, w, u)
        PROVE  StructurallyEqual(g, v, u)
    <3>1. v = w \/ SameLeaf(g, v, w) \/ SameMade(g, v, w)
      BY <2>1, EqualMeans
    <3>2. w = u \/ SameLeaf(g, w, u) \/ SameMade(g, w, u)
      BY <2>1, EqualMeans
    <3>3. CASE v = w \/ w = u
      BY <2>1, <3>3
    <3>4. CASE SameLeaf(g, v, w) /\ ~(w = u)
      <4>1. SameLeaf(g, v, u)
        BY <3>2, <3>4 DEF SameLeaf, SameMade, IsResult
      <4> QED BY <4>1, EqualMeans
    <3>5. CASE SameMade(g, v, w) /\ ~(w = u)
      <4>1. PICK s, t, r : s = ProducerOf(g, v).inputs /\ t = ProducerOf(g, w).inputs /\ r = ProducerOf(g, u).inputs
        OBVIOUS
      <4>2. /\ IsResult(g, v) /\ IsResult(g, w) /\ Len(s) = Len(t)
            /\ \A k \in 1 .. Len(s) : StructurallyEqual(g, s[k], t[k])
        BY <3>5, <4>1 DEF SameMade
      <4>3. SameMade(g, w, u)
        BY <3>2, <3>5, <4>2 DEF SameLeaf
      <4>4. /\ IsResult(g, u) /\ Len(t) = Len(r)
            /\ \A k \in 1 .. Len(t) : StructurallyEqual(g, t[k], r[k])
        BY <4>1, <4>3 DEF SameMade
      <4>5. \A k \in 1 .. Len(s) : s[k] \in S
        BY <1>1, <4>1, <4>2 DEF OperandsIn
      <4>6. /\ \A k \in 1 .. Len(t) : t[k] \in 1 .. m
            /\ \A k \in 1 .. Len(r) : r[k] \in 1 .. m
        BY <4>1, <4>2, <4>4, ProducerInputs
      <4>7. \A k \in 1 .. Len(s) : StructurallyEqual(g, s[k], r[k])
        BY <4>2, <4>4, <4>5, <4>6
      <4>8. SameMade(g, v, u)
        BY <3>5, <4>1, <4>2, <4>3, <4>4, <4>7 DEF SameMade
      <4> QED BY <4>8, EqualMeans
    <3> QED BY <3>1, <3>3, <3>4, <3>5
  <2> QED BY <2>1
<1> HIDE DEF S
<1>2. \A v \in 1 .. m : v \in S
  BY <1>1, RankInduction
<1> QED BY <1>2 DEF S

\* The names of the frontend's inputs.
InputNames == {Leaves[k].payload : k \in {j \in 1 .. Len(Leaves) : Leaves[j].kind = "placeholder"}}

\* The inputs are the frontend's, and a name stands for one of them.
NamesOnce(g) ==
  \A v \in 1 .. Len(g.values) : g.values[v].kind = "placeholder" =>
    /\ g.values[v].payload \in InputNames
    /\ \A w \in 1 .. Len(g.values) :
         g.values[w].kind = "placeholder" /\ g.values[v].payload = g.values[w].payload => v = w

\* Structurally equal values denote the same.
LEMMA EqualDenotes ==
  ASSUME NEW g, GraphOK(g), LinksOK(g), Ranked(g), NamesOnce(g), NEW m, m = Len(g.values),
         NEW x, NEW den, Denotes(g, x, den)
  PROVE  \A v, w \in 1 .. m : StructurallyEqual(g, v, w) => den[v] = den[w]
<1> DEFINE S == {v \in 1 .. m : \A w \in 1 .. m : StructurallyEqual(g, v, w) => den[v] = den[w]}
<1>1. ASSUME NEW v \in 1 .. m, IsResult(g, v) => OperandsIn(g, v, S) PROVE v \in S
  <2>1. ASSUME NEW w \in 1 .. m, StructurallyEqual(g, v, w) PROVE den[v] = den[w]
    <3>1. v = w \/ SameLeaf(g, v, w) \/ SameMade(g, v, w)
      BY <2>1, EqualMeans
    <3>2. CASE SameLeaf(g, v, w) /\ v # w
      <4>1. /\ g.values[v].kind \in {"placeholder", "constant", "result"}
            /\ g.values[v].kind # "result" /\ g.values[w].kind = g.values[v].kind
            /\ g.values[v].payload = g.values[w].payload
        BY <3>2 DEF SameLeaf, LinksOK, IsResult
      <4>2. g.values[v].kind # "placeholder"
        BY <3>2, <4>1 DEF NamesOnce
      <4>3. IsConstant(g, v) /\ IsConstant(g, w)
        BY <4>1, <4>2 DEF IsConstant
      <4> QED BY <4>1, <4>3 DEF Denotes
    <3>3. CASE SameMade(g, v, w)
      <4>1. PICK p, q : p = ProducerOf(g, v) /\ q = ProducerOf(g, w)
        OBVIOUS
      <4>2. /\ IsResult(g, v) /\ IsResult(g, w) /\ Len(p.inputs) = Len(q.inputs) /\ p.op = q.op
            /\ \A k \in 1 .. Len(p.inputs) : StructurallyEqual(g, p.inputs[k], q.inputs[k])
        BY <3>3, <4>1 DEF SameMade
      <4>3. \A k \in 1 .. Len(p.inputs) : p.inputs[k] \in S
        BY <1>1, <4>1, <4>2 DEF OperandsIn
      <4>4. (\A k \in 1 .. Len(q.inputs) : q.inputs[k] \in 1 .. m) /\ Len(q.inputs) \in {1, 2}
        BY <4>1, <4>2, ProducerInputs
      <4>5. \A k \in 1 .. Len(p.inputs) : den[p.inputs[k]] = den[q.inputs[k]]
        BY <4>2, <4>3, <4>4
      <4>6. NodeValue(p, den) = NodeValue(q, den)
        <5>1. den[p.inputs[1]] = den[q.inputs[1]] /\ (Len(p.inputs) > 1 => den[p.inputs[2]] = den[q.inputs[2]])
          BY <4>2, <4>4, <4>5
        <5> QED BY <4>2, <5>1 DEF NodeValue
      <4>7. den[v] = NodeValue(p, den) /\ den[w] = NodeValue(q, den)
        BY <4>1, <4>2 DEF Denotes
      <4> QED BY <4>6, <4>7
    <3> QED BY <3>1, <3>2, <3>3
  <2> QED BY <2>1
<1> HIDE DEF S
<1>2. \A v \in 1 .. m : v \in S
  BY <1>1, RankInduction
<1> QED BY <1>2 DEF S

\* A ranking that ranks equal values alike: the least rank of an equal value.
LEMMA EqualRanked ==
  ASSUME NEW g, GraphOK(g), Ranked(g), NEW m, m = Len(g.values)
  PROVE  \E b \in Nat : \E rank : Ranks(g, b, rank)
           /\ \A v, w \in 1 .. m : StructurallyEqual(g, v, w) => rank[v] = rank[w]
<1>1. PICK b, rank : b \in Nat /\ Ranks(g, b, rank)
  BY DEF Ranked
<1>2. \A v \in 1 .. m : rank[v] \in 0 .. b
  BY <1>1 DEF Ranks
<1> DEFINE Like(v) == {rank[u] : u \in {w \in 1 .. m : StructurallyEqual(g, w, v)}}
           Least(v) == CHOOSE l \in Like(v) : \A k \in Like(v) : l <= k
<1>3. ASSUME NEW v \in 1 .. m
      PROVE  /\ \E u \in 1 .. m : StructurallyEqual(g, u, v) /\ Least(v) = rank[u]
             /\ \A u \in 1 .. m : StructurallyEqual(g, u, v) => Least(v) <= rank[u]
             /\ Least(v) \in 0 .. b
  <2>1. StructurallyEqual(g, v, v)
    BY EqualReflexive
  <2>2. Like(v) \in SUBSET Nat /\ Like(v) # {}
    BY <1>2, <2>1
  <2> DEFINE L == Like(v)
  <2>3. \E l \in L : \A k \in L : l <= k
    <3> HIDE DEF L
    <3> QED BY <2>2, WithinFold!LeastNatural DEF L
  <2>4. Least(v) \in L /\ \A k \in L : Least(v) <= k
    <3> HIDE DEF L
    <3>1. Least(v) = CHOOSE l \in L : \A k \in L : l <= k
      BY DEF L
    <3> HIDE DEF Least
    <3> QED BY <2>3, <3>1
  <2> HIDE DEF Least
  <2> QED BY <1>2, <2>4
<1>4. ASSUME NEW v \in 1 .. m, NEW w \in 1 .. m, StructurallyEqual(g, v, w) PROVE Like(v) = Like(w)
  <2>1. \A u \in 1 .. m : StructurallyEqual(g, u, v) <=> StructurallyEqual(g, u, w)
    <3>1. StructurallyEqual(g, w, v)
      BY <1>4, EqualSymmetric
    <3> QED BY <1>4, <3>1, EqualTransitive
  <2> QED BY <2>1
<1>5. PICK least : least = [v \in 1 .. m |-> Least(v)]
  OBVIOUS
<1>6. \A v, w \in 1 .. m : StructurallyEqual(g, v, w) => least[v] = least[w]
  <2>1. \A v, w \in 1 .. m : StructurallyEqual(g, v, w) => Least(v) = Least(w)
    <3> SUFFICES ASSUME NEW v \in 1 .. m, NEW w \in 1 .. m, StructurallyEqual(g, v, w) PROVE Least(v) = Least(w)
      OBVIOUS
    <3>1. Like(v) = Like(w)
      BY <1>4, ZenonT(40)
    <3> HIDE DEF Like
    <3> QED BY <3>1
  <2> HIDE DEF Least
  <2> QED BY <1>5, <2>1
<1> HIDE DEF Least
<1>7. ASSUME NEW v \in 1 .. m, IsResult(g, v), NEW k \in 1 .. Len(ProducerOf(g, v).inputs)
      PROVE  least[ProducerOf(g, v).inputs[k]] < least[v]
  <2>1. PICK u \in 1 .. m : StructurallyEqual(g, u, v) /\ least[v] = rank[u]
    BY <1>3, <1>5
  <2>2. PICK s, t : s = ProducerOf(g, u).inputs /\ t = ProducerOf(g, v).inputs
    OBVIOUS
  <2>3. \A j \in 1 .. Len(t) : t[j] \in 1 .. m
    BY <1>7, <2>2, ProducerInputs
  <2>4. IsResult(g, u) /\ Len(s) = Len(t) /\ \A j \in 1 .. Len(t) : StructurallyEqual(g, s[j], t[j])
    <3>1. u = v \/ SameLeaf(g, u, v) \/ SameMade(g, u, v)
      BY <2>1, EqualMeans
    <3>2. CASE u = v
      BY <1>7, <2>2, <2>3, <3>2, EqualReflexive
    <3>3. CASE SameLeaf(g, u, v)
      BY <1>7, <3>3 DEF SameLeaf, IsResult
    <3>4. CASE SameMade(g, u, v)
      BY <2>2, <3>4 DEF SameMade
    <3> QED BY <3>1, <3>2, <3>3, <3>4
  <2>5. s[k] \in 1 .. m /\ t[k] \in 1 .. m /\ StructurallyEqual(g, s[k], t[k])
    <3>1. \A j \in 1 .. Len(s) : s[j] \in 1 .. m
      BY <2>2, <2>4, ProducerInputs
    <3> QED BY <1>7, <2>2, <2>3, <2>4, <3>1
  <2>6. rank[s[k]] < rank[u]
    <3>1. \A j \in 1 .. Len(s) : rank[s[j]] < rank[u]
      BY <1>1, <2>2, <2>4 DEF Ranks
    <3> QED BY <1>7, <2>2, <2>4, <3>1
  <2>7. least[t[k]] <= rank[s[k]]
    BY <1>3, <1>5, <2>5
  <2>8. least[t[k]] \in Int /\ rank[s[k]] \in Int /\ rank[u] \in Int
    <3>1. least[t[k]] \in 0 .. b /\ rank[s[k]] \in 0 .. b /\ rank[u] \in 0 .. b
      BY <1>2, <1>3, <1>5, <2>5
    <3> QED BY <3>1
  <2> QED BY <2>1, <2>2, <2>6, <2>7, <2>8
<1>8. least \in [1 .. m -> 0 .. b]
  BY <1>3, <1>5
<1>9. Ranks(g, b, least)
  BY <1>7, <1>8 DEF Ranks
<1> QED BY <1>1, <1>6, <1>9

-----------------------------------------------------------------------------
(***************************************************************************)
(* What justifies a rewrite.                                               *)
(***************************************************************************)

\* h is g with values and nodes that nothing refers to yet.
Extends(g, h) ==
  /\ Sound(h) /\ Grown(g, h)
  /\ h.outputs = g.outputs /\ h.rep = g.rep /\ h.chain = g.chain
  /\ LiveBelow(g) => LiveBelow(h)
  /\ NamesOnce(g) => NamesOnce(h)
  /\ \A x, den : Denotes(g, x, den) =>
       \E d : Denotes(h, x, d) /\ \A w \in 1 .. Len(g.values) : d[w] = den[w]

\* In h the value v may stand for the result r of g.
Justified(g, r, h, v) ==
  /\ Extends(g, h)
  /\ v \in 1 .. Len(h.values) /\ v # r /\ v \notin DOMAIN h.rep
  /\ LiveBelow(g) => Available(h, v)
  /\ \E b \in Nat : \E rank : Ranks(h, b, rank) /\ rank[v] <= rank[r]
  /\ NamesOnce(g) => \A x, den : Denotes(h, x, den) => den[v] = den[r]

\* A live node is the producer of its result.
LEMMA LiveResult ==
  ASSUME NEW g, Sound(g), NEW n \in 1 .. Len(g.nodes), ~g.nodes[n].dead
  PROVE  /\ g.nodes[n].result \in 1 .. Len(g.values) /\ IsResult(g, g.nodes[n].result)
         /\ ProducerOf(g, g.nodes[n].result) = g.nodes[n]
<1>1. g.nodes[n].result \in 1 .. Len(g.values)
  BY OperandsExist DEF Sound
<1>2. IsResult(g, g.nodes[n].result) /\ g.values[g.nodes[n].result].producer = n
  BY DEF Sound, LinksOK
<1> QED BY <1>1, <1>2 DEF ProducerOf

\* So its result denotes what the operation computes, and its operands have
\* not been replaced.
LEMMA LiveDenotes ==
  ASSUME NEW g, Sound(g), NEW n \in 1 .. Len(g.nodes), ~g.nodes[n].dead, NEW x, NEW den, Denotes(g, x, den)
  PROVE  den[g.nodes[n].result] = NodeValue(g.nodes[n], den)
BY LiveResult DEF Denotes

\* An operand of a live node is a current value, produced below the node.
LEMMA LiveOperand ==
  ASSUME NEW g, Sound(g), NEW n \in 1 .. Len(g.nodes), ~g.nodes[n].dead,
         NEW k \in 1 .. Len(g.nodes[n].inputs)
  PROVE  /\ g.nodes[n].inputs[k] \in 1 .. Len(g.values)
         /\ g.nodes[n].inputs[k] \notin DOMAIN g.rep
         /\ LiveBelow(g) => Available(g, g.nodes[n].inputs[k])
         /\ \A b, rank : Ranks(g, b, rank) => rank[g.nodes[n].inputs[k]] < rank[g.nodes[n].result]
<1>1. GraphOK(g) /\ RepOK(g)
  BY DEF Sound
<1>2. g.nodes[n].inputs[k] \in 1 .. Len(g.values)
  BY <1>1 DEF GraphOK, NodesOK, NodeOver
<1>3. g.nodes[n].inputs[k] \notin DOMAIN g.rep
  BY <1>1 DEF RepOK
<1>4. LiveBelow(g) => Available(g, g.nodes[n].inputs[k])
  BY DEF LiveBelow
<1>5. ASSUME NEW b, NEW rank, Ranks(g, b, rank) PROVE rank[g.nodes[n].inputs[k]] < rank[g.nodes[n].result]
  <2>1. PICK r : r = g.nodes[n].result
    OBVIOUS
  <2>2. r \in 1 .. Len(g.values) /\ IsResult(g, r) /\ ProducerOf(g, r) = g.nodes[n]
    BY <2>1, LiveResult
  <2>3. \A j \in 1 .. Len(ProducerOf(g, r).inputs) : rank[ProducerOf(g, r).inputs[j]] < rank[r]
    BY <1>5, <2>2 DEF Ranks
  <2> QED BY <2>1, <2>2, <2>3
<1> QED BY <1>2, <1>3, <1>4, <1>5

\* The operands of a node, by its operation.
LEMMA OperandCount ==
  ASSUME NEW g, Sound(g), NEW n \in 1 .. Len(g.nodes)
  PROVE  /\ Len(g.nodes[n].inputs) = IF Binary(g.nodes[n].op) THEN 2 ELSE 1
         /\ g.nodes[n].op \in Computed
         /\ DOMAIN g.nodes[n].inputs = 1 .. Len(g.nodes[n].inputs)
<1>1. Len(g.nodes[n].inputs) = (IF Binary(g.nodes[n].op) THEN 2 ELSE 1) /\ IsSequence(g.nodes[n].inputs)
  BY DEF Sound, GraphOK, NodesOK, NodeOver
<1> QED BY <1>1, SequenceOfItsItems DEF Sound, LinksOK

\* Nothing added.
LEMMA ExtendsItself ==
  ASSUME NEW g, Sound(g)
  PROVE  Extends(g, g)
<1>1. Len(g.values) \in Nat /\ Len(g.nodes) \in Nat
  BY TableDomains DEF Sound, GraphOK
<1>2. Grown(g, g)
  BY <1>1 DEF Grown
<1> QED BY <1>2 DEF Extends

\* Additions add up.
LEMMA ExtendsTwice ==
  ASSUME NEW g, Sound(g), NEW h, Extends(g, h), NEW l, Extends(h, l)
  PROVE  Extends(g, l)
<1>1. Sound(h) /\ Sound(l) /\ Grown(g, h) /\ Grown(h, l)
  BY DEF Extends
<1>2. Grown(g, l)
  BY <1>1, GrownTwice DEF Sound
<1>3. Len(g.values) <= Len(h.values) /\ Len(g.values) \in Nat /\ Len(h.values) \in Nat
  BY <1>1, TableDomains DEF Grown, Sound, GraphOK
<1>4. ASSUME NEW x, NEW den, Denotes(g, x, den)
      PROVE  \E d : Denotes(l, x, d) /\ \A w \in 1 .. Len(g.values) : d[w] = den[w]
  <2>1. PICK e : Denotes(h, x, e) /\ \A w \in 1 .. Len(g.values) : e[w] = den[w]
    BY <1>4 DEF Extends
  <2>2. PICK d : Denotes(l, x, d) /\ \A w \in 1 .. Len(h.values) : d[w] = e[w]
    BY <2>1 DEF Extends
  <2>3. \A w \in 1 .. Len(g.values) : d[w] = den[w]
    BY <1>3, <2>1, <2>2
  <2> QED BY <2>2, <2>3
<1>5. /\ l.outputs = g.outputs /\ l.rep = g.rep /\ l.chain = g.chain
      /\ LiveBelow(g) => LiveBelow(l)
      /\ NamesOnce(g) => NamesOnce(l)
  BY DEF Extends
<1> QED BY <1>1, <1>2, <1>4, <1>5 DEF Extends

\* What is justified over additions is justified.
LEMMA JustifiedOver ==
  ASSUME NEW g, Sound(g), NEW h, Extends(g, h), NEW r, NEW l, NEW v, Justified(h, r, l, v)
  PROVE  Justified(g, r, l, v)
<1>1. Extends(h, l) /\ (LiveBelow(g) => LiveBelow(h)) /\ (NamesOnce(g) => NamesOnce(h))
  BY DEF Justified, Extends
<1>2. Extends(g, l)
  BY <1>1, ExtendsTwice
<1> QED BY <1>1, <1>2 DEF Justified

\* What the larger graph's values denote, the smaller graph's do.
LEMMA DenotesRestricted ==
  ASSUME NEW g, GraphOK(g), NEW h, Grown(g, h), NEW m, m = Len(g.values),
         NEW x, NEW den, Denotes(h, x, den)
  PROVE  Denotes(g, x, [v \in 1 .. m |-> den[v]])
<1>1. PICK d : d = [v \in 1 .. m |-> den[v]]
  OBVIOUS
<1>2. \A v \in 1 .. m : d[v] = den[v] /\ v \in 1 .. Len(h.values)
  <2>1. Len(g.values) <= Len(h.values) /\ m \in Nat
    BY TableDomains DEF Grown, GraphOK
  <2> QED BY <1>1, <2>1
<1>3. ASSUME NEW v \in 1 .. m
      PROVE  /\ d[v] \in Residues
             /\ IsConstant(g, v) => d[v] = g.values[v].payload
             /\ g.values[v].kind = "placeholder" => d[v] = BoundInput(g, x, v)
             /\ IsResult(g, v) => d[v] = NodeValue(ProducerOf(g, v), d)
  <2>1. /\ den[v] \in Residues
        /\ IsConstant(h, v) => den[v] = h.values[v].payload
        /\ h.values[v].kind = "placeholder" => den[v] = BoundInput(h, x, v)
        /\ IsResult(h, v) => den[v] = NodeValue(ProducerOf(h, v), den)
    BY <1>2 DEF Denotes
  <2>2. /\ h.values[v] = g.values[v]
        /\ IsResult(h, v) <=> IsResult(g, v)
        /\ IsConstant(h, v) <=> IsConstant(g, v)
        /\ IsResult(g, v) => ProducerOf(h, v) = ProducerOf(g, v)
        /\ BoundInput(h, x, v) = BoundInput(g, x, v)
    BY TermsKept
  <2>3. ASSUME NEW node, IsResult(g, v), node = ProducerOf(g, v) PROVE NodeValue(node, den) = NodeValue(node, d)
    <3>1. Len(node.inputs) \in {1, 2} /\ \A k \in 1 .. Len(node.inputs) : node.inputs[k] \in 1 .. m
      BY <2>3, ProducerInputs
    <3>2. \A k \in 1 .. Len(node.inputs) : den[node.inputs[k]] = d[node.inputs[k]]
      BY <1>2, <3>1
    <3> QED BY <3>1, <3>2, NodeValueSame
  <2> QED BY <1>2, <2>1, <2>2, <2>3
<1>4. d \in [1 .. m -> Residues]
  BY <1>1, <1>3
<1> QED BY <1>1, <1>3, <1>4 DEF Denotes

\* addConstant adds.
LEMMA ConstantExtends ==
  ASSUME NEW g, Sound(g), NEW m, m = Len(g.values), NEW p \in Residues, NEW h, h = AddConstant(g, p)
  PROVE  /\ Extends(g, h) /\ Len(h.values) = m + 1 /\ m \in Nat /\ h.nodes = g.nodes
         /\ IsConstant(h, m + 1) /\ h.values[m + 1].payload = p
         /\ \A b, rank : b \in Nat /\ Ranks(g, b, rank) => Ranks(h, b, Extended(rank, m, 0))
<1>1. /\ Sound(h) /\ Grown(g, h) /\ Len(h.values) = m + 1 /\ m \in Nat /\ h.nodes = g.nodes
      /\ h.outputs = g.outputs /\ h.chain = g.chain /\ h.rep = g.rep
      /\ IsConstant(h, m + 1) /\ h.values[m + 1].payload = p
      /\ LiveBelow(g) => LiveBelow(h)
  BY ConstantSound
<1>2. h.values[m + 1].kind = "constant" /\ ~IsResult(h, m + 1)
  BY <1>1 DEF IsConstant, IsResult
<1>3. ASSUME NEW x, NEW den, Denotes(g, x, den)
      PROVE  \E d : Denotes(h, x, d) /\ \A w \in 1 .. Len(g.values) : d[w] = den[w]
  <2>1. PICK d : d = Extended(den, m, p)
    OBVIOUS
  <2>2. Denotes(h, x, d)
    BY <1>1, <1>2, <1>3, <2>1, DenotesExtended DEF Sound
  <2>3. \A w \in 1 .. m : d[w] = den[w]
    BY <1>1, <2>1 DEF Extended
  <2> QED BY <2>2, <2>3
<1>4. NamesOnce(g) => NamesOnce(h)
  <2>1. \A v \in 1 .. m : h.values[v] = g.values[v]
    BY <1>1 DEF Grown
  <2>2. \A v \in 1 .. m + 1 : v \in 1 .. m \/ v = m + 1
    BY <1>1
  <2> QED BY <1>1, <1>2, <2>1, <2>2, SMTT(30) DEF NamesOnce
<1>5. Extends(g, h)
  BY <1>1, <1>3, <1>4 DEF Extends
<1>6. ASSUME NEW b \in Nat, NEW rank, Ranks(g, b, rank) PROVE Ranks(h, b, Extended(rank, m, 0))
  <2>1. PICK t : t = 0
    OBVIOUS
  <2>2. t \in 0 .. b
    BY <2>1
  <2> QED BY <1>1, <1>2, <1>6, <2>1, <2>2, RankExtended DEF Sound
<1> QED BY <1>1, <1>5, <1>6

\* A constant stands for a result that denotes it.
LEMMA ConstantJustified ==
  ASSUME NEW g, Sound(g), Ranked(g), NEW m, m = Len(g.values), NEW r \in 1 .. m, NEW p \in Residues,
         \A x, den : Denotes(g, x, den) => den[r] = p, NEW h, h = AddConstant(g, p)
  PROVE  Justified(g, r, h, m + 1)
<1>1. /\ Extends(g, h) /\ Len(h.values) = m + 1 /\ m \in Nat
      /\ IsConstant(h, m + 1) /\ h.values[m + 1].payload = p
      /\ \A b, rank : b \in Nat /\ Ranks(g, b, rank) => Ranks(h, b, Extended(rank, m, 0))
  BY ConstantExtends
<1>2. Sound(h) /\ h.rep = g.rep /\ Grown(g, h)
  BY <1>1 DEF Extends
<1>3. ~IsResult(h, m + 1)
  BY <1>1 DEF IsResult, IsConstant
<1>4. m + 1 \notin DOMAIN h.rep
  BY <1>1, <1>2 DEF Sound, RepOK
<1>5. \E b \in Nat : \E rank : Ranks(h, b, rank) /\ rank[m + 1] <= rank[r]
  <2>1. PICK b, rank : b \in Nat /\ Ranks(g, b, rank)
    BY DEF Ranked
  <2>2. PICK t : t = Extended(rank, m, 0)
    OBVIOUS
  <2>3. rank[r] \in 0 .. b
    BY <2>1 DEF Ranks
  <2>4. t[m + 1] = 0 /\ t[r] = rank[r]
    BY <1>1, <2>2, ExtendedIs
  <2>5. t[m + 1] <= t[r]
    BY <2>3, <2>4
  <2> QED BY <1>1, <2>1, <2>2, <2>5
<1>6. ASSUME NEW x, NEW den, Denotes(h, x, den) PROVE den[m + 1] = den[r]
  <2>1. den[m + 1] = p
    BY <1>1, <1>6 DEF Denotes
  <2>2. Denotes(g, x, [v \in 1 .. m |-> den[v]])
    BY <1>1, <1>2, <1>6, DenotesRestricted DEF Sound
  <2>3. den[r] = p
    BY <2>2
  <2> QED BY <2>1, <2>3
<1>7. m + 1 \in 1 .. Len(h.values) /\ m + 1 # r
  BY <1>1
<1> QED BY <1>1, <1>3, <1>4, <1>5, <1>6, <1>7 DEF Justified, Available

\* addNode adds, when the operation has no effect.
LEMMA NodeExtends ==
  ASSUME NEW g, Sound(g), NEW m, m = Len(g.values), NEW c, c = Len(g.nodes),
         NEW op \in Computed, ~Effectful(op), NEW inputs, MayRead(g, op, inputs),
         LiveBelow(g) => \A k \in 1 .. Len(inputs) : Available(g, inputs[k]),
         NEW attr, NEW h, h = AddNode(g, op, inputs, attr)
  PROVE  /\ Extends(g, h) /\ Len(h.values) = m + 1 /\ m \in Nat
         /\ IsResult(h, m + 1) /\ Available(h, m + 1)
         /\ ProducerOf(h, m + 1).op = op /\ ProducerOf(h, m + 1).inputs = inputs
<1>1. /\ Sound(h) /\ Grown(g, h) /\ Len(h.values) = m + 1 /\ m \in Nat
      /\ h.outputs = g.outputs /\ h.rep = g.rep /\ h.chain = g.chain
      /\ IsResult(h, m + 1) /\ ~IsConstant(h, m + 1) /\ Available(h, m + 1)
      /\ ProducerOf(h, m + 1).op = op /\ ProducerOf(h, m + 1).inputs = inputs
      /\ LiveBelow(g) => LiveBelow(h)
  <2>1. WithNode(g, h, m, c, op, inputs)
    BY NodeSound
  <2> QED BY <2>1 DEF WithNode
<1>2. ASSUME NEW x, NEW den, Denotes(g, x, den)
      PROVE  \E d : Denotes(h, x, d) /\ \A w \in 1 .. Len(g.values) : d[w] = den[w]
  <2>1. PICK node, y : node = ProducerOf(h, m + 1) /\ y = NodeValue(node, den)
    OBVIOUS
  <2>2. /\ Len(inputs) \in {1, 2} /\ node.inputs = inputs /\ node.op = op
        /\ \A k \in 1 .. Len(inputs) : inputs[k] \in 1 .. m
    BY <1>1, <2>1 DEF MayRead
  <2>3. \A v \in 1 .. m : den[v] \in Residues
    BY <1>2 DEF Denotes
  <2>4. y \in Residues
    <3>1. 0 \in Residues
      BY ModulusAssumption DEF Residues
    <3>2. den[inputs[1]] \in Residues /\ (Len(inputs) > 1 => den[inputs[2]] \in Residues)
      BY <2>2, <2>3
    <3> QED BY <2>1, <2>2, <3>1, <3>2, ScalarIsResidue DEF NodeValue
  <2>5. PICK d : d = Extended(den, m, y)
    OBVIOUS
  <2>6. h.values[m + 1].kind = "result"
    BY <1>1 DEF IsResult
  <2>7. Denotes(h, x, d)
    <3>1. GraphOK(g)
      BY DEF Sound
    <3>2. /\ Len(ProducerOf(h, m + 1).inputs) \in {1, 2}
          /\ \A k \in 1 .. Len(ProducerOf(h, m + 1).inputs) : ProducerOf(h, m + 1).inputs[k] \in 1 .. m
          /\ y = NodeValue(ProducerOf(h, m + 1), den)
      BY <2>1, <2>2
    <3> QED BY <1>1, <1>2, <2>4, <2>5, <2>6, <3>1, <3>2, DenotesExtended
  <2>8. \A w \in 1 .. m : d[w] = den[w]
    BY <1>1, <2>5 DEF Extended
  <2> QED BY <2>7, <2>8
<1>3. NamesOnce(g) => NamesOnce(h)
  <2>1. \A v \in 1 .. m : h.values[v] = g.values[v]
    BY <1>1 DEF Grown
  <2>2. \A v \in 1 .. m + 1 : v \in 1 .. m \/ v = m + 1
    BY <1>1
  <2>3. h.values[m + 1].kind = "result"
    BY <1>1 DEF IsResult
  <2> QED BY <1>1, <2>1, <2>2, <2>3, SMTT(30) DEF NamesOnce
<1> QED BY <1>1, <1>2, <1>3 DEF Extends

\* A node stands for a result that denotes what it computes, and ranks above
\* its operands.
LEMMA NodeJustified ==
  ASSUME NEW g, Sound(g), NEW m, m = Len(g.values), NEW r \in 1 .. m,
         NEW op \in Computed, ~Effectful(op), NEW inputs, MayRead(g, op, inputs),
         LiveBelow(g) => \A k \in 1 .. Len(inputs) : Available(g, inputs[k]),
         NEW b \in Nat, NEW rank, Ranks(g, b, rank), \A k \in 1 .. Len(inputs) : rank[inputs[k]] < rank[r],
         \A x, den : Denotes(g, x, den) =>
           EvalScalar(op, den[inputs[1]], IF Len(inputs) > 1 THEN den[inputs[2]] ELSE 0) = den[r],
         NEW attr, NEW h, h = AddNode(g, op, inputs, attr)
  PROVE  Justified(g, r, h, m + 1)
<1>1. Len(inputs) \in {1, 2} /\ \A k \in 1 .. Len(inputs) : inputs[k] \in 1 .. m
  BY DEF MayRead
<1>2. /\ Extends(g, h) /\ Len(h.values) = m + 1 /\ m \in Nat
      /\ IsResult(h, m + 1) /\ Available(h, m + 1)
      /\ ProducerOf(h, m + 1).op = op /\ ProducerOf(h, m + 1).inputs = inputs
  <2>1. PICK c : c = Len(g.nodes)
    OBVIOUS
  <2> QED BY <2>1, NodeExtends, SMTT(30)
<1>3. Sound(h) /\ h.rep = g.rep /\ Grown(g, h)
  BY <1>2 DEF Extends
<1>4. m + 1 \notin DOMAIN h.rep
  BY <1>2, <1>3 DEF Sound, RepOK
<1>5. Ranks(h, b, Extended(rank, m, rank[r]))
  <2>1. rank[r] \in 0 .. b
    BY DEF Ranks
  <2>2. \A k \in 1 .. Len(ProducerOf(h, m + 1).inputs) :
          /\ ProducerOf(h, m + 1).inputs[k] \in 1 .. m
          /\ rank[ProducerOf(h, m + 1).inputs[k]] < rank[r]
    BY <1>1, <1>2
  <2>3. PICK t : t = rank[r]
    OBVIOUS
  <2> QED BY <1>2, <1>3, <2>1, <2>2, <2>3, RankExtended DEF Sound
<1>6. \E rk : Ranks(h, b, rk) /\ rk[m + 1] <= rk[r]
  <2>1. PICK rk : rk = Extended(rank, m, rank[r])
    OBVIOUS
  <2>2. rk[m + 1] = rank[r] /\ rk[r] = rank[r] /\ rank[r] \in 0 .. b
    BY <1>2, <2>1, ExtendedIs DEF Ranks
  <2>3. rk[m + 1] <= rk[r]
    BY <2>2
  <2> QED BY <1>5, <2>1, <2>3
<1>7. ASSUME NEW x, NEW den, Denotes(h, x, den) PROVE den[m + 1] = den[r]
  <2>1. den[m + 1] = EvalScalar(op, den[inputs[1]], IF Len(inputs) > 1 THEN den[inputs[2]] ELSE 0)
    <3>1. den[m + 1] = NodeValue(ProducerOf(h, m + 1), den)
      BY <1>2, <1>7 DEF Denotes
    <3> QED BY <1>2, <3>1 DEF NodeValue
  <2>2. PICK d : d = [v \in 1 .. m |-> den[v]]
    OBVIOUS
  <2>3. Denotes(g, x, d)
    BY <1>2, <1>3, <1>7, <2>2, DenotesRestricted DEF Sound
  <2>4. EvalScalar(op, d[inputs[1]], IF Len(inputs) > 1 THEN d[inputs[2]] ELSE 0) = d[r]
    BY <2>3
  <2>5. d[r] = den[r] /\ d[inputs[1]] = den[inputs[1]] /\ (Len(inputs) > 1 => d[inputs[2]] = den[inputs[2]])
    <3>1. inputs[1] \in 1 .. m /\ (Len(inputs) > 1 => inputs[2] \in 1 .. m)
      BY <1>1
    <3> QED BY <2>2, <3>1
  <2> QED BY <2>1, <2>4, <2>5
<1>8. m + 1 \in 1 .. Len(h.values) /\ m + 1 # r
  BY <1>2
<1> QED BY <1>2, <1>4, <1>6, <1>7, <1>8 DEF Justified

\* A value of the graph stands for a result that denotes the same and ranks
\* no lower.
LEMMA ValueJustified ==
  ASSUME NEW g, Sound(g), NEW r \in 1 .. Len(g.values), NEW v \in 1 .. Len(g.values), v # r, v \notin DOMAIN g.rep,
         LiveBelow(g) => Available(g, v),
         \E b \in Nat : \E rank : Ranks(g, b, rank) /\ rank[v] <= rank[r],
         NamesOnce(g) => \A x, den : Denotes(g, x, den) => den[v] = den[r]
  PROVE  Justified(g, r, g, v)
BY ExtendsItself DEF Justified

\* So does an operand of the replaced node.
LEMMA OperandJustified ==
  ASSUME NEW g, Sound(g), Ranked(g), NEW n \in 1 .. Len(g.nodes), ~g.nodes[n].dead,
         NEW v \in 1 .. Len(g.values), v \notin DOMAIN g.rep, LiveBelow(g) => Available(g, v),
         \A b, rank : b \in Nat /\ Ranks(g, b, rank) => rank[v] < rank[g.nodes[n].result],
         \A x, den : Denotes(g, x, den) => den[v] = den[g.nodes[n].result]
  PROVE  Justified(g, g.nodes[n].result, g, v)
<1>1. PICK b, rank : b \in Nat /\ Ranks(g, b, rank)
  BY DEF Ranked
<1>2. PICK r : r = g.nodes[n].result
  OBVIOUS
<1>3. r \in 1 .. Len(g.values)
  BY <1>2, LiveResult
<1>4. rank[v] < rank[r] /\ rank[v] \in 0 .. b /\ rank[r] \in 0 .. b
  BY <1>1, <1>2, <1>3 DEF Ranks
<1>5. rank[v] <= rank[r] /\ v # r
  BY <1>4
<1> QED BY <1>1, <1>2, <1>3, <1>5, ValueJustified

\* One operand, and two.
LEMMA OneOperand ==
  ASSUME NEW g, NEW op, ~Binary(op), NEW a \in 1 .. Len(g.values), a \notin DOMAIN g.rep,
         NEW inputs, inputs = <<a>>
  PROVE  MayRead(g, op, inputs) /\ Len(inputs) = 1 /\ inputs[1] = a
<1>1. Len(inputs) = 1 /\ inputs[1] = a /\ DOMAIN inputs = 1 .. 1 /\ inputs = [k \in 1 .. 1 |-> inputs[k]]
  OBVIOUS
<1>2. IsSequence(inputs)
  BY <1>1, FunctionIsSequence
<1> QED BY <1>1, <1>2 DEF MayRead

\* Two operands that may be read.
LEMMA TwoOperands ==
  ASSUME NEW g, NEW op, Binary(op), NEW a \in 1 .. Len(g.values), a \notin DOMAIN g.rep,
         NEW b \in 1 .. Len(g.values), b \notin DOMAIN g.rep, NEW inputs, inputs = <<a, b>>
  PROVE  MayRead(g, op, inputs) /\ Len(inputs) = 2 /\ inputs[1] = a /\ inputs[2] = b
<1>1. /\ Len(inputs) = 2 /\ inputs[1] = a /\ inputs[2] = b
      /\ DOMAIN inputs = 1 .. 2 /\ inputs = [k \in 1 .. 2 |-> inputs[k]]
  OBVIOUS
<1>2. IsSequence(inputs)
  BY <1>1, FunctionIsSequence
<1> QED BY <1>1, <1>2 DEF MayRead

\* A live node that may be rewritten.
Candidate(g, n) == n \in 1 .. Len(g.nodes) /\ ~g.nodes[n].dead /\ Sound(g) /\ Ranked(g)

\* Its operands: not replaced, ranked below it, and what it denotes.
OperandIs(g, n, v) ==
  /\ v \in 1 .. Len(g.values) /\ v \notin DOMAIN g.rep
  /\ LiveBelow(g) => Available(g, v)
  /\ \A b, rank : Ranks(g, b, rank) => rank[v] < rank[g.nodes[n].result]

\* A node that a rule looks at: its operands, and what it denotes from theirs.
LEMMA CandidateIs ==
  ASSUME NEW g, NEW n, Candidate(g, n)
  PROVE  /\ OperandIs(g, n, Operand(g, n, 1))
         /\ Binary(g.nodes[n].op) => OperandIs(g, n, Operand(g, n, 2))
         /\ g.nodes[n].op \in Computed
         /\ g.nodes[n].result \in 1 .. Len(g.values)
         /\ \A x, den : Denotes(g, x, den) =>
              den[g.nodes[n].result] = EvalScalar(g.nodes[n].op, den[Operand(g, n, 1)],
                IF Binary(g.nodes[n].op) THEN den[Operand(g, n, 2)] ELSE 0)
<1>1. n \in 1 .. Len(g.nodes) /\ ~g.nodes[n].dead /\ Sound(g)
  BY DEF Candidate
<1>2. /\ Len(g.nodes[n].inputs) = IF Binary(g.nodes[n].op) THEN 2 ELSE 1
      /\ g.nodes[n].op \in Computed
  BY <1>1, OperandCount
<1>3. \A k \in 1 .. Len(g.nodes[n].inputs) : OperandIs(g, n, g.nodes[n].inputs[k])
  BY <1>1, LiveOperand DEF OperandIs
<1>4. /\ OperandIs(g, n, Operand(g, n, 1))
      /\ Binary(g.nodes[n].op) => OperandIs(g, n, Operand(g, n, 2))
  BY <1>2, <1>3 DEF Operand
<1>5. ASSUME NEW x, NEW den, Denotes(g, x, den)
      PROVE  den[g.nodes[n].result] = EvalScalar(g.nodes[n].op, den[Operand(g, n, 1)],
               IF Binary(g.nodes[n].op) THEN den[Operand(g, n, 2)] ELSE 0)
  <2>1. den[g.nodes[n].result] = NodeValue(g.nodes[n], den)
    BY <1>1, <1>5, LiveDenotes
  <2>2. Len(g.nodes[n].inputs) > 1 <=> Binary(g.nodes[n].op)
    BY <1>2
  <2> QED BY <2>1, <2>2 DEF NodeValue, Operand
<1>6. g.nodes[n].result \in 1 .. Len(g.values)
  BY <1>1, LiveResult
<1> QED BY <1>2, <1>4, <1>5, <1>6

\* What a constant and an operand denote.
LEMMA PayloadDenotes ==
  ASSUME NEW g, Sound(g), NEW v \in 1 .. Len(g.values), IsConstant(g, v)
  PROVE  /\ g.values[v].payload \in Residues
         /\ \A x, den : Denotes(g, x, den) => den[v] = g.values[v].payload
BY DEF Denotes, Sound, LinksOK

\* Values denote residues of the modulus.
LEMMA DenotesResidues ==
  ASSUME NEW g, NEW x, NEW den, Denotes(g, x, den), NEW v \in 1 .. Len(g.values)
  PROVE  den[v] \in Residues /\ den[v] \in Nat /\ den[v] \in Int
BY ModulusAssumption DEF Denotes, Residues

\* The new value of an addition to h.
LEMMA AppendedIs ==
  ASSUME NEW h, NEW r \in Appended(h)
  PROVE  r.graph = h /\ r.value = Len(h.values)
BY DEF Appended, NewestValue

\* A replacement by a value that is there.
LEMMA KeptIs ==
  ASSUME NEW g, NEW v, NEW r \in Keep(g, v)
  PROVE  r.graph = g /\ r.value = v
BY DEF Keep

\* The operand itself takes over.
LEMMA OperandTakesOver ==
  ASSUME NEW g, NEW n, Candidate(g, n), NEW v, OperandIs(g, n, v), NEW r \in Keep(g, v),
         \A x, den : Denotes(g, x, den) => den[v] = den[g.nodes[n].result]
  PROVE  Justified(g, g.nodes[n].result, r.graph, r.value)
<1>1. r.graph = g /\ r.value = v
  BY KeptIs
<1> QED BY <1>1, OperandJustified DEF Candidate, OperandIs

\* x to the power 2 is x * x.
LEMMA NormalizeOpsJustified ==
  ASSUME NEW g, NEW n, Candidate(g, n), NEW r \in NormalizeOps(g, n)
  PROVE  Justified(g, g.nodes[n].result, r.graph, r.value)
<1>1. PICK a, c, inputs, h : /\ a = Operand(g, n, 1) /\ c = Operand(g, n, 2) /\ inputs = <<a, a>>
                             /\ h = AddNode(g, "mul", inputs, 0)
  OBVIOUS
<1>2. g.nodes[n].op = "pow" /\ IsPayload(g, c, 2) /\ r \in Appended(h)
  BY <1>1 DEF NormalizeOps
<1>3. Binary("pow") /\ Binary("mul") /\ ~Effectful("mul") /\ "mul" \in Computed
  BY DEF Binary, Effectful, Computed
<1>4. Sound(g) /\ Ranked(g)
  BY DEF Candidate
<1>5. PICK m, s : m = Len(g.values) /\ s = g.nodes[n].result
  OBVIOUS
<1>6. OperandIs(g, n, a) /\ OperandIs(g, n, c) /\ s \in 1 .. m
  BY <1>1, <1>2, <1>3, <1>5, CandidateIs
<1>7. a \in 1 .. m /\ a \notin DOMAIN g.rep /\ c \in 1 .. m
  BY <1>5, <1>6 DEF OperandIs
<1>8. MayRead(g, "mul", inputs) /\ Len(inputs) = 2 /\ inputs[1] = a /\ inputs[2] = a
  BY <1>1, <1>3, <1>5, <1>7, TwoOperands
<1>9. PICK b, rank : b \in Nat /\ Ranks(g, b, rank)
  BY <1>4 DEF Ranked
<1>10. \A k \in 1 .. Len(inputs) : rank[inputs[k]] < rank[s]
  BY <1>5, <1>6, <1>8, <1>9 DEF OperandIs
<1>11. LiveBelow(g) => \A k \in 1 .. Len(inputs) : Available(g, inputs[k])
  BY <1>6, <1>8 DEF OperandIs
<1>12. ASSUME NEW x, NEW den, Denotes(g, x, den)
       PROVE  EvalScalar("mul", den[inputs[1]], IF Len(inputs) > 1 THEN den[inputs[2]] ELSE 0) = den[s]
  <2>1. den[s] = EvalScalar("pow", den[a], den[c])
    BY <1>1, <1>2, <1>3, <1>5, <1>12, CandidateIs
  <2>2. den[c] = 2
    BY <1>2, <1>4, <1>5, <1>7, <1>12, PayloadDenotes DEF IsPayload
  <2>3. den[a] \in Nat
    BY <1>5, <1>7, <1>12, DenotesResidues
  <2>4. Power(den[a], 2) = den[a] * den[a]
    BY <2>3, PowerIs
  <2>5. den[s] = (den[a] * den[a]) % Modulus
    BY <2>1, <2>2, <2>4 DEF EvalScalar
  <2> QED BY <1>8, <2>5 DEF EvalScalar
<1>13. Justified(g, s, h, m + 1) /\ Len(h.values) = m + 1
  <2>1. Justified(g, s, h, m + 1)
    BY <1>1, <1>3, <1>4, <1>5, <1>6, <1>8, <1>9, <1>10, <1>11, <1>12, NodeJustified
  <2>2. Len(h.values) = m + 1
    <3>1. PICK k : k = Len(g.nodes)
      OBVIOUS
    <3> QED BY <1>1, <1>3, <1>4, <1>5, <1>8, <1>11, <3>1, NodeExtends
  <2> QED BY <2>1, <2>2
<1> QED BY <1>2, <1>5, <1>13, AppendedIs

\* What the constants compute.
LEMMA ConstantFoldJustified ==
  ASSUME NEW g, NEW n, Candidate(g, n), NEW r \in ConstantFold(g, n)
  PROVE  Justified(g, g.nodes[n].result, r.graph, r.value)
<1>1. PICK a, c, op, s, m : /\ a = Operand(g, n, 1) /\ c = Operand(g, n, 2) /\ op = g.nodes[n].op
                            /\ s = g.nodes[n].result /\ m = Len(g.values)
  OBVIOUS
<1>2. PICK p \in FoldsTo(g, n) : r \in Appended(AddConstant(g, p))
  BY DEF ConstantFold
<1>3. \A k \in DOMAIN g.nodes[n].inputs : IsConstant(g, Operand(g, n, k))
  BY DEF ConstantFold
<1>4. Sound(g) /\ Ranked(g) /\ n \in 1 .. Len(g.nodes)
  BY DEF Candidate
<1>5. /\ Len(g.nodes[n].inputs) = (IF Binary(op) THEN 2 ELSE 1) /\ op \in Computed
      /\ DOMAIN g.nodes[n].inputs = 1 .. Len(g.nodes[n].inputs)
  BY <1>1, <1>4, OperandCount
<1>6. OperandIs(g, n, a) /\ (Binary(op) => OperandIs(g, n, c)) /\ s \in 1 .. m
  BY <1>1, CandidateIs
<1>7. IsConstant(g, a) /\ (Binary(op) => IsConstant(g, c))
  BY <1>1, <1>3, <1>5
<1>8. /\ a \in 1 .. m /\ g.values[a].payload \in Residues
      /\ Binary(op) => c \in 1 .. m /\ g.values[c].payload \in Residues
  BY <1>1, <1>4, <1>6, <1>7, PayloadDenotes DEF OperandIs
<1>9. p = EvalScalar(op, g.values[a].payload, IF Binary(op) THEN g.values[c].payload ELSE 0)
  BY <1>1, <1>2 DEF FoldsTo
<1>10. p \in Residues
  <2>1. 0 \in Residues
    BY ModulusAssumption DEF Residues
  <2> QED BY <1>5, <1>8, <1>9, <2>1, ScalarIsResidue
<1>11. ASSUME NEW x, NEW den, Denotes(g, x, den) PROVE den[s] = p
  <2>1. den[s] = EvalScalar(op, den[a], IF Binary(op) THEN den[c] ELSE 0)
    BY <1>1, <1>11, CandidateIs
  <2>2. den[a] = g.values[a].payload
    BY <1>1, <1>4, <1>7, <1>8, <1>11, PayloadDenotes
  <2>3. Binary(op) => den[c] = g.values[c].payload
    BY <1>1, <1>4, <1>7, <1>8, <1>11, PayloadDenotes
  <2> QED BY <1>9, <2>1, <2>2, <2>3
<1>12. PICK h : h = AddConstant(g, p)
  OBVIOUS
<1>13. Justified(g, s, h, m + 1) /\ Len(h.values) = m + 1
  <2>1. Justified(g, s, h, m + 1)
    BY <1>1, <1>4, <1>6, <1>10, <1>11, <1>12, ConstantJustified
  <2>2. Len(h.values) = m + 1
    BY <1>1, <1>4, <1>10, <1>12, ConstantExtends
  <2> QED BY <2>1, <2>2
<1> QED BY <1>1, <1>2, <1>12, <1>13, AppendedIs

\* x + 0 and x * 1.
LEMMA IdentityElimJustified ==
  ASSUME NEW g, NEW n, Candidate(g, n), NEW r \in IdentityElim(g, n)
  PROVE  Justified(g, g.nodes[n].result, r.graph, r.value)
<1>1. PICK a, c, op, s, unit : /\ a = Operand(g, n, 1) /\ c = Operand(g, n, 2) /\ op = g.nodes[n].op
                               /\ s = g.nodes[n].result /\ unit = IF op = "mul" THEN 1 ELSE 0
  OBVIOUS
<1>2. /\ op \in {"add", "mul"}
      /\ \/ IsPayload(g, a, unit) /\ r \in Keep(g, c)
         \/ IsPayload(g, c, unit) /\ r \in Keep(g, a)
  BY <1>1 DEF IdentityElim
<1>3. Binary(op)
  BY <1>2 DEF Binary
<1>4. Sound(g)
  BY DEF Candidate
<1>5. OperandIs(g, n, a) /\ OperandIs(g, n, c)
  BY <1>1, <1>3, CandidateIs
<1>6. a \in 1 .. Len(g.values) /\ c \in 1 .. Len(g.values)
  BY <1>5 DEF OperandIs
<1>7. ASSUME NEW x, NEW den, Denotes(g, x, den)
      PROVE  /\ IsPayload(g, a, unit) => den[c] = den[s]
             /\ IsPayload(g, c, unit) => den[a] = den[s]
  <2>1. den[s] = EvalScalar(op, den[a], den[c])
    BY <1>1, <1>3, <1>7, CandidateIs
  <2>2. den[a] \in Residues /\ den[a] \in Int /\ den[c] \in Residues /\ den[c] \in Int
    BY <1>6, <1>7, DenotesResidues
  <2>3. /\ IsPayload(g, a, unit) => den[a] = unit
        /\ IsPayload(g, c, unit) => den[c] = unit
    BY <1>4, <1>6, <1>7, PayloadDenotes DEF IsPayload
  <2>4. PICK u, w : u = den[a] /\ w = den[c]
    OBVIOUS
  <2>5. u % Modulus = u /\ w % Modulus = w
    BY <2>2, <2>4, ModOfResidue
  <2>6. CASE op = "add"
    <3>1. den[s] = (u + w) % Modulus /\ unit = 0
      BY <1>1, <2>1, <2>4, <2>6 DEF EvalScalar
    <3>2. 0 + w = w /\ u + 0 = u
      BY <2>2, <2>4
    <3> QED BY <2>3, <2>4, <2>5, <3>1, <3>2
  <2>7. CASE op = "mul"
    <3>1. den[s] = (u * w) % Modulus /\ unit = 1
      BY <1>1, <2>1, <2>4, <2>7 DEF EvalScalar
    <3>2. 1 * w = w /\ u * 1 = u
      BY <2>2, <2>4
    <3> QED BY <2>3, <2>4, <2>5, <3>1, <3>2
  <2> QED BY <1>2, <2>6, <2>7
<1>8. CASE IsPayload(g, a, unit) /\ r \in Keep(g, c)
  BY <1>1, <1>5, <1>7, <1>8, OperandTakesOver
<1>9. CASE IsPayload(g, c, unit) /\ r \in Keep(g, a)
  BY <1>1, <1>5, <1>7, <1>9, OperandTakesOver
<1> QED BY <1>2, <1>8, <1>9

\* x - 0 and x / 1.
LEMMA NeutralRight ==
  ASSUME NEW g, NEW n, Candidate(g, n), NEW c, c = Operand(g, n, 2), NEW u,
         (g.nodes[n].op = "sub" /\ u = 0) \/ (g.nodes[n].op = "div" /\ u = 1), IsPayload(g, c, u),
         NEW r \in Keep(g, Operand(g, n, 1))
  PROVE  Justified(g, g.nodes[n].result, r.graph, r.value)
<1>1. PICK a, s : a = Operand(g, n, 1) /\ s = g.nodes[n].result
  OBVIOUS
<1>2. Binary(g.nodes[n].op)
  BY DEF Binary
<1>3. OperandIs(g, n, a) /\ OperandIs(g, n, c) /\ Sound(g)
  BY <1>1, <1>2, CandidateIs DEF Candidate
<1>4. a \in 1 .. Len(g.values) /\ c \in 1 .. Len(g.values)
  BY <1>3 DEF OperandIs
<1>5. ASSUME NEW x, NEW den, Denotes(g, x, den) PROVE den[a] = den[s]
  <2>1. den[s] = EvalScalar(g.nodes[n].op, den[a], den[c])
    BY <1>1, <1>2, <1>5, CandidateIs
  <2>2. den[a] \in Residues /\ den[a] \in Int
    BY <1>4, <1>5, DenotesResidues
  <2>3. den[c] = u
    BY <1>3, <1>4, <1>5, PayloadDenotes DEF IsPayload
  <2>4. PICK y : y = den[a]
    OBVIOUS
  <2>5. y % Modulus = y
    BY <2>2, <2>4, ModOfResidue
  <2>6. CASE g.nodes[n].op = "sub" /\ u = 0
    <3>1. den[s] = (y - 0) % Modulus
      BY <2>1, <2>3, <2>4, <2>6 DEF EvalScalar
    <3>2. y - 0 = y
      BY <2>2, <2>4
    <3> QED BY <2>4, <2>5, <3>1, <3>2
  <2>7. CASE g.nodes[n].op = "div" /\ u = 1
    <3>1. den[s] = (y * Inverted(1)) % Modulus
      BY <2>1, <2>3, <2>4, <2>7 DEF EvalScalar
    <3>2. y * 1 = y
      BY <2>2, <2>4
    <3> QED BY <2>4, <2>5, <3>1, <3>2, InvertedOne
  <2> QED BY <2>6, <2>7
<1> QED BY <1>1, <1>3, <1>5, OperandTakesOver

\* x / -1.
LEMMA NegatedQuotient ==
  ASSUME NEW g, NEW n, Candidate(g, n), NEW c, c = Operand(g, n, 2),
         g.nodes[n].op = "div", IsPayload(g, c, MinusOne),
         NEW r \in Appended(AddNode(g, "neg", <<Operand(g, n, 1)>>, 0))
  PROVE  Justified(g, g.nodes[n].result, r.graph, r.value)
<1>1. PICK a, s, m, inputs, h : /\ a = Operand(g, n, 1) /\ s = g.nodes[n].result /\ m = Len(g.values)
                                /\ inputs = <<a>> /\ h = AddNode(g, "neg", inputs, 0)
  OBVIOUS
<1>2. Binary("div") /\ ~Binary("neg") /\ ~Effectful("neg") /\ "neg" \in Computed
  BY DEF Binary, Effectful, Computed
<1>3. Sound(g) /\ Ranked(g)
  BY DEF Candidate
<1>4. OperandIs(g, n, a) /\ OperandIs(g, n, c) /\ s \in 1 .. m
  BY <1>1, <1>2, CandidateIs
<1>5. a \in 1 .. m /\ a \notin DOMAIN g.rep /\ c \in 1 .. m
  BY <1>1, <1>4 DEF OperandIs
<1>6. MayRead(g, "neg", inputs) /\ Len(inputs) = 1 /\ inputs[1] = a
  BY <1>1, <1>2, <1>5, OneOperand
<1>7. PICK b, rank : b \in Nat /\ Ranks(g, b, rank)
  BY <1>3 DEF Ranked
<1>8. \A k \in 1 .. Len(inputs) : rank[inputs[k]] < rank[s]
  BY <1>1, <1>4, <1>6, <1>7 DEF OperandIs
<1>9. LiveBelow(g) => \A k \in 1 .. Len(inputs) : Available(g, inputs[k])
  BY <1>4, <1>6 DEF OperandIs
<1>10. ASSUME NEW x, NEW den, Denotes(g, x, den)
       PROVE  EvalScalar("neg", den[inputs[1]], IF Len(inputs) > 1 THEN den[inputs[2]] ELSE 0) = den[s]
  <2>1. den[s] = EvalScalar("div", den[a], den[c])
    BY <1>1, <1>2, <1>10, CandidateIs
  <2>2. den[c] = MinusOne
    BY <1>1, <1>3, <1>5, <1>10, PayloadDenotes DEF IsPayload
  <2>3. den[a] \in Residues /\ MinusOne # 0
    BY <1>1, <1>5, <1>10, DenotesResidues, ModulusAssumption DEF MinusOne
  <2>4. den[s] = (den[a] * MinusOne) % Modulus
    BY <2>1, <2>2, <2>3, InvertedMinusOne DEF EvalScalar
  <2>5. den[s] = (-den[a]) % Modulus
    BY <2>3, <2>4, TimesMinusOne
  <2>6. EvalScalar("neg", den[a], 0) = (-den[a]) % Modulus
    BY DEF EvalScalar
  <2> QED BY <1>6, <2>5, <2>6
<1>11. Justified(g, s, h, m + 1)
  BY <1>1, <1>2, <1>3, <1>4, <1>6, <1>7, <1>8, <1>9, <1>10, NodeJustified
<1>12. Len(h.values) = m + 1
  <2>1. PICK k : k = Len(g.nodes)
    OBVIOUS
  <2> QED BY <1>1, <1>2, <1>3, <1>6, <1>9, <2>1, NodeExtends
<1> QED BY <1>1, <1>11, <1>12, AppendedIs

\* neg(neg(x)).
LEMMA NegatedNegation ==
  ASSUME NEW g, NEW n, Candidate(g, n), NEW a, a = Operand(g, n, 1), g.nodes[n].op = "neg",
         LiveProducer(g, a), g.nodes[g.values[a].producer].op = "neg",
         NEW r \in Keep(g, Operand(g, g.values[a].producer, 1))
  PROVE  Justified(g, g.nodes[n].result, r.graph, r.value)
<1>1. PICK s, p, y : s = g.nodes[n].result /\ p = g.values[a].producer /\ y = Operand(g, p, 1)
  OBVIOUS
<1>2. ~Binary("neg")
  BY DEF Binary
<1>3. Sound(g) /\ GraphOK(g) /\ LinksOK(g) /\ Ranked(g)
  BY DEF Candidate, Sound
<1>4. OperandIs(g, n, a)
  BY CandidateIs
<1>5. a \in 1 .. Len(g.values) /\ IsResult(g, a)
  BY <1>4 DEF OperandIs, LiveProducer, IsResult
<1>6. p \in 1 .. Len(g.nodes) /\ ~g.nodes[p].dead /\ g.nodes[p].op = "neg"
  <2>1. p \in 1 .. Len(g.nodes)
    BY <1>1, <1>3, <1>5 DEF GraphOK, ValuesOK, ValueOver, IsResult
  <2> QED BY <1>1, <2>1 DEF LiveProducer
<1>7. g.nodes[p].result = a
  BY <1>1, <1>3, <1>5 DEF LinksOK, ProducerOf
<1>8. Candidate(g, p)
  BY <1>3, <1>6 DEF Candidate
<1>9. OperandIs(g, p, y)
  BY <1>1, <1>8, CandidateIs
<1>10. y \in 1 .. Len(g.values)
  BY <1>9, SMTT(30) DEF OperandIs
<1>11. OperandIs(g, n, y)
  <2>1. ASSUME NEW b, NEW rank, Ranks(g, b, rank) PROVE rank[y] < rank[s]
    <3>1. rank[y] < rank[a] /\ rank[a] < rank[s]
      BY <1>1, <1>4, <1>7, <1>9, <2>1 DEF OperandIs
    <3>2. s \in 1 .. Len(g.values)
      BY <1>1, CandidateIs
    <3>3. rank[y] \in 0 .. b /\ rank[a] \in 0 .. b /\ rank[s] \in 0 .. b
      BY <1>5, <1>10, <2>1, <3>2 DEF Ranks
    <3>4. PICK i, j, k : i = rank[y] /\ j = rank[a] /\ k = rank[s]
      OBVIOUS
    <3>5. i \in Int /\ j \in Int /\ k \in Int
      BY <3>3, <3>4
    <3> QED BY <3>1, <3>4, <3>5
  <2> QED BY <1>1, <1>9, <2>1 DEF OperandIs
<1>12. ASSUME NEW x, NEW den, Denotes(g, x, den) PROVE den[y] = den[s]
  <2>1. den[s] = EvalScalar("neg", den[a], 0) /\ den[a] = EvalScalar("neg", den[y], 0)
    BY <1>1, <1>2, <1>6, <1>7, <1>8, <1>12, CandidateIs, SMTT(30)
  <2>2. den[s] = (-den[a]) % Modulus /\ den[a] = (-den[y]) % Modulus
    BY <2>1 DEF EvalScalar
  <2>3. den[y] \in Residues
    BY <1>10, <1>12, DenotesResidues
  <2> QED BY <2>2, <2>3, NegatedTwice
<1> QED BY <1>1, <1>11, <1>12, OperandTakesOver

\* Every identity of math.algebraic.simplify gives a value equal to the node it replaces.
LEMMA AlgebraicSimplifyJustified ==
  ASSUME NEW g, NEW n, Candidate(g, n), NEW r \in AlgebraicSimplify(g, n)
  PROVE  Justified(g, g.nodes[n].result, r.graph, r.value)
<1>1. PICK a, c, op : a = Operand(g, n, 1) /\ c = Operand(g, n, 2) /\ op = g.nodes[n].op
  OBVIOUS
<1>2. \/ op = "sub" /\ IsPayload(g, c, 0) /\ r \in Keep(g, a)
      \/ op = "div" /\ IsPayload(g, c, 1) /\ r \in Keep(g, a)
      \/ op = "div" /\ IsPayload(g, c, MinusOne) /\ r \in Appended(AddNode(g, "neg", <<a>>, 0))
      \/ /\ op = "neg" /\ LiveProducer(g, a) /\ g.nodes[g.values[a].producer].op = "neg"
         /\ r \in Keep(g, Operand(g, g.values[a].producer, 1))
  BY <1>1 DEF AlgebraicSimplify
<1>3. CASE op = "sub" /\ IsPayload(g, c, 0) /\ r \in Keep(g, a)
  <2>1. PICK u : u = 0
    OBVIOUS
  <2>2. (g.nodes[n].op = "sub" /\ u = 0) \/ (g.nodes[n].op = "div" /\ u = 1)
    BY <1>1, <1>3, <2>1, Zenon
  <2>3. IsPayload(g, c, u)
    BY <1>3, <2>1, Zenon
  <2> QED BY <1>1, <1>3, <2>2, <2>3, NeutralRight
<1>4. CASE op = "div" /\ IsPayload(g, c, 1) /\ r \in Keep(g, a)
  <2>1. PICK u : u = 1
    OBVIOUS
  <2>2. ((g.nodes[n].op = "sub" /\ u = 0) \/ (g.nodes[n].op = "div" /\ u = 1)) /\ IsPayload(g, c, u)
    BY <1>1, <1>4, <2>1
  <2> QED BY <1>1, <1>4, <2>2, NeutralRight
<1>5. CASE op = "div" /\ IsPayload(g, c, MinusOne) /\ r \in Appended(AddNode(g, "neg", <<a>>, 0))
  BY <1>1, <1>5, NegatedQuotient
<1>6. CASE /\ op = "neg" /\ LiveProducer(g, a) /\ g.nodes[g.values[a].producer].op = "neg"
           /\ r \in Keep(g, Operand(g, g.values[a].producer, 1))
  BY <1>1, <1>6, NegatedNegation
<1> QED BY <1>2, <1>3, <1>4, <1>5, <1>6

\* x / c is x times the inverse of c.
LEMMA StrengthReduceJustified ==
  ASSUME NEW g, NEW n, Candidate(g, n), NEW r \in StrengthReduce(g, n)
  PROVE  Justified(g, g.nodes[n].result, r.graph, r.value)
<1>1. PICK a, c, s, m, q, h : /\ a = Operand(g, n, 1) /\ c = Operand(g, n, 2)
                              /\ s = g.nodes[n].result /\ m = Len(g.values)
                              /\ q = g.values[c].payload /\ h = AddConstant(g, Inverted(q))
  OBVIOUS
<1>2. PICK y, inputs, l : y = NewestValue(h) /\ inputs = <<a, y>> /\ l = AddNode(h, "mul", inputs, 0)
  OBVIOUS
<1>3. g.nodes[n].op = "div" /\ IsConstant(g, c) /\ q \in {1, 2, MinusOne} /\ r \in Appended(l)
  BY <1>1, <1>2 DEF StrengthReduce, IsPayload
<1>4. Binary("div") /\ Binary("mul") /\ ~Effectful("mul") /\ "mul" \in Computed
  BY DEF Binary, Effectful, Computed
<1>5. Sound(g) /\ Ranked(g) /\ GraphOK(g)
  BY DEF Candidate, Sound
<1>6. OperandIs(g, n, a) /\ OperandIs(g, n, c) /\ s \in 1 .. m
  BY <1>1, <1>3, <1>4, CandidateIs
<1>7. a \in 1 .. m /\ a \notin DOMAIN g.rep /\ c \in 1 .. m
  BY <1>1, <1>6 DEF OperandIs
<1>8. q \in Residues /\ q # 0
  BY <1>1, <1>3, <1>5, <1>7, PayloadDenotes, ModulusAssumption DEF MinusOne
<1>9. Inverted(q) \in Residues
  BY <1>8, InvertedIs
<1>10. /\ Extends(g, h) /\ Len(h.values) = m + 1 /\ m \in Nat /\ h.nodes = g.nodes
       /\ IsConstant(h, m + 1) /\ h.values[m + 1].payload = Inverted(q)
       /\ \A b, rank : b \in Nat /\ Ranks(g, b, rank) => Ranks(h, b, Extended(rank, m, 0))
  BY <1>1, <1>5, <1>9, ConstantExtends
<1>11. Sound(h) /\ h.rep = g.rep /\ Grown(g, h) /\ y = m + 1
  BY <1>2, <1>10 DEF Extends, NewestValue
<1>12. /\ a \in 1 .. Len(h.values) /\ a \notin DOMAIN h.rep
       /\ y \in 1 .. Len(h.values) /\ y \notin DOMAIN h.rep
  <2>1. \A v \in DOMAIN g.rep : v \in 1 .. m
    BY <1>1, <1>5 DEF Sound, RepOK
  <2>2. a \in 1 .. m + 1 /\ y \in 1 .. m + 1 /\ y \notin 1 .. m
    BY <1>7, <1>10, <1>11
  <2> QED BY <1>7, <1>10, <1>11, <2>1, <2>2
<1>13. MayRead(h, "mul", inputs) /\ Len(inputs) = 2 /\ inputs[1] = a /\ inputs[2] = y
  BY <1>2, <1>4, <1>12, TwoOperands
<1>14. PICK b, base : b \in Nat /\ Ranks(g, b, base)
  BY <1>5 DEF Ranked
<1>15. PICK rank : rank = Extended(base, m, 0)
  OBVIOUS
<1>16. Ranks(h, b, rank)
  BY <1>10, <1>14, <1>15
<1>17. \A k \in 1 .. Len(inputs) : rank[inputs[k]] < rank[s]
  <2>1. base[a] < base[s] /\ base[a] \in 0 .. b /\ base[s] \in 0 .. b
    BY <1>1, <1>6, <1>7, <1>14 DEF OperandIs, Ranks
  <2>2. rank[a] = base[a] /\ rank[s] = base[s] /\ rank[y] = 0
    BY <1>6, <1>7, <1>10, <1>11, <1>15, ExtendedIs
  <2>3. rank[a] < rank[s] /\ rank[y] < rank[s]
    BY <2>1, <2>2
  <2> QED BY <1>13, <2>3
<1>18. LiveBelow(h) => \A k \in 1 .. Len(inputs) : Available(h, inputs[k])
  <2>1. ASSUME LiveBelow(h) PROVE Available(h, a)
    <3>1. n \in 1 .. Len(g.nodes) /\ ~g.nodes[n].dead
      BY DEF Candidate
    <3>2. /\ Len(h.nodes[n].inputs) = IF Binary(h.nodes[n].op) THEN 2 ELSE 1
          /\ h.nodes[n] = g.nodes[n]
      BY <1>5, <1>10, <3>1, OperandCount
    <3>3. h.nodes[n].inputs[1] = a
      BY <1>1, <3>2, Zenon DEF Operand
    <3>4. 1 \in 1 .. Len(h.nodes[n].inputs)
      BY <3>2
    <3> QED BY <1>10, <2>1, <3>1, <3>2, <3>3, <3>4 DEF LiveBelow
  <2>2. Available(h, y)
    BY <1>10, <1>11 DEF Available, IsResult, IsConstant
  <2> QED BY <1>13, <2>1, <2>2
<1>19. ASSUME NEW x, NEW den, Denotes(h, x, den)
       PROVE  EvalScalar("mul", den[inputs[1]], IF Len(inputs) > 1 THEN den[inputs[2]] ELSE 0) = den[s]
  <2>1. PICK d : d = [v \in 1 .. m |-> den[v]]
    OBVIOUS
  <2>2. Denotes(g, x, d) /\ d[a] = den[a] /\ d[c] = den[c] /\ d[s] = den[s]
    BY <1>1, <1>5, <1>6, <1>7, <1>11, <1>19, <2>1, DenotesRestricted
  <2>3. d[s] = EvalScalar("div", d[a], d[c])
    BY <1>1, <1>3, <1>4, <2>2, CandidateIs
  <2>4. d[c] = q
    BY <1>1, <1>3, <1>5, <1>7, <2>2, PayloadDenotes
  <2>5. den[y] = Inverted(q)
    BY <1>10, <1>11, <1>12, <1>19, PayloadDenotes
  <2>6. d[s] = (d[a] * Inverted(q)) % Modulus
    BY <1>8, <2>3, <2>4 DEF EvalScalar
  <2>7. EvalScalar("mul", den[a], den[y]) = (den[a] * den[y]) % Modulus
    BY DEF EvalScalar
  <2> QED BY <1>13, <2>2, <2>5, <2>6, <2>7
<1>20. PICK t : t = Len(h.values)
  OBVIOUS
<1>21. s \in 1 .. t
  BY <1>6, <1>10, <1>20
<1>22. Justified(h, s, l, t + 1)
  BY <1>2, <1>4, <1>11, <1>13, <1>14, <1>16, <1>17, <1>18, <1>19, <1>20, <1>21, NodeJustified
<1>23. Len(l.values) = t + 1
  <2>1. PICK k : k = Len(h.nodes)
    OBVIOUS
  <2>2. Sound(h) /\ t = Len(h.values) /\ "mul" \in Computed /\ ~Effectful("mul") /\ MayRead(h, "mul", inputs)
    BY <1>4, <1>11, <1>13, <1>20
  <2>3. ASSUME NEW w, w = AddNode(h, "mul", inputs, 0) PROVE Len(w.values) = t + 1
    BY <1>18, <2>1, <2>2, <2>3, NodeExtends
  <2> QED BY <1>2, <2>3
<1>24. Justified(g, s, l, t + 1)
  BY <1>5, <1>10, <1>22, JustifiedOver
<1> QED BY <1>1, <1>3, <1>23, <1>24, AppendedIs

\* An earlier equal node.
LEMMA CommonSubexpressionJustified ==
  ASSUME NEW g, NEW order, NEW k \in Nat \ {0}, Candidate(g, order[k]),
         \A j \in 1 .. k : order[j] \in 1 .. Len(g.nodes), \A j \in 1 .. k - 1 : order[j] # order[k],
         NEW r \in CommonSubexpression(g, order, k)
  PROVE  Justified(g, g.nodes[order[k]].result, r.graph, r.value)
<1>1. PICK j \in EarlierEqual(g, order, k) : r \in Keep(g, g.nodes[order[j]].result)
  BY DEF CommonSubexpression
<1>2. PICK i, n, v, s, m : /\ i = order[j] /\ n = order[k] /\ v = g.nodes[i].result /\ s = g.nodes[n].result
                           /\ m = Len(g.values)
  OBVIOUS
<1>3. i \in 1 .. Len(g.nodes) /\ ~g.nodes[i].dead /\ StructurallyEqual(g, v, s) /\ i # n
  BY <1>1, <1>2 DEF EarlierEqual
<1>4. n \in 1 .. Len(g.nodes) /\ ~g.nodes[n].dead /\ Sound(g) /\ Ranked(g) /\ GraphOK(g) /\ LinksOK(g)
  BY <1>2 DEF Candidate, Sound
<1>5. v \in 1 .. m /\ s \in 1 .. m /\ IsResult(g, v) /\ ProducerOf(g, v) = g.nodes[i]
  BY <1>2, <1>3, <1>4, LiveResult
<1>6. v # s
  <2>1. g.values[v].producer = i
    BY <1>2, <1>3, <1>4 DEF LinksOK
  <2>2. g.values[s].producer = n
    BY <1>2, <1>4 DEF LinksOK
  <2> QED BY <1>3, <2>1, <2>2
<1>7. Available(g, v)
  BY <1>3, <1>5 DEF Available
<1>8. v \notin DOMAIN g.rep
  BY <1>4, <1>7 DEF Sound, RepOK
<1>9. \E b \in Nat : \E rank : Ranks(g, b, rank) /\ rank[v] <= rank[s]
  <2>1. PICK b, rank : /\ b \in Nat /\ Ranks(g, b, rank)
                               /\ \A w, u \in 1 .. m : StructurallyEqual(g, w, u) => rank[w] = rank[u]
    BY <1>2, <1>4, EqualRanked
  <2>2. rank[v] = rank[s] /\ rank[v] \in 0 .. b
    BY <1>2, <1>3, <1>5, <2>1 DEF Ranks
  <2>3. rank[v] <= rank[s]
    BY <2>2
  <2> QED BY <2>1, <2>3
<1>10. NamesOnce(g) => \A x, den : Denotes(g, x, den) => den[v] = den[s]
  <2>1. ASSUME NamesOnce(g), NEW x, NEW den, Denotes(g, x, den) PROVE den[v] = den[s]
    <3>1. \A w, u \in 1 .. m : StructurallyEqual(g, w, u) => den[w] = den[u]
      BY <1>2, <1>4, <2>1, EqualDenotes, SMTT(30)
    <3> QED BY <1>3, <1>5, <3>1
  <2> QED BY <2>1
<1>11. Justified(g, s, g, v)
  BY <1>2, <1>4, <1>5, <1>6, <1>7, <1>8, <1>9, <1>10, ValueJustified
<1> QED BY <1>1, <1>2, <1>11, KeptIs

\* Every rewrite is justified.
LEMMA RewritesJustified ==
  ASSUME NEW sweep, NEW g, Sound(g), Ranked(g), NEW order, NEW k \in Nat \ {0},
         \A j \in 1 .. k : order[j] \in 1 .. Len(g.nodes), \A j \in 1 .. k - 1 : order[j] # order[k],
         NEW r \in Rewrites(sweep, g, order, k)
  PROVE  Justified(g, g.nodes[order[k]].result, r.graph, r.value)
<1>1. PICK n : n = order[k]
  OBVIOUS
<1>2. /\ ~g.nodes[n].dead
      /\ \/ r \in NormalizeOps(g, n) \/ r \in ConstantFold(g, n) \/ r \in IdentityElim(g, n)
         \/ r \in AlgebraicSimplify(g, n) \/ r \in StrengthReduce(g, n)
         \/ r \in CommonSubexpression(g, order, k)
  BY <1>1, Zenon DEF Rewrites
<1>3. Candidate(g, n)
  <2>1. k \in 1 .. k
    OBVIOUS
  <2> QED BY <1>1, <1>2, <2>1 DEF Candidate
<1>4. CASE r \in NormalizeOps(g, n)
  BY <1>1, <1>3, <1>4, NormalizeOpsJustified
<1>5. CASE r \in ConstantFold(g, n)
  BY <1>1, <1>3, <1>5, ConstantFoldJustified
<1>6. CASE r \in IdentityElim(g, n)
  BY <1>1, <1>3, <1>6, IdentityElimJustified
<1>7. CASE r \in AlgebraicSimplify(g, n)
  BY <1>1, <1>3, <1>7, AlgebraicSimplifyJustified
<1>8. CASE r \in StrengthReduce(g, n)
  BY <1>1, <1>3, <1>8, StrengthReduceJustified
<1>9. CASE r \in CommonSubexpression(g, order, k)
  BY <1>1, <1>3, <1>9, CommonSubexpressionJustified
<1> QED BY <1>2, <1>4, <1>5, <1>6, <1>7, <1>8, <1>9

-----------------------------------------------------------------------------
(***************************************************************************)
(* replaceResult and killNode, table by table.                             *)
(***************************************************************************)

\* The producer n of r is dead, and v stands where a live node or an output
\* read r.
AfterSwap(g, h, n, r, v) ==
  /\ h.values = g.values /\ h.chain = g.chain
  /\ Len(h.nodes) = Len(g.nodes) /\ Len(h.outputs) = Len(g.outputs)
  /\ DOMAIN h.rep = DOMAIN g.rep \union {r}
  /\ \A k \in 1 .. Len(g.nodes) :
       /\ h.nodes[k].op = g.nodes[k].op /\ h.nodes[k].attr = g.nodes[k].attr
       /\ h.nodes[k].result = g.nodes[k].result
       /\ h.nodes[k].dead <=> (g.nodes[k].dead \/ k = n)
       /\ Len(h.nodes[k].inputs) = Len(g.nodes[k].inputs)
       /\ \A j \in 1 .. Len(g.nodes[k].inputs) :
            h.nodes[k].inputs[j] = IF ~g.nodes[k].dead /\ g.nodes[k].inputs[j] = r THEN v
                                   ELSE g.nodes[k].inputs[j]
  /\ \A k \in 1 .. Len(g.outputs) : h.outputs[k] = IF g.outputs[k] = r THEN v ELSE g.outputs[k]

\* A sequence in which one item replaces another.
LEMMA ReplacedItems ==
  ASSUME NEW s, IsSequence(s), NEW old, NEW new, NEW t, t = ReplaceAll(s, old, new)
  PROVE  Len(t) = Len(s) /\ \A k \in 1 .. Len(s) : t[k] = IF s[k] = old THEN new ELSE s[k]
<1>1. t = [i \in 1 .. Len(s) |-> IF s[i] = old THEN new ELSE s[i]]
  BY DEF ReplaceAll
<1>2. Len(t) = Len(s)
  BY <1>1, FunctionIsSequence DEF IsSequence
<1> QED BY <1>1, <1>2

\* A node whose operands are replaced.
LEMMA RewiredIs ==
  ASSUME NEW n, NodeForm(n), IsSequence(n.inputs), NEW old, NEW new, NEW k, k = Rewired(n, old, new)
  PROVE  /\ k.op = n.op /\ k.attr = n.attr /\ k.result = n.result /\ k.dead = n.dead
         /\ Len(k.inputs) = Len(n.inputs)
         /\ \A j \in 1 .. Len(n.inputs) :
              k.inputs[j] = IF ~n.dead /\ n.inputs[j] = old THEN new ELSE n.inputs[j]
<1>1. CASE n.dead
  <2>1. k = n
    BY <1>1 DEF Rewired
  <2> QED BY <1>1, <2>1
<1>2. CASE ~n.dead
  <2>1. PICK x : x = ReplaceAll(n.inputs, old, new)
    OBVIOUS
  <2>2. n = [id |-> n.id, op |-> n.op, attr |-> n.attr, inputs |-> n.inputs,
             result |-> n.result, dead |-> n.dead]
    BY DEF NodeForm
  <2>3. k = [n EXCEPT !.inputs = x]
    BY <1>2, <2>1 DEF Rewired
  <2>4. k = [id |-> n.id, op |-> n.op, attr |-> n.attr, inputs |-> x, result |-> n.result, dead |-> n.dead]
    BY <2>2, <2>3
  <2>5. Len(x) = Len(n.inputs) /\ \A j \in 1 .. Len(n.inputs) : x[j] = IF n.inputs[j] = old THEN new ELSE n.inputs[j]
    BY <2>1, ReplacedItems
  <2>6. /\ k.op = n.op /\ k.attr = n.attr /\ k.result = n.result /\ k.dead = n.dead /\ k.inputs = x
    BY <2>4
  <2> QED BY <1>2, <2>5, <2>6
<1> QED BY <1>1, <1>2

\* killNode of a pure node: the fields after it.
LEMMA KilledFields ==
  ASSUME NEW g, GraphOK(g), NEW n \in 1 .. Len(g.nodes), ~Effectful(g.nodes[n].op),
         NEW h, h = KillNode(g, n)
  PROVE  /\ h.values = g.values /\ h.chain = g.chain /\ h.outputs = g.outputs /\ h.rep = g.rep
         /\ Len(h.nodes) = Len(g.nodes)
         /\ \A k \in 1 .. Len(g.nodes) :
              /\ h.nodes[k].op = g.nodes[k].op /\ h.nodes[k].attr = g.nodes[k].attr
              /\ h.nodes[k].result = g.nodes[k].result /\ h.nodes[k].inputs = g.nodes[k].inputs
              /\ h.nodes[k].dead <=> (g.nodes[k].dead \/ k = n)
<1>1. /\ h.values = g.values /\ h.chain = g.chain /\ h.outputs = g.outputs /\ h.rep = g.rep
      /\ Len(h.nodes) = Len(g.nodes)
      /\ h.nodes[n] = [g.nodes[n] EXCEPT !.dead = TRUE]
      /\ \A k \in 1 .. Len(g.nodes) : k # n => h.nodes[k] = g.nodes[k]
  BY TablesKilled
<1>2. NodeForm(g.nodes[n])
  BY DEF GraphOK, NodesOK, NodeOver
<1>3. PICK a : a = g.nodes[n]
  OBVIOUS
<1>4. a = [id |-> a.id, op |-> a.op, attr |-> a.attr, inputs |-> a.inputs, result |-> a.result, dead |-> a.dead]
  BY <1>2, <1>3 DEF NodeForm
<1>5. h.nodes[n] = [id |-> a.id, op |-> a.op, attr |-> a.attr, inputs |-> a.inputs,
                    result |-> a.result, dead |-> TRUE]
  BY <1>1, <1>3, <1>4
<1>6. /\ h.nodes[n].op = a.op /\ h.nodes[n].attr = a.attr /\ h.nodes[n].result = a.result
      /\ h.nodes[n].inputs = a.inputs /\ h.nodes[n].dead = TRUE
  BY <1>5
<1>7. ASSUME NEW k \in 1 .. Len(g.nodes)
      PROVE  /\ h.nodes[k].op = g.nodes[k].op /\ h.nodes[k].attr = g.nodes[k].attr
             /\ h.nodes[k].result = g.nodes[k].result /\ h.nodes[k].inputs = g.nodes[k].inputs
             /\ h.nodes[k].dead <=> (g.nodes[k].dead \/ k = n)
  <2>1. CASE k = n
    BY <1>3, <1>6, <2>1
  <2>2. CASE k # n
    BY <1>1, <2>2
  <2> QED BY <2>1, <2>2
<1> QED BY <1>1, <1>7

\* replaceResult: the fields after it.
LEMMA SwappedFields ==
  ASSUME NEW g, GraphOK(g), NEW n \in 1 .. Len(g.nodes), Pure(g, n), NEW r, r = g.nodes[n].result,
         NEW v \in 1 .. Len(g.values), v # r, NEW h, h = ReplaceResult(g, n, v)
  PROVE  AfterSwap(g, h, n, r, v) /\ GraphOK(h)
<1>1. PICK a, b, c : a = ReplaceOperandUses(g, r, v) /\ b = RecordEquivalent(a, r, v) /\ c = Len(g.nodes)
  OBVIOUS
<1>2. h = KillNode(b, n)
  BY <1>1 DEF ReplaceResult
<1>3. TablesOK(g) /\ \A k \in 1 .. c : NodeForm(g.nodes[k]) /\ IsSequence(g.nodes[k].inputs)
  BY <1>1 DEF GraphOK, NodesOK, NodeOver
<1>4. /\ GraphForm(a) /\ a.values = g.values /\ a.chain = g.chain /\ a.rep = g.rep
      /\ a.nodes = [k \in 1 .. c |-> Rewired(g.nodes[k], r, v)]
      /\ a.outputs = ReplaceAll(g.outputs, r, v)
  <2>1. /\ GraphForm(a) /\ a.values = g.values /\ a.chain = g.chain /\ a.rep = g.rep
        /\ a.nodes = [k \in 1 .. Len(g.nodes) |-> Rewired(g.nodes[k], r, v)]
        /\ a.outputs = ReplaceAll(g.outputs, r, v)
        /\ a.users = [w \in 1 .. Len(g.values) |-> RebuiltFor(a.nodes, w)]
    <3>1. r # v /\ a = ReplaceOperandUses(g, r, v) /\ TablesOK(g)
      BY <1>1, <1>3
    <3> QED BY <3>1, TablesRewired
  <2> QED BY <1>1, <2>1
<1>5. GraphOK(a) /\ Len(a.nodes) = c
  BY <1>1, UsesReplaced
<1>6. \A k \in 1 .. c :
        /\ a.nodes[k].op = g.nodes[k].op /\ a.nodes[k].attr = g.nodes[k].attr
        /\ a.nodes[k].result = g.nodes[k].result /\ a.nodes[k].dead = g.nodes[k].dead
        /\ Len(a.nodes[k].inputs) = Len(g.nodes[k].inputs)
        /\ \A j \in 1 .. Len(g.nodes[k].inputs) :
             a.nodes[k].inputs[j] = IF ~g.nodes[k].dead /\ g.nodes[k].inputs[j] = r THEN v
                                    ELSE g.nodes[k].inputs[j]
  <2>1. ASSUME NEW k \in 1 .. c
        PROVE  /\ a.nodes[k].op = g.nodes[k].op /\ a.nodes[k].attr = g.nodes[k].attr
               /\ a.nodes[k].result = g.nodes[k].result /\ a.nodes[k].dead = g.nodes[k].dead
               /\ Len(a.nodes[k].inputs) = Len(g.nodes[k].inputs)
               /\ \A j \in 1 .. Len(g.nodes[k].inputs) :
                    a.nodes[k].inputs[j] = IF ~g.nodes[k].dead /\ g.nodes[k].inputs[j] = r THEN v
                                           ELSE g.nodes[k].inputs[j]
    <3>1. NodeForm(g.nodes[k]) /\ IsSequence(g.nodes[k].inputs) /\ a.nodes[k] = Rewired(g.nodes[k], r, v)
      BY <1>3, <1>4
    <3> QED BY <3>1, RewiredIs, SMTT(30)
  <2> QED BY <2>1, Zenon
<1>7. /\ Len(a.outputs) = Len(g.outputs)
      /\ \A k \in 1 .. Len(g.outputs) : a.outputs[k] = IF g.outputs[k] = r THEN v ELSE g.outputs[k]
  <2>1. IsSequence(g.outputs)
    BY <1>3 DEF TablesOK
  <2> QED BY <1>4, <2>1, ReplacedItems
<1>8. GraphOK(b) /\ b.values = a.values /\ b.nodes = a.nodes
  BY <1>1, <1>5, EquivalentRecorded
<1>9. b.outputs = a.outputs /\ b.chain = a.chain /\ DOMAIN b.rep = DOMAIN a.rep \union {r}
  BY <1>1, <1>4, EquivalentTables, SMTT(30)
<1>10. n \in 1 .. Len(b.nodes) /\ ~Effectful(b.nodes[n].op)
  <2>1. n \in 1 .. c /\ a.nodes[n].op = g.nodes[n].op /\ ~Effectful(g.nodes[n].op)
    BY <1>1, <1>6 DEF Pure
  <2>2. b.nodes = a.nodes /\ Len(a.nodes) = c
    BY <1>5, <1>8
  <2> QED BY ONLY <2>1, <2>2
<1>11. /\ h.values = b.values /\ h.chain = b.chain /\ h.outputs = b.outputs /\ h.rep = b.rep
       /\ Len(h.nodes) = Len(b.nodes)
       /\ \A k \in 1 .. Len(b.nodes) :
            /\ h.nodes[k].op = b.nodes[k].op /\ h.nodes[k].attr = b.nodes[k].attr
            /\ h.nodes[k].result = b.nodes[k].result /\ h.nodes[k].inputs = b.nodes[k].inputs
            /\ h.nodes[k].dead <=> (b.nodes[k].dead \/ k = n)
  BY <1>2, <1>8, <1>10, KilledFields
<1>12. GraphOK(h)
  BY <1>2, <1>8, <1>10, NodeKilled
<1>13. ASSUME NEW k \in 1 .. Len(g.nodes)
       PROVE  /\ h.nodes[k].op = g.nodes[k].op /\ h.nodes[k].attr = g.nodes[k].attr
              /\ h.nodes[k].result = g.nodes[k].result
              /\ h.nodes[k].dead <=> (g.nodes[k].dead \/ k = n)
              /\ Len(h.nodes[k].inputs) = Len(g.nodes[k].inputs)
              /\ \A j \in 1 .. Len(g.nodes[k].inputs) :
                   h.nodes[k].inputs[j] = IF ~g.nodes[k].dead /\ g.nodes[k].inputs[j] = r THEN v
                                          ELSE g.nodes[k].inputs[j]
  <2>1. k \in 1 .. c /\ k \in 1 .. Len(b.nodes)
    BY <1>1, <1>5, <1>8
  <2>2. b.nodes[k] = a.nodes[k]
    BY <1>8
  <2>3. /\ h.nodes[k].op = b.nodes[k].op /\ h.nodes[k].attr = b.nodes[k].attr
        /\ h.nodes[k].result = b.nodes[k].result /\ h.nodes[k].inputs = b.nodes[k].inputs
        /\ h.nodes[k].dead <=> (b.nodes[k].dead \/ k = n)
    BY <1>11, <2>1, SMTT(30)
  <2> QED BY <1>6, <2>1, <2>2, <2>3, SMTT(30)
<1>14. /\ h.values = g.values /\ h.chain = g.chain
       /\ Len(h.nodes) = Len(g.nodes) /\ Len(h.outputs) = Len(g.outputs)
       /\ DOMAIN h.rep = DOMAIN g.rep \union {r}
  <2>1. h.values = g.values /\ h.chain = g.chain
    BY <1>4, <1>8, <1>9, <1>11
  <2>2. Len(h.nodes) = Len(g.nodes)
    <3>1. Len(h.nodes) = Len(b.nodes) /\ b.nodes = a.nodes /\ Len(a.nodes) = c /\ c = Len(g.nodes)
      BY <1>1, <1>5, <1>8, <1>11
    <3> QED BY <3>1, SMTT(30)
  <2>3. Len(h.outputs) = Len(g.outputs)
    <3>1. h.outputs = b.outputs /\ b.outputs = a.outputs /\ Len(a.outputs) = Len(g.outputs)
      BY <1>7, <1>9, <1>11
    <3> QED BY <3>1
  <2>4. DOMAIN h.rep = DOMAIN g.rep \union {r}
    BY <1>4, <1>9, <1>11
  <2> QED BY <2>1, <2>2, <2>3, <2>4
<1>15. \A k \in 1 .. Len(g.outputs) : h.outputs[k] = IF g.outputs[k] = r THEN v ELSE g.outputs[k]
  BY <1>7, <1>9, <1>11
<1> QED BY <1>12, <1>13, <1>14, <1>15 DEF AfterSwap

\* replaceResult in a sound graph.
Swaps(g, h, n, r, v) ==
  /\ Sound(g) /\ GraphOK(h) /\ AfterSwap(g, h, n, r, v)
  /\ n \in 1 .. Len(g.nodes) /\ ~g.nodes[n].dead /\ r = g.nodes[n].result
  /\ v \in 1 .. Len(g.values) /\ v # r /\ v \notin DOMAIN g.rep

\* What becomes of the values.
LEMMA SwapTerms ==
  ASSUME NEW g, NEW h, NEW n, NEW r, NEW v, Swaps(g, h, n, r, v), NEW w \in 1 .. Len(g.values)
  PROVE  /\ h.values = g.values
         /\ IsResult(h, w) <=> IsResult(g, w)
         /\ IsConstant(h, w) <=> IsConstant(g, w)
         /\ \A x : BoundInput(h, x, w) = BoundInput(g, x, w)
         /\ Available(h, w) <=> (Available(g, w) /\ w # r)
         /\ IsResult(g, w) =>
              /\ g.values[w].producer \in 1 .. Len(g.nodes)
              /\ ProducerOf(h, w).op = ProducerOf(g, w).op /\ ProducerOf(h, w).attr = ProducerOf(g, w).attr
              /\ ProducerOf(h, w).result = ProducerOf(g, w).result
              /\ Len(ProducerOf(h, w).inputs) = Len(ProducerOf(g, w).inputs)
              /\ \A j \in 1 .. Len(ProducerOf(g, w).inputs) :
                   \/ ProducerOf(h, w).inputs[j] = ProducerOf(g, w).inputs[j]
                   \/ ProducerOf(h, w).inputs[j] = v /\ ProducerOf(g, w).inputs[j] = r
<1>1. /\ h.values = g.values
      /\ \A k \in 1 .. Len(g.nodes) :
           /\ h.nodes[k].op = g.nodes[k].op /\ h.nodes[k].attr = g.nodes[k].attr
           /\ h.nodes[k].result = g.nodes[k].result
           /\ h.nodes[k].dead <=> (g.nodes[k].dead \/ k = n)
           /\ Len(h.nodes[k].inputs) = Len(g.nodes[k].inputs)
           /\ \A j \in 1 .. Len(g.nodes[k].inputs) :
                h.nodes[k].inputs[j] = IF ~g.nodes[k].dead /\ g.nodes[k].inputs[j] = r THEN v
                                       ELSE g.nodes[k].inputs[j]
  BY DEF Swaps, AfterSwap
<1>2. GraphOK(g) /\ LinksOK(g) /\ n \in 1 .. Len(g.nodes) /\ ~g.nodes[n].dead /\ r = g.nodes[n].result
  BY DEF Swaps, Sound
<1>3. IsResult(g, w) => g.values[w].producer \in 1 .. Len(g.nodes)
  BY <1>2, SoundTables
<1>4. IsResult(h, w) <=> IsResult(g, w)
  BY <1>1 DEF IsResult
<1>5. ASSUME IsResult(g, w)
      PROVE  /\ ProducerOf(h, w).op = ProducerOf(g, w).op /\ ProducerOf(h, w).attr = ProducerOf(g, w).attr
             /\ ProducerOf(h, w).result = ProducerOf(g, w).result
             /\ Len(ProducerOf(h, w).inputs) = Len(ProducerOf(g, w).inputs)
             /\ \A j \in 1 .. Len(ProducerOf(g, w).inputs) :
                  \/ ProducerOf(h, w).inputs[j] = ProducerOf(g, w).inputs[j]
                  \/ ProducerOf(h, w).inputs[j] = v /\ ProducerOf(g, w).inputs[j] = r
             /\ ProducerOf(h, w).dead <=> (ProducerOf(g, w).dead \/ w = r)
  <2>1. PICK p : p = g.values[w].producer
    OBVIOUS
  <2>2. p \in 1 .. Len(g.nodes) /\ ProducerOf(g, w) = g.nodes[p] /\ ProducerOf(h, w) = h.nodes[p]
    BY <1>1, <1>3, <1>5, <2>1 DEF ProducerOf
  <2>3. p = n <=> w = r
    <3>1. g.nodes[p].result = w
      BY <1>2, <1>5, <2>2 DEF LinksOK
    <3>2. g.values[r].producer = n
      BY <1>2 DEF LinksOK
    <3> QED BY <1>2, <2>1, <3>1, <3>2
  <2>4. h.nodes[p].dead <=> (g.nodes[p].dead \/ w = r)
    BY <1>1, <2>2, <2>3
  <2>5. \A j \in 1 .. Len(g.nodes[p].inputs) :
          \/ h.nodes[p].inputs[j] = g.nodes[p].inputs[j]
          \/ h.nodes[p].inputs[j] = v /\ g.nodes[p].inputs[j] = r
    BY <1>1, <2>2
  <2> QED BY <1>1, <2>2, <2>4, <2>5
<1>6. Available(h, w) <=> (Available(g, w) /\ w # r)
  <2>1. IsResult(g, r)
    BY <1>2 DEF LinksOK
  <2> QED BY <1>4, <1>5, <2>1 DEF Available
<1> QED BY <1>1, <1>3, <1>4, <1>5, <1>6 DEF IsConstant, BoundInput

\* The graph stays sound.
LEMMA SwapSound ==
  ASSUME NEW g, NEW h, NEW n, NEW r, NEW v, Swaps(g, h, n, r, v)
  PROVE  Sound(h)
<1>1. PICK m, c : m = Len(g.values) /\ c = Len(g.nodes)
  OBVIOUS
<1>2. /\ Sound(g) /\ GraphOK(g) /\ LinksOK(g) /\ RepOK(g) /\ GraphOK(h)
      /\ n \in 1 .. c /\ ~g.nodes[n].dead /\ r = g.nodes[n].result
      /\ v \in 1 .. m /\ v # r /\ v \notin DOMAIN g.rep
  BY <1>1 DEF Swaps, Sound
<1>3. /\ h.values = g.values /\ Len(h.nodes) = c /\ Len(h.outputs) = Len(g.outputs)
      /\ DOMAIN h.rep = DOMAIN g.rep \union {r}
      /\ \A k \in 1 .. c :
           /\ h.nodes[k].op = g.nodes[k].op /\ h.nodes[k].result = g.nodes[k].result
           /\ h.nodes[k].dead <=> (g.nodes[k].dead \/ k = n)
           /\ Len(h.nodes[k].inputs) = Len(g.nodes[k].inputs)
           /\ \A j \in 1 .. Len(g.nodes[k].inputs) :
                h.nodes[k].inputs[j] = IF ~g.nodes[k].dead /\ g.nodes[k].inputs[j] = r THEN v
                                       ELSE g.nodes[k].inputs[j]
      /\ \A k \in 1 .. Len(g.outputs) : h.outputs[k] = IF g.outputs[k] = r THEN v ELSE g.outputs[k]
  BY <1>1 DEF Swaps, AfterSwap
<1>4. LinksOK(h)
  <2>1. ASSUME NEW w \in 1 .. m
        PROVE  /\ h.values[w].kind \in {"placeholder", "constant", "result"}
               /\ IsConstant(h, w) => h.values[w].payload \in Residues
               /\ IsResult(h, w) => ProducerOf(h, w).result = w
    <3>1. /\ IsResult(h, w) <=> IsResult(g, w)
          /\ IsConstant(h, w) <=> IsConstant(g, w)
          /\ IsResult(g, w) => ProducerOf(h, w).result = ProducerOf(g, w).result
      BY <1>1, <2>1, SwapTerms
    <3> QED BY <1>1, <1>2, <1>3, <3>1 DEF LinksOK
  <2>2. ASSUME NEW k \in 1 .. c
        PROVE  /\ h.nodes[k].op \in Computed
               /\ IsResult(h, h.nodes[k].result)
               /\ ~h.nodes[k].dead => h.values[h.nodes[k].result].producer = k
    <3>1. /\ g.nodes[k].op \in Computed /\ IsResult(g, g.nodes[k].result)
          /\ ~g.nodes[k].dead => g.values[g.nodes[k].result].producer = k
      BY <1>1, <1>2 DEF LinksOK
    <3>2. /\ h.values = g.values /\ h.nodes[k].op = g.nodes[k].op
          /\ h.nodes[k].result = g.nodes[k].result /\ (g.nodes[k].dead => h.nodes[k].dead)
      BY <1>3
    <3> QED BY <3>1, <3>2 DEF IsResult
  <2> QED BY <1>1, <1>3, <2>1, <2>2 DEF LinksOK
<1>5. RepOK(h)
  <2>1. r \in 1 .. m
    BY <1>1, <1>2, LiveResult
  <2>2. ASSUME NEW w \in DOMAIN h.rep PROVE w \in 1 .. m /\ ~Available(h, w)
    <3>1. w = r \/ (w \in 1 .. m /\ ~Available(g, w))
      BY <1>1, <1>2, <1>3, <2>2 DEF RepOK
    <3>2. w \in 1 .. m
      BY <2>1, <3>1
    <3>3. Available(h, w) <=> (Available(g, w) /\ w # r)
      BY <1>1, <3>2, SwapTerms
    <3> QED BY <3>1, <3>2, <3>3
  <2>3. ASSUME NEW k \in 1 .. c, ~h.nodes[k].dead, NEW j \in 1 .. Len(h.nodes[k].inputs)
        PROVE  h.nodes[k].inputs[j] \notin DOMAIN h.rep
    <3>1. ~g.nodes[k].dead /\ j \in 1 .. Len(g.nodes[k].inputs)
      BY <1>3, <2>3
    <3>2. g.nodes[k].inputs[j] \notin DOMAIN g.rep
      BY <1>1, <1>2, <3>1 DEF RepOK
    <3>3. h.nodes[k].inputs[j] = IF g.nodes[k].inputs[j] = r THEN v ELSE g.nodes[k].inputs[j]
      BY <1>3, <3>1
    <3> QED BY <1>2, <1>3, <3>2, <3>3, SMTT(30)
  <2>4. ASSUME NEW k \in 1 .. Len(h.outputs) PROVE h.outputs[k] \notin DOMAIN h.rep
    <3>1. g.outputs[k] \notin DOMAIN g.rep
      BY <1>2, <1>3, <2>4 DEF RepOK
    <3> QED BY <1>2, <1>3, <2>4, <3>1, SMTT(30)
  <2> QED BY <1>1, <1>3, <2>2, <2>3, <2>4 DEF RepOK
<1> QED BY <1>2, <1>4, <1>5 DEF Sound

\* A rank in which v is no higher than r ranks the graph still.
LEMMA SwapRanks ==
  ASSUME NEW g, NEW h, NEW n, NEW r, NEW v, Swaps(g, h, n, r, v), NEW b \in Nat, NEW rank,
         Ranks(g, b, rank), rank[v] <= rank[r]
  PROVE  Ranks(h, b, rank)
<1>1. h.values = g.values /\ GraphOK(g)
  BY DEF Swaps, AfterSwap, Sound
<1>2. ASSUME NEW w \in 1 .. Len(g.values), IsResult(h, w), NEW k \in 1 .. Len(ProducerOf(h, w).inputs)
      PROVE  rank[ProducerOf(h, w).inputs[k]] < rank[w]
  <2>1. /\ IsResult(g, w) /\ k \in 1 .. Len(ProducerOf(g, w).inputs)
        /\ \/ ProducerOf(h, w).inputs[k] = ProducerOf(g, w).inputs[k]
           \/ ProducerOf(h, w).inputs[k] = v /\ ProducerOf(g, w).inputs[k] = r
    BY <1>2, SwapTerms
  <2>2. rank[ProducerOf(g, w).inputs[k]] < rank[w]
    BY <2>1 DEF Ranks
  <2>3. CASE ProducerOf(h, w).inputs[k] = ProducerOf(g, w).inputs[k]
    BY <2>2, <2>3
  <2>4. CASE ProducerOf(h, w).inputs[k] = v /\ ProducerOf(g, w).inputs[k] = r
    <3>1. r \in 1 .. Len(g.values) /\ v \in 1 .. Len(g.values)
      BY LiveResult DEF Swaps
    <3>2. rank[v] \in 0 .. b /\ rank[r] \in 0 .. b /\ rank[w] \in 0 .. b
      BY <3>1 DEF Ranks
    <3>3. PICK i, j, l : i = rank[v] /\ j = rank[r] /\ l = rank[w]
      OBVIOUS
    <3>4. i \in Int /\ j \in Int /\ l \in Int /\ i <= j /\ j < l
      BY <2>2, <2>4, <3>2, <3>3
    <3> QED BY <2>4, <3>3, <3>4
  <2> QED BY <2>1, <2>3, <2>4
<1> QED BY <1>1, <1>2 DEF Ranks

\* A denotation in which v is r is one still.
LEMMA SwapDenotes ==
  ASSUME NEW g, NEW h, NEW n, NEW r, NEW v, Swaps(g, h, n, r, v), NEW x, NEW den,
         Denotes(g, x, den), den[v] = den[r]
  PROVE  /\ Denotes(h, x, den)
         /\ \A k \in 1 .. Len(g.outputs) : den[h.outputs[k]] = den[g.outputs[k]]
<1>1. h.values = g.values /\ GraphOK(g)
  BY DEF Swaps, AfterSwap, Sound
<1>2. ASSUME NEW w \in 1 .. Len(g.values)
      PROVE  /\ IsConstant(h, w) => den[w] = h.values[w].payload
             /\ h.values[w].kind = "placeholder" => den[w] = BoundInput(h, x, w)
             /\ IsResult(h, w) => den[w] = NodeValue(ProducerOf(h, w), den)
  <2>1. /\ IsConstant(g, w) => den[w] = g.values[w].payload
        /\ g.values[w].kind = "placeholder" => den[w] = BoundInput(g, x, w)
        /\ IsResult(g, w) => den[w] = NodeValue(ProducerOf(g, w), den)
    BY DEF Denotes
  <2>2. /\ IsResult(h, w) <=> IsResult(g, w)
        /\ IsConstant(h, w) <=> IsConstant(g, w)
        /\ BoundInput(h, x, w) = BoundInput(g, x, w)
    BY SwapTerms
  <2>3. ASSUME IsResult(g, w) PROVE NodeValue(ProducerOf(h, w), den) = NodeValue(ProducerOf(g, w), den)
    <3>1. /\ ProducerOf(h, w).op = ProducerOf(g, w).op
          /\ Len(ProducerOf(h, w).inputs) = Len(ProducerOf(g, w).inputs)
          /\ \A j \in 1 .. Len(ProducerOf(g, w).inputs) :
               \/ ProducerOf(h, w).inputs[j] = ProducerOf(g, w).inputs[j]
               \/ ProducerOf(h, w).inputs[j] = v /\ ProducerOf(g, w).inputs[j] = r
      BY <2>3, SwapTerms
    <3>2. \A j \in 1 .. Len(ProducerOf(g, w).inputs) :
            den[ProducerOf(h, w).inputs[j]] = den[ProducerOf(g, w).inputs[j]]
      BY <3>1
    <3>3. Len(ProducerOf(g, w).inputs) \in {1, 2}
      BY <1>1, <2>3, ProducerInputs
    <3>4. PICK i, j, l : i = ProducerOf(h, w).inputs /\ j = ProducerOf(g, w).inputs /\ l = Len(j)
      OBVIOUS
    <3>5. den[i[1]] = den[j[1]] /\ (l > 1 => den[i[2]] = den[j[2]])
      BY <3>2, <3>3, <3>4
    <3> QED BY <3>1, <3>4, <3>5 DEF NodeValue
  <2> QED BY <1>1, <2>1, <2>2, <2>3
<1>3. \A k \in 1 .. Len(g.outputs) : den[h.outputs[k]] = den[g.outputs[k]]
  BY DEF Swaps, AfterSwap
<1> QED BY <1>1, <1>2, <1>3 DEF Denotes

\* If v is available, live nodes and outputs stay over live nodes.
LEMMA SwapLiveBelow ==
  ASSUME NEW g, NEW h, NEW n, NEW r, NEW v, Swaps(g, h, n, r, v), LiveBelow(g), Available(g, v)
  PROVE  LiveBelow(h)
<1>1. PICK m, c : m = Len(g.values) /\ c = Len(g.nodes)
  OBVIOUS
<1>2. /\ Len(h.nodes) = c /\ Len(h.outputs) = Len(g.outputs)
      /\ \A k \in 1 .. c :
           /\ h.nodes[k].dead <=> (g.nodes[k].dead \/ k = n)
           /\ Len(h.nodes[k].inputs) = Len(g.nodes[k].inputs)
           /\ \A j \in 1 .. Len(g.nodes[k].inputs) :
                h.nodes[k].inputs[j] = IF ~g.nodes[k].dead /\ g.nodes[k].inputs[j] = r THEN v
                                       ELSE g.nodes[k].inputs[j]
      /\ \A k \in 1 .. Len(g.outputs) : h.outputs[k] = IF g.outputs[k] = r THEN v ELSE g.outputs[k]
  BY <1>1 DEF Swaps, AfterSwap
<1>3. Sound(g) /\ GraphOK(g) /\ v \in 1 .. m /\ v # r
  BY <1>1 DEF Swaps, Sound
<1>4. ASSUME NEW w \in 1 .. m, Available(g, w), w # r PROVE Available(h, w)
  BY <1>1, <1>4, SwapTerms
<1>5. Available(h, v)
  BY <1>3, <1>4
<1>6. ASSUME NEW k \in 1 .. c, ~h.nodes[k].dead, NEW j \in 1 .. Len(h.nodes[k].inputs)
      PROVE  Available(h, h.nodes[k].inputs[j])
  <2>1. ~g.nodes[k].dead /\ j \in 1 .. Len(g.nodes[k].inputs)
    BY <1>2, <1>6
  <2>2. g.nodes[k].inputs[j] \in 1 .. m /\ Available(g, g.nodes[k].inputs[j])
    BY <1>1, <1>3, <2>1, LiveOperand
  <2>3. h.nodes[k].inputs[j] = IF g.nodes[k].inputs[j] = r THEN v ELSE g.nodes[k].inputs[j]
    BY <1>2, <2>1
  <2> QED BY <1>4, <1>5, <2>2, <2>3
<1>7. ASSUME NEW k \in 1 .. Len(h.outputs) PROVE Available(h, h.outputs[k])
  <2>1. g.outputs[k] \in 1 .. m /\ Available(g, g.outputs[k])
    BY <1>1, <1>2, <1>3, <1>7 DEF LiveBelow, GraphOK, OutputsOK
  <2>2. h.outputs[k] = IF g.outputs[k] = r THEN v ELSE g.outputs[k]
    BY <1>2, <1>7
  <2> QED BY <1>4, <1>5, <2>1, <2>2
<1> QED BY <1>2, <1>6, <1>7 DEF LiveBelow

-----------------------------------------------------------------------------
(***************************************************************************)
(* What the outputs and the effect chain reach.                            *)
(***************************************************************************)

OperandsOf(g, S) ==
  UNION {ToSet(g.nodes[g.values[v].producer].inputs) : v \in {w \in S : g.values[w].kind = "result"}}

\* A set of values with the operands of its results.
Closed(g, S) ==
  /\ S \subseteq 1 .. Len(g.values)
  /\ \A v \in S : IsResult(g, v) => OperandsIn(g, v, S)

\* The operands of a set of values, and when the set is closed under them.
LEMMA OperandsOfIs ==
  ASSUME NEW g, GraphOK(g), NEW S, S \subseteq 1 .. Len(g.values)
  PROVE  /\ OperandsOf(g, S) \subseteq 1 .. Len(g.values)
         /\ \A v \in S : IsResult(g, v) => OperandsIn(g, v, OperandsOf(g, S))
         /\ Closed(g, S) => OperandsOf(g, S) \subseteq S
         /\ OperandsOf(g, S) \subseteq S => Closed(g, S)
<1>1. ASSUME NEW v \in S, IsResult(g, v)
      PROVE  /\ \A a : a \in ToSet(ProducerOf(g, v).inputs) <=>
                  \E k \in 1 .. Len(ProducerOf(g, v).inputs) : ProducerOf(g, v).inputs[k] = a
             /\ \A k \in 1 .. Len(ProducerOf(g, v).inputs) : ProducerOf(g, v).inputs[k] \in 1 .. Len(g.values)
  <2>1. v \in 1 .. Len(g.values)
    OBVIOUS
  <2>2. PICK s : s = ProducerOf(g, v).inputs
    OBVIOUS
  <2>3. IsSequence(s)
    BY <1>1, <2>1, <2>2, SoundTables
  <2>4. \A a : a \in ToSet(s) <=> Holds(s, a)
    BY <2>3, HoldsIsMember
  <2> QED BY <1>1, <2>1, <2>2, <2>4, ProducerInputs DEF Holds
<1>2. \A a : a \in OperandsOf(g, S) <=>
        \E v \in S : IsResult(g, v) /\ a \in ToSet(ProducerOf(g, v).inputs)
  BY DEF OperandsOf, IsResult, ProducerOf
<1>3. OperandsOf(g, S) \subseteq 1 .. Len(g.values)
  BY <1>1, <1>2, SMTT(30)
<1>4. \A v \in S : IsResult(g, v) => OperandsIn(g, v, OperandsOf(g, S))
  BY <1>1, <1>2 DEF OperandsIn
<1>5. ASSUME Closed(g, S) PROVE OperandsOf(g, S) \subseteq S
  <2>1. ASSUME NEW a \in OperandsOf(g, S) PROVE a \in S
    <3>1. PICK v \in S : IsResult(g, v) /\ a \in ToSet(ProducerOf(g, v).inputs)
      BY <1>2, <2>1
    <3>2. PICK k \in 1 .. Len(ProducerOf(g, v).inputs) : ProducerOf(g, v).inputs[k] = a
      BY <1>1, <3>1
    <3> QED BY <1>5, <3>1, <3>2 DEF Closed, OperandsIn
  <2> QED BY <2>1
<1>6. ASSUME OperandsOf(g, S) \subseteq S PROVE Closed(g, S)
  BY <1>4, <1>6 DEF Closed, OperandsIn
<1> QED BY <1>3, <1>4, <1>5, <1>6

\* One step of the search is as far as it gets, or finds one value more.
ReachDef(g, m, f, k) == IF k = 0 THEN ReachedRoots(g) ELSE f[k - 1] \union OperandsOf(g, f[k - 1])

ReachIs(g, m, f, k) ==
  /\ f[k] \subseteq 1 .. m /\ ReachedRoots(g) \subseteq f[k]
  /\ Closed(g, f[k]) \/ Cardinality(f[k]) >= k
  /\ \A S : Closed(g, S) /\ ReachedRoots(g) \subseteq S => f[k] \subseteq S

ReachRecursion == INSTANCE InductionRules WITH Def <- ReachDef, P <- ReachIs, Step <- NoStep, Inv <- NoInv

\* The outputs and the live effects are values of the graph.
LEMMA RootsExist ==
  ASSUME NEW g, GraphOK(g)
  PROVE  /\ ReachedRoots(g) \subseteq 1 .. Len(g.values)
         /\ \A v : v \in ReachedRoots(g) <=>
              \/ \E k \in 1 .. Len(g.outputs) : g.outputs[k] = v
              \/ \E n \in 1 .. Len(g.nodes) :
                   ~g.nodes[n].dead /\ Effectful(g.nodes[n].op) /\ g.nodes[n].result = v
<1>1. IsSequence(g.outputs) /\ IsSequence(g.chain) /\ DOMAIN g.chain = 1 .. Len(g.chain)
  BY TableDomains DEF GraphOK, TablesOK
<1>2. \A v : v \in ToSet(g.outputs) <=> Holds(g.outputs, v)
  BY <1>1, HoldsIsMember
<1>3. \A n : (\E k \in 1 .. Len(g.chain) : g.chain[k] = n) <=>
               n \in 1 .. Len(g.nodes) /\ ~g.nodes[n].dead /\ Effectful(g.nodes[n].op)
  BY DEF GraphOK, ChainOK, Holds, IsEffect
<1>4. \A v : v \in ReachedRoots(g) <=>
        \/ \E k \in 1 .. Len(g.outputs) : g.outputs[k] = v
        \/ \E n \in 1 .. Len(g.nodes) :
             ~g.nodes[n].dead /\ Effectful(g.nodes[n].op) /\ g.nodes[n].result = v
  BY <1>1, <1>2, <1>3 DEF ReachedRoots, Holds
<1>5. ReachedRoots(g) \subseteq 1 .. Len(g.values)
  <2>1. \A k \in 1 .. Len(g.outputs) : g.outputs[k] \in 1 .. Len(g.values)
    BY DEF GraphOK, OutputsOK
  <2>2. \A n \in 1 .. Len(g.nodes) : g.nodes[n].result \in 1 .. Len(g.values)
    BY SoundTables
  <2> QED BY <1>4, <2>1, <2>2
<1> QED BY <1>4, <1>5

\* Reached is the least closed set over the roots.
LEMMA ReachedIs ==
  ASSUME NEW g, GraphOK(g)
  PROVE  /\ ReachedRoots(g) \subseteq Reached(g) /\ Closed(g, Reached(g))
         /\ \A S : Closed(g, S) /\ ReachedRoots(g) \subseteq S => Reached(g) \subseteq S
<1>1. PICK m : m = Len(g.values)
  OBVIOUS
<1> DEFINE reach == CHOOSE f : f = [k \in 0 .. m |-> ReachDef(g, m, f, k)]
<1>2. Reached(g) = reach[m]
  BY <1>1, Zenon DEF Reached, ReachDef, OperandsOf
<1>3. reach = CHOOSE f : f = [k \in 0 .. m |-> ReachDef(g, m, f, k)]
  OBVIOUS
<1>4. m \in Nat /\ m \in Int /\ 0 \in Int
  BY <1>1, SoundTables
<1> HIDE DEF reach
<1>5. reach = [k \in 0 .. m |-> ReachDef(g, m, reach, k)]
  <2>1. ReachRecursion!LookBack(g, m, 0, m)
    <3> SUFFICES ASSUME NEW k \in 0 .. m, NEW r, NEW t, \A j \in 0 .. k - 1 : r[j] = t[j]
                 PROVE  ReachDef(g, m, r, k) = ReachDef(g, m, t, k)
      BY DEF ReachRecursion!LookBack
    <3>1. k # 0 => r[k - 1] = t[k - 1]
      BY <1>4
    <3> QED BY <3>1 DEF ReachDef
  <2> QED BY <1>3, <1>4, <2>1, ReachRecursion!RecursionEquation
<1>6. ReachedRoots(g) \subseteq 1 .. m
  BY <1>1, RootsExist
<1>7. \A S : S \subseteq 1 .. m => IsFiniteSet(S) /\ Cardinality(S) \in Nat
  <2>1. IsFiniteSet(1 .. m)
    BY <1>4, RangeCounts
  <2>2. ASSUME NEW S, S \subseteq 1 .. m PROVE IsFiniteSet(S) /\ Cardinality(S) \in Nat
    BY <2>1, <2>2, FS_Subset, FS_CardinalityType
  <2> QED BY <2>2
<1>8. ASSUME NEW k \in 0 .. m, \A j \in 0 .. k - 1 : ReachIs(g, m, reach, j)
      PROVE  ReachIs(g, m, reach, k)
  <2>1. reach[k] = ReachDef(g, m, reach, k)
    BY <1>5
  <2>2. CASE k = 0
    <3>1. reach[k] = ReachedRoots(g)
      BY <2>1, <2>2 DEF ReachDef
    <3>2. Cardinality(reach[k]) >= k
      BY <1>6, <1>7, <2>2, <3>1
    <3> QED BY <1>6, <3>1, <3>2 DEF ReachIs
  <2>3. CASE k # 0
    <3>1. PICK s, t : s = reach[k - 1] /\ t = OperandsOf(g, s)
      OBVIOUS
    <3>2. reach[k] = s \union t
      BY <2>1, <2>3, <3>1 DEF ReachDef
    <3>3. /\ s \subseteq 1 .. m /\ ReachedRoots(g) \subseteq s
          /\ Closed(g, s) \/ Cardinality(s) >= k - 1
          /\ \A S : Closed(g, S) /\ ReachedRoots(g) \subseteq S => s \subseteq S
      BY <1>4, <1>8, <2>3, <3>1 DEF ReachIs
    <3>4. t \subseteq 1 .. m /\ (Closed(g, s) => t \subseteq s) /\ (t \subseteq s => Closed(g, s))
      BY <1>1, <3>1, <3>3, OperandsOfIs
    <3>5. reach[k] \subseteq 1 .. m /\ ReachedRoots(g) \subseteq reach[k]
      BY <3>2, <3>3, <3>4
    <3>6. Closed(g, reach[k]) \/ Cardinality(reach[k]) >= k
      <4>1. CASE Closed(g, s)
        <5>1. reach[k] = s
          BY <3>2, <3>4, <4>1
        <5> QED BY <4>1, <5>1
      <4>2. CASE ~Closed(g, s)
        <5>1. s # reach[k] /\ s \subseteq reach[k]
          BY <3>2, <3>4, <4>2
        <5>2. IsFiniteSet(reach[k]) /\ Cardinality(reach[k]) \in Nat /\ Cardinality(s) \in Nat
          BY <1>7, <3>3, <3>5
        <5>3. Cardinality(s) < Cardinality(reach[k])
          BY <5>1, <5>2, FS_Subset
        <5> QED BY <1>4, <3>3, <4>2, <5>2, <5>3
      <4> QED BY <4>1, <4>2
    <3>7. ASSUME NEW S, Closed(g, S), ReachedRoots(g) \subseteq S PROVE reach[k] \subseteq S
      <4>1. s \subseteq S
        BY <3>3, <3>7
      <4>2. \A v \in s : IsResult(g, v) => OperandsIn(g, v, S)
        BY <3>7, <4>1 DEF Closed
      <4>3. t \subseteq OperandsOf(g, S) /\ OperandsOf(g, S) \subseteq S
        <5>1. S \subseteq 1 .. Len(g.values)
          BY <3>7 DEF Closed
        <5>2. OperandsOf(g, S) \subseteq S
          BY <3>7, <5>1, OperandsOfIs
        <5>3. t \subseteq OperandsOf(g, S)
          BY <3>1, <4>1 DEF OperandsOf
        <5> QED BY <5>2, <5>3
      <4> QED BY <3>2, <4>1, <4>3
    <3> QED BY <3>5, <3>6, <3>7 DEF ReachIs
  <2> QED BY <2>2, <2>3
<1>9. \A k \in 0 .. m : ReachIs(g, m, reach, k)
  BY <1>4, <1>8, ReachRecursion!RecursionInduction
<1>10. ReachIs(g, m, reach, m)
  BY <1>4, <1>9
<1>11. Closed(g, reach[m])
  <2>1. CASE Closed(g, reach[m])
    BY <2>1
  <2>2. CASE Cardinality(reach[m]) >= m
    <3>1. reach[m] \subseteq 1 .. m
      BY <1>10 DEF ReachIs
    <3>2. IsFiniteSet(1 .. m) /\ Cardinality(1 .. m) = m
      BY <1>4, RangeCounts
    <3>3. reach[m] = 1 .. m
      <4>1. ASSUME reach[m] # 1 .. m PROVE FALSE
        <5>1. Cardinality(reach[m]) < Cardinality(1 .. m)
          <6>1. PICK s, t : s = reach[m] /\ t = 1 .. m
            OBVIOUS
          <6>2. s \subseteq t /\ s # t /\ IsFiniteSet(t)
            BY <3>1, <3>2, <4>1, <6>1
          <6>3. IsFiniteSet(s) /\ Cardinality(s) <= Cardinality(t) /\ Cardinality(s) # Cardinality(t)
            BY <6>2, FS_Subset
          <6>4. Cardinality(s) \in Nat /\ Cardinality(t) \in Nat
            BY <6>2, <6>3, FS_CardinalityType
          <6> QED BY <6>1, <6>3, <6>4
        <5> QED BY <1>4, <1>7, <2>2, <3>1, <3>2, <5>1
      <4> QED BY <4>1
    <3>4. OperandsOf(g, reach[m]) \subseteq 1 .. m
      BY <1>1, <3>1, OperandsOfIs
    <3> QED BY <1>1, <3>1, <3>3, <3>4, OperandsOfIs
  <2> QED BY <1>10, <2>1, <2>2 DEF ReachIs
<1> QED BY <1>2, <1>10, <1>11 DEF ReachIs

\* Nothing dead is reached.
Covered(g) == \A v \in Reached(g) : Available(g, v)

\* To reach no dead producer is to read no dead node.
LEMMA CoveredReadsNothingDead ==
  ASSUME NEW g
  PROVE  ReadsDeadNode(g) <=> ~Covered(g)
BY DEF ReadsDeadNode, Covered, Available, LiveProducer, IsResult, ProducerOf

\* Where live nodes are over live nodes, nothing dead is reached.
LEMMA LiveBelowCovers ==
  ASSUME NEW g, Sound(g), LiveBelow(g)
  PROVE  Covered(g)
<1>1. PICK m : m = Len(g.values)
  OBVIOUS
<1>2. GraphOK(g) /\ LinksOK(g)
  BY DEF Sound
<1> DEFINE S == {v \in 1 .. m : Available(g, v)}
<1>3. Closed(g, S)
  <2>1. ASSUME NEW v \in S, IsResult(g, v) PROVE OperandsIn(g, v, S)
    <3>1. PICK p : p = g.values[v].producer
      OBVIOUS
    <3>2. p \in 1 .. Len(g.nodes)
      BY <1>1, <1>2, <2>1, <3>1, SoundTables
    <3>3. ~g.nodes[p].dead /\ ProducerOf(g, v) = g.nodes[p]
      BY <2>1, <3>1 DEF Available, ProducerOf
    <3>4. \A k \in 1 .. Len(g.nodes[p].inputs) : g.nodes[p].inputs[k] \in 1 .. m /\ Available(g, g.nodes[p].inputs[k])
      BY <1>1, <3>2, <3>3, LiveOperand
    <3> QED BY <3>3, <3>4 DEF OperandsIn
  <2> QED BY <1>1, <2>1 DEF Closed
<1>4. ReachedRoots(g) \subseteq S
  <2>1. ASSUME NEW v \in ReachedRoots(g) PROVE v \in S
    <3>1. v \in 1 .. m
      BY <1>1, <1>2, RootsExist
    <3>2. \/ \E k \in 1 .. Len(g.outputs) : g.outputs[k] = v
          \/ \E n \in 1 .. Len(g.nodes) :
               ~g.nodes[n].dead /\ Effectful(g.nodes[n].op) /\ g.nodes[n].result = v
      BY <1>2, <2>1, RootsExist
    <3>3. CASE \E k \in 1 .. Len(g.outputs) : g.outputs[k] = v
      BY <3>1, <3>3 DEF LiveBelow
    <3>4. CASE \E n \in 1 .. Len(g.nodes) : ~g.nodes[n].dead /\ Effectful(g.nodes[n].op) /\ g.nodes[n].result = v
      <4>1. PICK n \in 1 .. Len(g.nodes) : ~g.nodes[n].dead /\ g.nodes[n].result = v
        BY <3>4
      <4>2. ProducerOf(g, v) = g.nodes[n]
        BY <4>1, LiveResult
      <4> QED BY <3>1, <4>1, <4>2 DEF Available
    <3> QED BY <3>2, <3>3, <3>4
  <2> QED BY <2>1
<1>5. Reached(g) \subseteq S
  <2> HIDE DEF S
  <2> QED BY <1>2, <1>3, <1>4, ReachedIs
<1> QED BY <1>5 DEF Covered

\* A live node whose result is reached is over live nodes.
LEMMA CoveredLives ==
  ASSUME NEW g, Sound(g), Covered(g),
         \A n \in 1 .. Len(g.nodes) : ~g.nodes[n].dead /\ Pure(g, n) => g.nodes[n].result \in Reached(g)
  PROVE  LiveBelow(g)
<1>1. GraphOK(g) /\ ReachedRoots(g) \subseteq Reached(g) /\ Closed(g, Reached(g))
  BY ReachedIs DEF Sound
<1>2. ASSUME NEW n \in 1 .. Len(g.nodes), ~g.nodes[n].dead, NEW k \in 1 .. Len(g.nodes[n].inputs)
      PROVE  Available(g, g.nodes[n].inputs[k])
  <2>1. g.nodes[n].result \in Reached(g)
    <3>1. CASE Pure(g, n)
      BY <1>2, <3>1
    <3>2. CASE ~Pure(g, n)
      BY <1>1, <1>2, <3>2, RootsExist DEF Pure
    <3> QED BY <3>1, <3>2
  <2>2. IsResult(g, g.nodes[n].result) /\ ProducerOf(g, g.nodes[n].result) = g.nodes[n]
    BY <1>2, LiveResult
  <2>3. OperandsIn(g, g.nodes[n].result, Reached(g))
    BY <1>1, <2>1, <2>2 DEF Closed
  <2>4. g.nodes[n].inputs[k] \in Reached(g)
    BY <1>2, <2>2, <2>3 DEF OperandsIn
  <2> QED BY <2>4 DEF Covered
<1>3. ASSUME NEW k \in 1 .. Len(g.outputs) PROVE Available(g, g.outputs[k])
  BY <1>1, <1>3, RootsExist DEF Covered
<1> QED BY <1>2, <1>3 DEF LiveBelow

\* killNode in a sound graph.
Kills(g, h, n) ==
  /\ Sound(g) /\ GraphOK(h) /\ n \in 1 .. Len(g.nodes) /\ ~g.nodes[n].dead /\ Pure(g, n)
  /\ h.values = g.values /\ h.chain = g.chain /\ h.outputs = g.outputs /\ h.rep = g.rep
  /\ Len(h.nodes) = Len(g.nodes)
  /\ \A k \in 1 .. Len(g.nodes) :
       /\ h.nodes[k].op = g.nodes[k].op /\ h.nodes[k].attr = g.nodes[k].attr
       /\ h.nodes[k].result = g.nodes[k].result /\ h.nodes[k].inputs = g.nodes[k].inputs
       /\ h.nodes[k].dead <=> (g.nodes[k].dead \/ k = n)

\* The tables after killNode of a live pure node.
LEMMA KilledIs ==
  ASSUME NEW g, Sound(g), NEW n \in 1 .. Len(g.nodes), ~g.nodes[n].dead, Pure(g, n),
         NEW h, h = KillNode(g, n)
  PROVE  Kills(g, h, n)
<1>1. GraphOK(g) /\ ~Effectful(g.nodes[n].op)
  BY DEF Sound, Pure
<1>2. GraphOK(h)
  BY <1>1, NodeKilled
<1>3. /\ h.values = g.values /\ h.chain = g.chain /\ h.outputs = g.outputs /\ h.rep = g.rep
      /\ Len(h.nodes) = Len(g.nodes)
      /\ \A k \in 1 .. Len(g.nodes) :
           /\ h.nodes[k].op = g.nodes[k].op /\ h.nodes[k].attr = g.nodes[k].attr
           /\ h.nodes[k].result = g.nodes[k].result /\ h.nodes[k].inputs = g.nodes[k].inputs
           /\ h.nodes[k].dead <=> (g.nodes[k].dead \/ k = n)
  BY <1>1, KilledFields
<1> QED BY <1>2, <1>3 DEF Kills

\* A kill leaves every term as it was; only the node's result has lost its producer.
LEMMA KillTerms ==
  ASSUME NEW g, NEW h, NEW n, Kills(g, h, n), NEW w \in 1 .. Len(g.values)
  PROVE  /\ IsResult(h, w) <=> IsResult(g, w)
         /\ IsConstant(h, w) <=> IsConstant(g, w)
         /\ \A x : BoundInput(h, x, w) = BoundInput(g, x, w)
         /\ IsResult(g, w) =>
              /\ ProducerOf(h, w).op = ProducerOf(g, w).op /\ ProducerOf(h, w).attr = ProducerOf(g, w).attr
              /\ ProducerOf(h, w).result = ProducerOf(g, w).result
              /\ ProducerOf(h, w).inputs = ProducerOf(g, w).inputs
         /\ Available(h, w) <=> (Available(g, w) /\ w # g.nodes[n].result)
<1>1. GraphOK(g) /\ LinksOK(g) /\ h.values = g.values /\ n \in 1 .. Len(g.nodes) /\ ~g.nodes[n].dead
  BY DEF Kills, Sound
<1>2. ASSUME IsResult(g, w)
      PROVE  /\ ProducerOf(h, w).op = ProducerOf(g, w).op /\ ProducerOf(h, w).attr = ProducerOf(g, w).attr
             /\ ProducerOf(h, w).result = ProducerOf(g, w).result
             /\ ProducerOf(h, w).inputs = ProducerOf(g, w).inputs
             /\ ProducerOf(h, w).dead <=> (ProducerOf(g, w).dead \/ w = g.nodes[n].result)
  <2>1. PICK p : p = g.values[w].producer
    BY SMTT(30)
  <2>2. p \in 1 .. Len(g.nodes) /\ ProducerOf(g, w) = g.nodes[p] /\ ProducerOf(h, w) = h.nodes[p]
    BY <1>1, <1>2, <2>1, SoundTables DEF ProducerOf
  <2>3. g.nodes[p].result = w /\ g.values[g.nodes[n].result].producer = n
    BY <1>1, <1>2, <2>2 DEF LinksOK
  <2>4. p = n <=> w = g.nodes[n].result
    BY <2>1, <2>3
  <2>5. /\ h.nodes[p].op = g.nodes[p].op /\ h.nodes[p].attr = g.nodes[p].attr
        /\ h.nodes[p].result = g.nodes[p].result /\ h.nodes[p].inputs = g.nodes[p].inputs
        /\ h.nodes[p].dead <=> (g.nodes[p].dead \/ p = n)
    BY <2>2 DEF Kills
  <2> QED BY <2>2, <2>4, <2>5
<1>3. IsResult(g, g.nodes[n].result)
  BY <1>1 DEF LinksOK
<1> QED BY <1>1, <1>2, <1>3 DEF IsResult, IsConstant, BoundInput, Available

\* A kill leaves a sound graph.
LEMMA KillSound ==
  ASSUME NEW g, NEW h, NEW n, Kills(g, h, n)
  PROVE  Sound(h)
<1>1. PICK m, c : m = Len(g.values) /\ c = Len(g.nodes)
  OBVIOUS
<1>2. GraphOK(g) /\ LinksOK(g) /\ RepOK(g) /\ GraphOK(h)
  BY DEF Kills, Sound
<1>3. /\ h.values = g.values /\ h.outputs = g.outputs /\ h.rep = g.rep /\ Len(h.nodes) = c
      /\ \A k \in 1 .. c :
           /\ h.nodes[k].op = g.nodes[k].op
           /\ h.nodes[k].result = g.nodes[k].result /\ h.nodes[k].inputs = g.nodes[k].inputs
           /\ ~h.nodes[k].dead => ~g.nodes[k].dead
  BY <1>1 DEF Kills
<1>4. ASSUME NEW w \in 1 .. m
      PROVE  /\ IsResult(h, w) <=> IsResult(g, w)
             /\ IsConstant(h, w) <=> IsConstant(g, w)
             /\ IsResult(g, w) => ProducerOf(h, w).result = ProducerOf(g, w).result
             /\ Available(h, w) => Available(g, w)
  BY <1>1, <1>4, KillTerms
<1>5. LinksOK(h)
  BY <1>1, <1>2, <1>3, <1>4, SMTT(30) DEF LinksOK, IsResult
<1>6. RepOK(h)
  BY <1>1, <1>2, <1>3, <1>4 DEF RepOK
<1> QED BY <1>2, <1>5, <1>6 DEF Sound

\* So the graph denotes and ranks as before.
LEMMA KillKeepsTerms ==
  ASSUME NEW g, NEW h, NEW n, Kills(g, h, n)
  PROVE  /\ \A b, rank : Ranks(g, b, rank) => Ranks(h, b, rank)
         /\ \A x, den : Denotes(g, x, den) => Denotes(h, x, den)
         /\ NamesOnce(g) => NamesOnce(h)
<1>1. h.values = g.values
  BY DEF Kills
<1>2. ASSUME NEW w \in 1 .. Len(g.values)
      PROVE  /\ IsResult(h, w) <=> IsResult(g, w)
             /\ IsConstant(h, w) <=> IsConstant(g, w)
             /\ \A x : BoundInput(h, x, w) = BoundInput(g, x, w)
             /\ IsResult(g, w) => /\ ProducerOf(h, w).op = ProducerOf(g, w).op
                                  /\ ProducerOf(h, w).inputs = ProducerOf(g, w).inputs
  BY KillTerms
<1>3. ASSUME NEW b, NEW rank, Ranks(g, b, rank) PROVE Ranks(h, b, rank)
  BY <1>1, <1>2, <1>3 DEF Ranks
<1>4. ASSUME NEW x, NEW den, Denotes(g, x, den) PROVE Denotes(h, x, den)
  <2>1. \A w \in 1 .. Len(g.values) : IsResult(g, w) => NodeValue(ProducerOf(h, w), den) = NodeValue(ProducerOf(g, w), den)
    BY <1>2 DEF NodeValue
  <2> QED BY <1>1, <1>2, <1>4, <2>1 DEF Denotes
<1>5. NamesOnce(g) => NamesOnce(h)
  BY <1>1 DEF NamesOnce
<1> QED BY <1>3, <1>4, <1>5

\* Killing what is not reached changes nothing that is.
LEMMA KillReached ==
  ASSUME NEW g, NEW h, NEW n, Kills(g, h, n), g.nodes[n].result \notin Reached(g), Covered(g)
  PROVE  Reached(h) = Reached(g) /\ Covered(h)
<1>1. GraphOK(g) /\ GraphOK(h) /\ h.values = g.values
  BY DEF Kills, Sound
<1>2. \A S : Closed(g, S) <=> Closed(h, S)
  <2>1. \A w \in 1 .. Len(g.values) :
          /\ IsResult(h, w) <=> IsResult(g, w)
          /\ IsResult(g, w) => ProducerOf(h, w).inputs = ProducerOf(g, w).inputs
    BY KillTerms
  <2> QED BY <1>1, <2>1 DEF Closed, OperandsIn
<1>3. ReachedRoots(g) = ReachedRoots(h)
  <2>1. \A k \in 1 .. Len(g.chain) : g.chain[k] \in 1 .. Len(g.nodes)
    BY <1>1 DEF GraphOK, ChainOK, Holds, IsEffect
  <2>2. DOMAIN g.chain = 1 .. Len(g.chain)
    BY <1>1, TableDomains DEF GraphOK
  <2>3. \A k \in DOMAIN g.chain : h.nodes[g.chain[k]].result = g.nodes[g.chain[k]].result
    BY <2>1, <2>2 DEF Kills
  <2> QED BY <2>3 DEF ReachedRoots, Kills
<1>4. Reached(h) = Reached(g)
  <2>1. Reached(g) \subseteq Reached(h)
    BY <1>1, <1>2, <1>3, ReachedIs
  <2>2. Reached(h) \subseteq Reached(g)
    BY <1>1, <1>2, <1>3, ReachedIs
  <2> QED BY <2>1, <2>2
<1>5. \A v \in Reached(g) : v \in 1 .. Len(g.values)
  BY <1>1, ReachedIs DEF Closed
<1>6. Covered(h)
  <2>1. ASSUME NEW v \in Reached(g) PROVE Available(h, v)
    <3>1. v \in 1 .. Len(g.values) /\ v # g.nodes[n].result /\ Available(g, v)
      BY <1>5 DEF Covered
    <3> QED BY <3>1, KillTerms
  <2> QED BY <1>4, <2>1 DEF Covered
<1> QED BY <1>4, <1>6

-----------------------------------------------------------------------------
(***************************************************************************)
(* The interpreter computes what the outputs denote.                       *)
(***************************************************************************)

Ascending(s) == \A i, j \in 1 .. Len(s) : i < j => s[i] < s[j]

AscendingIs(d, list, k) ==
  /\ IsSequence(list) /\ Ascending(list)
  /\ \A i \in 1 .. Len(list) : list[i] \in 1 .. k

AscendingFold == INSTANCE InductionRules WITH Step <- WithinStep, Inv <- AscendingIs, Def <- NoDef, P <- NoP

\* Appending an id above the others.
LEMMA AscendingAppend ==
  ASSUME NEW list, IsSequence(list), Ascending(list), NEW k \in Nat, k > 0,
         \A i \in 1 .. Len(list) : list[i] \in 1 .. k - 1
  PROVE  AscendingIs(0, Append(list, k), k)
<1>1. PICK l, longer : l = Len(list) /\ longer = Append(list, k)
  OBVIOUS
<1>2. /\ IsSequence(longer) /\ Len(longer) = l + 1 /\ l \in Nat /\ longer[l + 1] = k
      /\ \A i \in 1 .. l : longer[i] = list[i]
  <2>1. IsSequence(list)
    OBVIOUS
  <2>2. IsSequence(longer)
    BY <1>1, <2>1, SequenceAppend
  <2>3. Len(longer) = l + 1
    BY <1>1, <2>1, SequenceAppend
  <2>4. l \in Nat
    BY <1>1, <2>1, SequenceAppend
  <2>5. longer[l + 1] = k
    BY <1>1, <2>1, SequenceAppend
  <2>6. \A i \in 1 .. l : longer[i] = list[i]
    BY <1>1, <2>1, SequenceAppend
  <2> QED BY <2>2, <2>3, <2>4, <2>5, <2>6
<1>3. ASSUME NEW i \in 1 .. l + 1, NEW j \in 1 .. l + 1, i < j PROVE longer[i] < longer[j]
  <2>1. i \in 1 .. l /\ longer[i] = list[i] /\ list[i] \in 1 .. k - 1
    BY <1>1, <1>2, <1>3
  <2>2. CASE j = l + 1
    BY <1>2, <2>1, <2>2
  <2>3. CASE j # l + 1
    <3>1. j \in 1 .. l
      BY <1>2, <2>3
    <3>2. list[i] < list[j]
      BY <1>1, <1>3, <2>1, <3>1 DEF Ascending
    <3> QED BY <1>2, <2>1, <3>1, <3>2
  <2> QED BY <2>2, <2>3
<1>4. ASSUME NEW i \in 1 .. l + 1 PROVE longer[i] \in 1 .. k
  <2>1. CASE i = l + 1
    BY <1>2, <2>1
  <2>2. CASE i # l + 1
    <3>1. i \in 1 .. l
      BY <1>2, <2>2
    <3> QED BY <1>1, <1>2, <3>1
  <2> QED BY <2>1, <2>2
<1> QED BY <1>1, <1>2, <1>3, <1>4 DEF AscendingIs, Ascending

\* Live nodes are listed by ascending id.
LEMMA TopoOrderAscends ==
  ASSUME NEW g, TablesOK(g), NEW t, t = TopoOrder(g)
  PROVE  Ascending(t)
<1>1. PICK n, ids, S : n = Len(g.nodes) /\ ids = [k \in DOMAIN g.nodes |-> k] /\ S = Live(g)
  OBVIOUS
<1>2. t = AscendingFold!Folded(S, <<>>, ids)
  BY <1>1 DEF TopoOrder, Within, FoldLeft, MapThenFoldSet, Max, WithinStep,
              AscendingFold!Folded, AscendingFold!FoldTable
<1>3. n \in Nat /\ DOMAIN g.nodes = 1 .. n
  BY <1>1, TableDomains
<1>4. DOMAIN ids = 1 .. n /\ \A k \in 1 .. n : ids[k] = k
  BY <1>1, <1>3
<1>5. AscendingIs(0, <<>>, 0)
  BY EmptyIsSequence DEF AscendingIs, Ascending
<1>6. ASSUME NEW k \in 1 .. n, NEW list, AscendingIs(0, list, k - 1)
      PROVE  AscendingIs(0, WithinStep(S, list, ids[k]), k)
  <2>1. /\ IsSequence(list) /\ Ascending(list)
        /\ \A i \in 1 .. Len(list) : list[i] \in 1 .. k - 1
    BY <1>6 DEF AscendingIs
  <2>2. k \in Nat /\ k > 0 /\ \A i \in 1 .. k - 1 : i \in 1 .. k /\ i < k
    BY <1>3
  <2>3. CASE k \notin S
    <3>1. WithinStep(S, list, ids[k]) = list
      BY <1>4, <2>3 DEF WithinStep
    <3> QED BY <2>1, <2>2, <3>1 DEF AscendingIs
  <2>4. CASE k \in S
    <3>1. AscendingIs(0, Append(list, k), k)
      BY <2>1, <2>2, AscendingAppend
    <3>2. WithinStep(S, list, ids[k]) = Append(list, k)
      BY <1>4, <2>4 DEF WithinStep
    <3> QED BY <3>1, <3>2
  <2> QED BY <2>3, <2>4
<1>7. AscendingIs(0, t, n)
  BY <1>2, <1>3, <1>4, <1>5, <1>6, AscendingFold!FoldLeftInduction
<1> QED BY <1>7 DEF AscendingIs

\* The representative of a value that nothing replaces.
RepresentDef(g, v, f, k) ==
  IF k = 0 THEN v ELSE LET w == f[k - 1] IN IF w \in DOMAIN g.rep THEN g.rep[w] ELSE w

RepresentIs(g, v, f, k) == f[k] = v

Representing == INSTANCE InductionRules WITH Def <- RepresentDef, P <- RepresentIs, Step <- NoStep, Inv <- NoInv

\* A value that was never replaced represents itself.
LEMMA RepresentsItself ==
  ASSUME NEW g, NEW v, v \notin DOMAIN g.rep
  PROVE  Representative(g, v) = v
<1>1. PICK d : d = EquivalenceDepth
  OBVIOUS
<1> DEFINE walk == CHOOSE f : f = [k \in 0 .. d |-> RepresentDef(g, v, f, k)]
<1>2. Representative(g, v) = walk[d]
  BY <1>1 DEF Representative, RepresentDef
<1>3. walk = CHOOSE f : f = [k \in 0 .. d |-> RepresentDef(g, v, f, k)]
  OBVIOUS
<1>4. d \in Nat /\ d \in Int /\ 0 \in Int
  BY <1>1, DepthAssumption
<1> HIDE DEF walk
<1>5. walk = [k \in 0 .. d |-> RepresentDef(g, v, walk, k)]
  <2>1. Representing!LookBack(g, v, 0, d)
    <3> SUFFICES ASSUME NEW k \in 0 .. d, NEW r, NEW t, \A j \in 0 .. k - 1 : r[j] = t[j]
                 PROVE  RepresentDef(g, v, r, k) = RepresentDef(g, v, t, k)
      BY DEF Representing!LookBack
    <3>1. k # 0 => r[k - 1] = t[k - 1]
      BY <1>4
    <3> QED BY <3>1 DEF RepresentDef
  <2> QED BY <1>3, <1>4, <2>1, Representing!RecursionEquation
<1>6. ASSUME NEW k \in 0 .. d, \A j \in 0 .. k - 1 : RepresentIs(g, v, walk, j)
      PROVE  RepresentIs(g, v, walk, k)
  <2>1. walk[k] = RepresentDef(g, v, walk, k)
    BY <1>5
  <2>2. k # 0 => walk[k - 1] = v
    BY <1>4, <1>6 DEF RepresentIs
  <2> QED BY <2>1, <2>2 DEF RepresentDef, RepresentIs
<1>7. \A k \in 0 .. d : RepresentIs(g, v, walk, k)
  BY <1>4, <1>6, Representing!RecursionInduction
<1>8. walk[d] = v
  BY <1>4, <1>7 DEF RepresentIs
<1> QED BY <1>2, <1>8

\* The table of values after the first k nodes.
EvalStep(g, s, n) == EvalNode(g, s, g.nodes[n])

EvalIs(d, s, k) ==
  /\ \A v \in 1 .. Len(d.graph.values) :
       ~IsResult(d.graph, v) \/ (\E j \in 1 .. k : d.graph.nodes[d.topo[j]].result = v) => v \in DOMAIN s
  /\ \A v \in Reached(d.graph) : v \in DOMAIN s => s[v] = d.den[v]

EvalFold == INSTANCE InductionRules WITH Step <- EvalStep, Inv <- EvalIs, Def <- NoDef, P <- NoP

\* The leaves before the first node.
LEMMA LeavesBound ==
  ASSUME NEW g, GraphOK(g), LinksOK(g), NEW x, NEW den, Denotes(g, x, den), NEW s, s = BoundLeaves(g, x)
  PROVE  /\ DOMAIN s = {v \in 1 .. Len(g.values) : ~IsResult(g, v)}
         /\ \A v \in DOMAIN s : s[v] = den[v]
<1>1. DOMAIN g.values = 1 .. Len(g.values)
  BY SoundTables
<1>2. s = [v \in {w \in 1 .. Len(g.values) : ~IsResult(g, w)} |->
            IF g.values[v].kind = "constant" THEN g.values[v].payload ELSE BoundInput(g, x, v)]
  BY <1>1 DEF BoundLeaves, BoundInput, IsResult
<1>3. ASSUME NEW v \in 1 .. Len(g.values), ~IsResult(g, v) PROVE s[v] = den[v]
  <2>1. g.values[v].kind = "constant" \/ g.values[v].kind = "placeholder"
    BY <1>3 DEF LinksOK, IsResult
  <2>2. /\ g.values[v].kind = "constant" => den[v] = g.values[v].payload
        /\ g.values[v].kind = "placeholder" => den[v] = BoundInput(g, x, v)
    BY DEF Denotes, IsConstant
  <2> QED BY <1>2, <1>3, <2>1, <2>2
<1> QED BY <1>2, <1>3

\* A verified graph in which nothing dead is reached is evaluated to what its
\* outputs denote.
LEMMA Evaluates ==
  ASSUME NEW g, Sound(g), VerifyGraph(g), Covered(g), NEW x, NEW den, Denotes(g, x, den)
  PROVE  InterpretGraph(g, x) = [k \in 1 .. Len(g.outputs) |-> den[g.outputs[k]]]
<1>1. PICK m, topo, start, n : /\ m = Len(g.values) /\ topo = TopoOrder(g) /\ start = BoundLeaves(g, x)
                               /\ n = Len(topo)
  OBVIOUS
<1>2. GraphOK(g) /\ LinksOK(g) /\ RepOK(g) /\ TablesOK(g)
  BY DEF Sound, GraphOK
<1>3. IsSequence(topo) /\ Ascending(topo) /\ DOMAIN topo = 1 .. n /\ n \in Nat
  <2>1. IsSequence(topo) /\ Ascending(topo)
    BY <1>1, <1>2, TopoOrderIs, TopoOrderAscends
  <2> QED BY <1>1, <2>1, SequenceOfItsItems DEF IsSequence
<1>4. \A p : (\E j \in 1 .. n : topo[j] = p) <=> p \in 1 .. Len(g.nodes) /\ ~g.nodes[p].dead
  BY <1>1, <1>2, TopoOrderIs DEF Holds
<1>5. Closed(g, Reached(g)) /\ ReachedRoots(g) \subseteq Reached(g)
  BY <1>2, ReachedIs
<1> DEFINE d == [graph |-> g, topo |-> topo, den |-> den]
<1>6. d.graph = g /\ d.topo = topo /\ d.den = den
  OBVIOUS
<1> HIDE DEF d
<1>7. EvalIs(d, start, 0)
  <2>1. DOMAIN start = {v \in 1 .. Len(g.values) : ~IsResult(g, v)} /\ \A v \in DOMAIN start : start[v] = den[v]
    BY <1>1, <1>2, LeavesBound
  <2> QED BY <1>6, <2>1 DEF EvalIs
<1>8. ASSUME NEW k \in 1 .. n, NEW s, EvalIs(d, s, k - 1)
      PROVE  EvalIs(d, EvalStep(g, s, topo[k]), k)
  <2>1. PICK p, node, t : p = topo[k] /\ node = g.nodes[p] /\ t = EvalStep(g, s, p)
    OBVIOUS
  <2>2. p \in 1 .. Len(g.nodes) /\ ~node.dead
    BY <1>4, <2>1
  <2>3. /\ \A v \in 1 .. m : ~IsResult(g, v) \/ (\E j \in 1 .. k - 1 : g.nodes[topo[j]].result = v) => v \in DOMAIN s
        /\ \A v \in Reached(g) : v \in DOMAIN s => s[v] = den[v]
    BY <1>1, <1>6, <1>8 DEF EvalIs
  <2>4. t = [v \in DOMAIN s \union {node.result} |->
              IF v = node.result
              THEN EvalScalar(node.op, ReadScalar(g, s, node.inputs[1]),
                              IF Len(node.inputs) > 1 THEN ReadScalar(g, s, node.inputs[2]) ELSE 0)
              ELSE s[v]]
    BY <2>1 DEF EvalStep, EvalNode
  <2>5. ASSUME node.result \in Reached(g), NEW i \in 1 .. Len(node.inputs)
        PROVE  ReadScalar(g, s, node.inputs[i]) = den[node.inputs[i]]
    <3>1. PICK a : a = node.inputs[i]
      OBVIOUS
    <3>2. a \in 1 .. m /\ a \notin DOMAIN g.rep
      BY <1>1, <2>1, <2>2, <2>5, <3>1, LiveOperand
    <3>3. a \in Reached(g)
      <4>1. IsResult(g, node.result) /\ ProducerOf(g, node.result) = node
        BY <2>1, <2>2, LiveResult
      <4> QED BY <1>5, <2>5, <3>1, <4>1 DEF Closed, OperandsIn
    <3>4. a \in DOMAIN s
      <4>1. CASE ~IsResult(g, a)
        BY <2>3, <3>2, <4>1
      <4>2. CASE IsResult(g, a)
        <5>1. PICK q : q = g.values[a].producer
          OBVIOUS
        <5>2. q \in 1 .. Len(g.nodes) /\ ~g.nodes[q].dead /\ g.nodes[q].result = a
          <6>1. q \in 1 .. Len(g.nodes)
            BY <1>1, <1>2, <3>2, <4>2, <5>1, SoundTables
          <6>2. Available(g, a)
            BY <3>3 DEF Covered
          <6> QED BY <1>1, <1>2, <3>2, <4>2, <5>1, <6>1, <6>2 DEF Available, ProducerOf, LinksOK
        <5>3. q < p
          <6>1. p \in Live(g) /\ i \in DOMAIN node.inputs /\ node.id = p
            <7>1. DOMAIN g.nodes = 1 .. Len(g.nodes)
              BY <1>2, SoundTables
            <7>2. DOMAIN node.inputs = 1 .. Len(node.inputs)
              BY <2>1, <2>2, OperandCount
            <7>3. node.id = p
              BY <1>2, <2>1, <2>2, SMTT(30) DEF GraphOK, NodesOK
            <7> QED BY <2>1, <2>2, <7>1, <7>2, <7>3 DEF Live
          <6>2. g.values[a].producer < node.id
            BY <2>1, <3>1, <4>2, <6>1 DEF VerifyGraph, ProducedBefore, IsResult
          <6> QED BY <5>1, <6>1, <6>2
        <5>4. PICK j \in 1 .. n : topo[j] = q
          BY <1>4, <5>2
        <5>5. j < k
          <6>1. j = k \/ k < j \/ j < k
            BY <1>3
          <6>2. j # k
            BY <2>1, <2>2, <5>2, <5>3, <5>4
          <6>3. ~(k < j)
            <7>1. ASSUME k < j PROVE FALSE
              <8>1. topo[k] < topo[j]
                BY <1>1, <1>3, <7>1 DEF Ascending
              <8>2. p < q /\ p \in Int /\ q \in Int
                BY <2>1, <2>2, <5>2, <5>4, <8>1
              <8> QED BY <5>3, <8>2
            <7> QED BY <7>1
          <6> QED BY <6>1, <6>2, <6>3
        <5>6. j \in 1 .. k - 1
          BY <1>3, <5>5
        <5> QED BY <2>3, <3>2, <5>2, <5>4, <5>6
      <4> QED BY <4>1, <4>2
    <3>5. Representative(g, a) = a
      BY <3>2, RepresentsItself
    <3> QED BY <2>3, <3>1, <3>3, <3>4, <3>5 DEF ReadScalar
  <2>6. ASSUME node.result \in Reached(g) PROVE t[node.result] = den[node.result]
    <3>1. den[node.result] = NodeValue(node, den)
      BY <2>1, <2>2, LiveDenotes
    <3>2. Len(node.inputs) \in {1, 2}
      BY <2>1, <2>2, OperandCount
    <3>3. /\ ReadScalar(g, s, node.inputs[1]) = den[node.inputs[1]]
          /\ Len(node.inputs) > 1 => ReadScalar(g, s, node.inputs[2]) = den[node.inputs[2]]
      <4>1. PICK l : l = Len(node.inputs)
        OBVIOUS
      <4>2. l = 1 \/ l = 2
        BY <3>2, <4>1
      <4>3. 1 \in 1 .. l /\ (l > 1 => 2 \in 1 .. l)
        BY <4>2
      <4> QED BY <2>5, <2>6, <4>1, <4>3
    <3> QED BY <2>4, <3>1, <3>3 DEF NodeValue
  <2>7. ASSUME NEW v \in 1 .. m, ~IsResult(g, v) \/ \E j \in 1 .. k : g.nodes[topo[j]].result = v
        PROVE  v \in DOMAIN t
    <3>1. DOMAIN t = DOMAIN s \union {node.result}
      BY <2>4
    <3>2. \A j \in 1 .. k : j \in 1 .. k - 1 \/ j = k
      BY <1>3
    <3> QED BY <2>1, <2>3, <2>7, <3>1, <3>2
  <2>8. ASSUME NEW v \in Reached(g), v \in DOMAIN t PROVE t[v] = den[v]
    <3>1. CASE v = node.result
      BY <2>6, <2>8, <3>1
    <3>2. CASE v # node.result
      BY <2>3, <2>4, <2>8, <3>2
    <3> QED BY <3>1, <3>2
  <2> QED BY <1>1, <1>6, <2>1, <2>7, <2>8 DEF EvalIs
<1>9. PICK scalars : scalars = EvalFold!Folded(g, start, topo)
  OBVIOUS
<1>10. EvalIs(d, scalars, n)
  BY <1>3, <1>7, <1>8, <1>9, EvalFold!FoldLeftInduction
<1>11. InterpretGraph(g, x) = [k \in DOMAIN g.outputs |-> ReadScalar(g, scalars, g.outputs[k])]
  BY <1>1, <1>9 DEF InterpretGraph, FoldLeft, MapThenFoldSet, Max, EvalStep, EvalFold!Folded, EvalFold!FoldTable
<1>12. DOMAIN g.outputs = 1 .. Len(g.outputs)
  BY <1>2, TableDomains
<1>13. ASSUME NEW k \in 1 .. Len(g.outputs) PROVE ReadScalar(g, scalars, g.outputs[k]) = den[g.outputs[k]]
  <2>1. PICK a : a = g.outputs[k]
    OBVIOUS
  <2>2. a \in 1 .. m /\ a \notin DOMAIN g.rep /\ a \in Reached(g)
    BY <1>1, <1>2, <1>5, <2>1, RootsExist DEF GraphOK, OutputsOK, RepOK
  <2>3. a \in DOMAIN scalars
    <3>1. CASE ~IsResult(g, a)
      BY <1>1, <1>6, <1>10, <2>2, <3>1 DEF EvalIs
    <3>2. CASE IsResult(g, a)
      <4>1. PICK q : q = g.values[a].producer
        OBVIOUS
      <4>2. q \in 1 .. Len(g.nodes)
        BY <1>1, <1>2, <2>2, <3>2, <4>1, SoundTables
      <4>3. ~g.nodes[q].dead /\ g.nodes[q].result = a
        BY <1>1, <1>2, <2>2, <3>2, <4>1 DEF Covered, Available, ProducerOf, LinksOK
      <4>4. \E j \in 1 .. n : g.nodes[topo[j]].result = a
        BY <1>4, <4>2, <4>3
      <4> QED BY <1>1, <1>6, <1>10, <2>2, <4>4, SMTT(30) DEF EvalIs
    <3> QED BY <3>1, <3>2
  <2>4. scalars[a] = den[a] /\ Representative(g, a) = a
    BY <1>6, <1>10, <2>2, <2>3, RepresentsItself DEF EvalIs
  <2> QED BY <2>1, <2>3, <2>4 DEF ReadScalar
<1> QED BY <1>11, <1>12, <1>13

-----------------------------------------------------------------------------
(***************************************************************************)
(* Renumbering moves nodes and keeps the terms.                            *)
(***************************************************************************)

\* The nodes are others, of the same operations, and every result's producer
\* is made as before.
SameTerms(g, h) ==
  /\ GraphOK(h) /\ LinksOK(h)
  /\ Len(h.values) = Len(g.values) /\ h.rep = g.rep
  /\ \A v \in 1 .. Len(g.values) :
       /\ h.values[v].kind = g.values[v].kind /\ h.values[v].payload = g.values[v].payload
       /\ IsResult(g, v) =>
            /\ ProducerOf(h, v).op = ProducerOf(g, v).op /\ ProducerOf(h, v).attr = ProducerOf(g, v).attr
            /\ ProducerOf(h, v).inputs = ProducerOf(g, v).inputs
            /\ ProducerOf(h, v).dead = ProducerOf(g, v).dead
  /\ \A p \in 1 .. Len(h.nodes) : \E n \in 1 .. Len(g.nodes) :
       h.nodes[p].inputs = g.nodes[n].inputs /\ h.nodes[p].dead = g.nodes[n].dead

\* renumberTopological leaves the equivalences.
LEMMA RenumberedRep ==
  ASSUME NEW g, GraphForm(g), NEW h, h = RenumberTopological(g)
  PROVE  h.rep = g.rep
<1>1. PICK order, to : order = NewOrder(g) /\ to = Remap(order)
  OBVIOUS
<1>2. g = [values |-> g.values, nodes |-> g.nodes, users |-> g.users, outputs |-> g.outputs,
           chain |-> g.chain, rep |-> g.rep]
  BY DEF GraphForm
<1> DEFINE nodes  == [p \in DOMAIN order |-> [g.nodes[order[p]] EXCEPT !.id = to[order[p]]]]
           values == [v \in DOMAIN g.values |-> Reproduced(g.values[v], to)]
           users  == [v \in DOMAIN g.users |-> [k \in DOMAIN g.users[v] |-> to[g.users[v][k]]]]
           chain  == [k \in DOMAIN g.chain |-> to[g.chain[k]]]
<1>3. h = g \/ h = [g EXCEPT !.nodes = nodes, !.values = values, !.users = users, !.chain = chain]
  BY <1>1 DEF RenumberTopological
<1> HIDE DEF nodes, values, users, chain
<1>4. CASE h = g
  BY <1>4
<1>5. CASE h = [g EXCEPT !.nodes = nodes, !.values = values, !.users = users, !.chain = chain]
  <2>1. h = [values |-> values, nodes |-> nodes, users |-> users, outputs |-> g.outputs,
             chain |-> chain, rep |-> g.rep]
    BY <1>2, <1>5
  <2> QED BY <2>1
<1> QED BY <1>3, <1>4, <1>5

\* renumberTopological makes every value from the same operands by the same operation.
LEMMA RenumberKeepsTerms ==
  ASSUME NEW g, Sound(g), NEW h, h = RenumberTopological(g)
  PROVE  SameTerms(g, h) /\ h.outputs = g.outputs
<1>1. GraphOK(g) /\ LinksOK(g) /\ GraphOK(h) /\ h.rep = g.rep
  <2>1. GraphOK(g) /\ LinksOK(g) /\ GraphForm(g)
    BY DEF Sound, GraphOK, TablesOK
  <2> QED BY <2>1, Renumbered, RenumberedRep
<1>2. CASE h = g
  BY <1>1, <1>2 DEF SameTerms
<1>3. CASE h # g
  <2>1. PICK order, to : order = NewOrder(g) /\ to = Remap(order)
    OBVIOUS
  <2>2. OrderOK(g, order)
    BY <1>1, <2>1, NewOrderIs
  <2>3. RemapOK(g, order, to)
    BY <2>1, <2>2, RemapIs
  <2>4. PICK m, c, l : m = Len(g.values) /\ c = Len(g.nodes) /\ l = Len(order)
    OBVIOUS
  <2>5. /\ h.outputs = g.outputs
        /\ h.nodes = [p \in 1 .. l |-> [g.nodes[order[p]] EXCEPT !.id = to[order[p]]]]
        /\ h.values = [v \in 1 .. m |-> Reproduced(g.values[v], to)]
    <3>1. GraphOK(g)
      BY <1>1
    <3>2. TablesMoved(g, order, to, h)
      <4>1. \E n \in DOMAIN to : to[n] # n
        BY <1>3, <2>1 DEF RenumberTopological
      <4> QED BY <2>1, <2>2, <2>3, <3>1, <4>1, TablesRenumbered
    <3> QED BY <2>4, <3>2, Zenon DEF TablesMoved
  <2>6. m \in Nat /\ c \in Nat /\ l \in Nat /\ Len(h.values) = m /\ Len(h.nodes) = l
    <3>1. m \in Nat /\ c \in Nat /\ l \in Nat
      BY <1>1, <2>2, <2>4, SoundTables DEF OrderOK, IsSequence
    <3> QED BY <2>5, <3>1, FunctionIsSequence
  <2>7. /\ \A n \in 1 .. c : to[n] \in 1 .. l /\ order[to[n]] = n
        /\ \A p \in 1 .. l : order[p] \in 1 .. c
        /\ \A p \in 1 .. l : ~g.nodes[order[p]].dead => to[order[p]] = p
    BY <2>2, <2>3, <2>4 DEF OrderOK, RemapOK, Holds
  <2>8. ASSUME NEW p \in 1 .. l
        PROVE  /\ h.nodes[p].inputs = g.nodes[order[p]].inputs /\ h.nodes[p].op = g.nodes[order[p]].op
               /\ h.nodes[p].attr = g.nodes[order[p]].attr
               /\ h.nodes[p].result = g.nodes[order[p]].result /\ h.nodes[p].dead = g.nodes[order[p]].dead
    <3>1. PICK n : n = order[p]
      OBVIOUS
    <3>2. h.nodes[p] = [g.nodes[n] EXCEPT !.id = to[n]]
      BY <2>5, <3>1
    <3>3. NodeForm(g.nodes[n])
      <4>1. n \in 1 .. c
        BY <2>7, <3>1
      <4> QED BY <1>1, <2>4, <4>1, SoundTables DEF NodeOver
    <3> QED BY <3>1, <3>2, <3>3, NodeRenamed
  <2>9. ASSUME NEW v \in 1 .. m
        PROVE  /\ h.values[v].kind = g.values[v].kind /\ h.values[v].payload = g.values[v].payload
               /\ IsResult(g, v) => /\ g.values[v].producer \in 1 .. c
                                    /\ h.values[v].producer = to[g.values[v].producer]
    <3>1. ValueOver(g.values[v], c)
      BY <1>1, <2>4 DEF GraphOK, ValuesOK
    <3>2. h.values[v] = Reproduced(g.values[v], to)
      BY <2>5
    <3>3. /\ h.values[v].kind = g.values[v].kind /\ h.values[v].payload = g.values[v].payload
          /\ g.values[v].kind = "result" => h.values[v].producer = to[g.values[v].producer]
      BY <2>7, <3>1, <3>2, ValueReproduced
    <3> QED BY <3>1, <3>3 DEF ValueOver, IsResult
  <2>10. ASSUME NEW v \in 1 .. m, IsResult(g, v)
         PROVE  /\ ProducerOf(h, v).op = ProducerOf(g, v).op /\ ProducerOf(h, v).attr = ProducerOf(g, v).attr
                /\ ProducerOf(h, v).inputs = ProducerOf(g, v).inputs
                /\ ProducerOf(h, v).dead = ProducerOf(g, v).dead
                /\ ProducerOf(h, v).result = ProducerOf(g, v).result
    <3>1. PICK n, p : n = g.values[v].producer /\ p = h.values[v].producer
      OBVIOUS
    <3>2. n \in 1 .. c /\ p \in 1 .. l /\ order[p] = n
      BY <2>7, <2>9, <2>10, <3>1
    <3> QED BY <2>8, <3>1, <3>2, ZenonT(60) DEF ProducerOf
  <2>11. LinksOK(h)
    <3>1. ASSUME NEW v \in 1 .. m
          PROVE  /\ h.values[v].kind \in {"placeholder", "constant", "result"}
                 /\ IsConstant(h, v) => h.values[v].payload \in Residues
                 /\ IsResult(h, v) => ProducerOf(h, v).result = v
      <4>1. /\ g.values[v].kind \in {"placeholder", "constant", "result"}
            /\ g.values[v].kind = "constant" => g.values[v].payload \in Residues
            /\ g.values[v].kind = "result" => ProducerOf(g, v).result = v
        BY <1>1, <2>4 DEF LinksOK, IsResult, IsConstant
      <4> QED BY <2>9, <2>10, <4>1 DEF IsResult, IsConstant
    <3>2. ASSUME NEW p \in 1 .. l
          PROVE  /\ h.nodes[p].op \in Computed
                 /\ IsResult(h, h.nodes[p].result)
                 /\ ~h.nodes[p].dead => h.values[h.nodes[p].result].producer = p
      <4>1. PICK n, r : n = order[p] /\ r = g.nodes[n].result
        OBVIOUS
      <4>2. n \in 1 .. c
        BY <2>7, <4>1
      <4>3. r \in 1 .. m
        BY <1>1, <2>4, <4>1, <4>2, SoundTables
      <4>4. g.nodes[n].op \in Computed /\ IsResult(g, r) /\ (~g.nodes[n].dead => g.values[r].producer = n)
        BY <1>1, <2>4, <4>1, <4>2 DEF LinksOK
      <4>5. h.nodes[p].op = g.nodes[n].op /\ h.nodes[p].result = r /\ h.nodes[p].dead = g.nodes[n].dead
        BY <2>8, <4>1
      <4>6. ~g.nodes[n].dead => to[n] = p
        BY <2>7, <4>1
      <4> QED BY <2>9, <4>3, <4>4, <4>5, <4>6 DEF IsResult
    <3> QED BY <2>6, <3>1, <3>2 DEF LinksOK
  <2>12. \A p \in 1 .. l : \E n \in 1 .. c :
           h.nodes[p].inputs = g.nodes[n].inputs /\ h.nodes[p].dead = g.nodes[n].dead
    BY <2>7, <2>8
  <2>13. SameTerms(g, h)
    BY <1>1, <2>4, <2>6, <2>9, <2>10, <2>11, <2>12 DEF SameTerms
  <2> QED BY <2>5, <2>13
<1> QED BY <1>2, <1>3

\* What is said of the terms, said of the same terms elsewhere.
LEMMA SameTermsMeans ==
  ASSUME NEW g, Sound(g), NEW h, SameTerms(g, h)
  PROVE  /\ \A b, rank : Ranks(g, b, rank) => Ranks(h, b, rank)
         /\ \A x, den : Denotes(g, x, den) => Denotes(h, x, den)
         /\ NamesOnce(g) => NamesOnce(h)
         /\ \A v \in 1 .. Len(g.values) : Available(h, v) <=> Available(g, v)
<1>1. PICK m : m = Len(g.values)
  OBVIOUS
<1>2. m \in Nat /\ Len(h.values) = m
  BY <1>1, SoundTables DEF Sound, SameTerms
<1>3. ASSUME NEW v \in 1 .. m
      PROVE  /\ IsResult(h, v) <=> IsResult(g, v)
             /\ IsConstant(h, v) <=> IsConstant(g, v)
             /\ h.values[v].kind = g.values[v].kind /\ h.values[v].payload = g.values[v].payload
             /\ IsResult(g, v) => /\ ProducerOf(h, v).op = ProducerOf(g, v).op
                                  /\ ProducerOf(h, v).inputs = ProducerOf(g, v).inputs
             /\ Available(h, v) <=> Available(g, v)
  BY <1>1 DEF SameTerms, IsResult, IsConstant, Available
<1>4. ASSUME NEW v \in 1 .. m, NEW x PROVE BoundInput(h, x, v) = BoundInput(g, x, v)
  <2>1. \A w \in 1 .. v : w \in 1 .. m
    BY <1>2
  <2>2. {w \in 1 .. v : h.values[w].kind = "placeholder"} = {w \in 1 .. v : g.values[w].kind = "placeholder"}
    BY <1>3, <2>1
  <2> QED BY <2>2 DEF BoundInput
<1>5. ASSUME NEW b, NEW rank, Ranks(g, b, rank) PROVE Ranks(h, b, rank)
  BY <1>1, <1>2, <1>3, <1>5 DEF Ranks
<1>6. ASSUME NEW x, NEW den, Denotes(g, x, den) PROVE Denotes(h, x, den)
  <2>1. \A v \in 1 .. m : IsResult(g, v) => NodeValue(ProducerOf(h, v), den) = NodeValue(ProducerOf(g, v), den)
    BY <1>3 DEF NodeValue
  <2> QED BY <1>1, <1>2, <1>3, <1>4, <1>6, <2>1 DEF Denotes
<1>7. NamesOnce(g) => NamesOnce(h)
  BY <1>1, <1>2, <1>3 DEF NamesOnce
<1> QED BY <1>1, <1>3, <1>5, <1>6, <1>7

\* Renumbering, of a sound graph.
LEMMA RenumberSound ==
  ASSUME NEW g, Sound(g), NEW h, h = RenumberTopological(g)
  PROVE  /\ Sound(h) /\ h.outputs = g.outputs
         /\ \A b, rank : Ranks(g, b, rank) => Ranks(h, b, rank)
         /\ \A x, den : Denotes(g, x, den) => Denotes(h, x, den)
         /\ NamesOnce(g) => NamesOnce(h)
         /\ LiveBelow(g) => LiveBelow(h)
<1>1. SameTerms(g, h) /\ h.outputs = g.outputs
  BY RenumberKeepsTerms
<1>2. PICK m, c, l : m = Len(g.values) /\ c = Len(g.nodes) /\ l = Len(h.nodes)
  OBVIOUS
<1>3. GraphOK(g) /\ RepOK(g) /\ GraphOK(h) /\ LinksOK(h) /\ h.rep = g.rep /\ Len(h.values) = m
  BY <1>1, <1>2 DEF Sound, SameTerms
<1>4. \A v \in 1 .. m : Available(h, v) <=> Available(g, v)
  BY <1>1, <1>2, SameTermsMeans
<1>5. ASSUME NEW p \in 1 .. l
      PROVE  \E n \in 1 .. c : h.nodes[p].inputs = g.nodes[n].inputs /\ h.nodes[p].dead = g.nodes[n].dead
  BY <1>1, <1>2 DEF SameTerms
<1>6. RepOK(h)
  <2>1. ASSUME NEW p \in 1 .. l, ~h.nodes[p].dead, NEW k \in 1 .. Len(h.nodes[p].inputs)
        PROVE  h.nodes[p].inputs[k] \notin DOMAIN h.rep
    <3>1. PICK n \in 1 .. c : h.nodes[p].inputs = g.nodes[n].inputs /\ h.nodes[p].dead = g.nodes[n].dead
      BY <1>5
    <3> QED BY <1>2, <1>3, <2>1, <3>1 DEF RepOK
  <2>2. \A v \in DOMAIN h.rep : v \in 1 .. m /\ ~Available(h, v)
    BY <1>2, <1>3, <1>4 DEF RepOK
  <2>3. \A k \in 1 .. Len(h.outputs) : h.outputs[k] \notin DOMAIN h.rep
    BY <1>1, <1>3 DEF RepOK
  <2> QED BY <1>2, <1>3, <2>1, <2>2, <2>3 DEF RepOK
<1>7. ASSUME LiveBelow(g) PROVE LiveBelow(h)
  <2>1. ASSUME NEW p \in 1 .. l, ~h.nodes[p].dead, NEW k \in 1 .. Len(h.nodes[p].inputs)
        PROVE  Available(h, h.nodes[p].inputs[k])
    <3>1. PICK n \in 1 .. c : h.nodes[p].inputs = g.nodes[n].inputs /\ h.nodes[p].dead = g.nodes[n].dead
      BY <1>5
    <3>2. g.nodes[n].inputs[k] \in 1 .. m
      BY <1>2, <1>3, <2>1, <3>1, SoundTables
    <3>3. Available(g, g.nodes[n].inputs[k])
      BY <1>2, <1>7, <2>1, <3>1 DEF LiveBelow
    <3> QED BY <1>4, <3>1, <3>2, <3>3
  <2>2. ASSUME NEW k \in 1 .. Len(h.outputs) PROVE Available(h, h.outputs[k])
    BY <1>1, <1>2, <1>3, <1>4, <1>7, <2>2 DEF LiveBelow, GraphOK, OutputsOK
  <2> QED BY <1>2, <2>1, <2>2 DEF LiveBelow
<1>8. Sound(h)
  BY <1>3, <1>6 DEF Sound
<1> QED BY <1>1, <1>7, <1>8, SameTermsMeans
=================================================================================
