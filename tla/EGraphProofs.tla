------------------------------ MODULE EGraphProofs ------------------------------
(***************************************************************************)
(* Proofs about the e-graph, for any graph a frontend can build, any node  *)
(* budget and number of iterations, and any field of values: its union-    *)
(* find forest, member lists, owner table and lookup table tell the same   *)
(* partition, and e-nodes of a class denote the same value.                *)
(***************************************************************************)
EXTENDS EGraphSaturation, FiniteSetTheorems, SequenceTheorems, TLAPS

OperationNames == {"add", "sub", "mul", "div", "pow", "neg", "ffi", "lift", "matmul", "reduce", "box"}

\* What an attribute is: a leaf's kind with its payload, or a node's attribute.
Attribute == {"attr", "placeholder", "constant"} \X Nat

\* An e-node of the model.
ENode == [op : OperationNames, attr : Attribute, children : Seq(Nat)]

\* The e-nodes: each has its children before it, and the payload of a constant
\* is a residue.
ENodesOK(s) ==
  /\ s \in Seq(ENode)
  /\ \A i \in 1 .. Len(s) :
       /\ \A k \in 1 .. Len(s[i].children) : s[i].children[k] \in 1 .. i - 1
       /\ s[i].op = "box" /\ s[i].attr[1] = "constant" => s[i].attr[2] \in Residues

\* The forest and the owner table agree edge by edge.
ForestOK(e, n) ==
  /\ e.parent \in Seq(Nat) /\ Len(e.parent) = n
  /\ e.class \in Seq(Nat) /\ Len(e.class) = n
  /\ \A c \in 1 .. n :
       /\ e.parent[c] \in 1 .. c /\ e.class[c] \in 1 .. n
       /\ e.class[e.parent[c]] = e.class[c]
       /\ e.parent[e.class[c]] = e.class[c]
       /\ e.parent[c] = c => e.class[c] = c

\* A member list holds what the owner table gives its class, and an emptied
\* class has none.
MembersOK(e, n) ==
  /\ e.members \in Seq(Seq(Nat)) /\ Len(e.members) = n
  /\ \A c \in 1 .. n : ToSet(e.members[c]) = {i \in 1 .. n : e.class[i] = c}

\* The lookup table leads every e-node it has to the class of that e-node.
LookupOK(e, n) ==
  \A en \in DOMAIN e.lookup :
    /\ e.lookup[en] \in 1 .. n
    /\ \E i \in 1 .. n : e.enodes[i] = en /\ e.class[i] = e.class[e.lookup[en]]

\* A class made for a leaf of the graph is that leaf.
LeafOK(e, g, n) ==
  \A c \in DOMAIN e.leaf :
    /\ c \in 1 .. n /\ e.leaf[c] \in DOMAIN g.values
    /\ g.values[e.leaf[c]].kind # "result"
    /\ e.enodes[c] = LeafENode(g, e.leaf[c])

\* The e-graph: its representations agree, over the e-nodes it has.
EGraphInv(e, g) ==
  /\ e = [enodes |-> e.enodes, parent |-> e.parent, members |-> e.members, lookup |-> e.lookup,
          class |-> e.class, leaf |-> e.leaf, live |-> e.live]
  /\ ENodesOK(e.enodes)
  /\ ForestOK(e, Len(e.enodes)) /\ MembersOK(e, Len(e.enodes))
  /\ LookupOK(e, Len(e.enodes)) /\ LeafOK(e, g, Len(e.enodes))
  /\ e.live = Cardinality(Roots(e))
  /\ Len(e.enodes) <= MaxENodes

\* Values and nodes of the imported graph.
GraphValue == [kind : {"placeholder", "constant", "result"}, payload : Residues, producer : Nat]
GraphNode  == [id : Nat, op : OperationNames, attr : Nat, inputs : Seq(Nat), result : Nat, dead : BOOLEAN]

\* The imported graph: results and producers name each other, and a node's
\* operands come before its result.
GraphInv(g) ==
  /\ g = [values |-> g.values, nodes |-> g.nodes, users |-> g.users, outputs |-> g.outputs,
          chain |-> g.chain, rep |-> g.rep]
  /\ g.values \in Seq(GraphValue) /\ g.nodes \in Seq(GraphNode)
  /\ \A v \in 1 .. Len(g.values) :
       g.values[v].kind = "result" =>
         /\ g.values[v].producer \in 1 .. Len(g.nodes)
         /\ g.nodes[g.values[v].producer].result = v
  /\ \A n \in 1 .. Len(g.nodes) :
       /\ g.nodes[n].result \in 1 .. Len(g.values)
       /\ \A k \in 1 .. Len(g.nodes[n].inputs) : g.nodes[n].inputs[k] \in 1 .. g.nodes[n].result - 1

\* The inductive invariant: graph, e-graph, control, and e-nodes of one class
\* denote the same.
IInv ==
  /\ GraphInv(graph)
  /\ EGraphInv(eg, graph)
  /\ pc \in {"build", "visit", "rebuilt", "saturated", "extracted", "failed"}
  /\ pc = "build" => eg = EmptyEGraph
  /\ grew \in BOOLEAN /\ iteration \in 0 .. MaxIterations
  /\ pc \in {"visit", "rebuilt", "build"} => iteration < MaxIterations
  /\ at \in Nat \ {0} /\ count \in 0 .. Len(eg.enodes)
  /\ Sound

\* What an instance of InductionRules gives the constants that it has no use for.
NoDef(c, d, f, k) == f[k]
NoP(c, d, f, k) == TRUE
NoStep(c, a, x) == a
NoInv(d, a, k) == TRUE

-----------------------------------------------------------------------------
(***************************************************************************)
(* Sequences.                                                              *)
(***************************************************************************)

\* An assignment to an element of a table, parent_[b] = a for one.
LEMMA SeqExcept ==
  ASSUME NEW S, NEW s \in Seq(S), NEW i \in 1 .. Len(s), NEW v \in S, NEW t, t = [s EXCEPT ![i] = v]
  PROVE  t \in Seq(S) /\ Len(t) = Len(s) /\ \A j \in 1 .. Len(s) : t[j] = IF j = i THEN v ELSE s[j]
BY ExceptSeq

\* Members of one class appended to those of another.
LEMMA ConcatToSet ==
  ASSUME NEW S, NEW s \in Seq(S), NEW t \in Seq(S)
  PROVE  ToSet(s \o t) = ToSet(s) \union ToSet(t)
<1>1. /\ s \o t \in Seq(S) /\ Len(s \o t) = Len(s) + Len(t)
      /\ \A i \in 1 .. Len(s) + Len(t) : (s \o t)[i] = IF i <= Len(s) THEN s[i] ELSE t[i - Len(s)]
  BY ConcatProperties
<1>2. ASSUME NEW i \in 1 .. Len(s) + Len(t) PROVE (s \o t)[i] \in ToSet(s) \union ToSet(t)
  <2>1. CASE i <= Len(s)
    BY <1>1, <2>1 DEF ToSet
  <2>2. CASE ~(i <= Len(s))
    <3>1. i - Len(s) \in DOMAIN t
      BY <2>2
    <3> QED BY <1>1, <2>2, <3>1 DEF ToSet
  <2> QED BY <2>1, <2>2
<1>3. ASSUME NEW i \in 1 .. Len(s) PROVE s[i] \in ToSet(s \o t)
  BY <1>1 DEF ToSet
<1>4. ASSUME NEW i \in 1 .. Len(t) PROVE t[i] \in ToSet(s \o t)
  <2>1. i + Len(s) \in 1 .. Len(s) + Len(t) /\ ~(i + Len(s) <= Len(s)) /\ i + Len(s) - Len(s) = i
    OBVIOUS
  <2>2. (s \o t)[i + Len(s)] = t[i]
    BY <1>1, <2>1
  <2> QED BY <1>1, <2>1, <2>2 DEF ToSet
<1>5. DOMAIN (s \o t) = 1 .. Len(s) + Len(t) /\ DOMAIN s = 1 .. Len(s) /\ DOMAIN t = 1 .. Len(t)
  BY <1>1
<1> HIDE <1>1
<1>6. ToSet(s \o t) \subseteq ToSet(s) \union ToSet(t)
  BY <1>2, <1>5 DEF ToSet
<1>7. ToSet(s) \union ToSet(t) \subseteq ToSet(s \o t)
  <2>1. \A x \in ToSet(s) : \E i \in 1 .. Len(s) : x = s[i]
    BY <1>5 DEF ToSet
  <2>2. \A x \in ToSet(t) : \E i \in 1 .. Len(t) : x = t[i]
    BY <1>5 DEF ToSet
  <2> QED BY <2>1, <2>2, <1>3, <1>4
<1> QED BY <1>6, <1>7

\* A function over the positions 1 .. n is a sequence, as the children copied
\* from a node's operands are.
LEMMA SeqTable ==
  ASSUME NEW S, NEW n \in Nat, NEW t \in [1 .. n -> S]
  PROVE  t \in Seq(S) /\ Len(t) = n
OBVIOUS

-----------------------------------------------------------------------------
(***************************************************************************)
(* find.                                                                   *)
(***************************************************************************)

\* One turn of the loop of find, as a recursion over class ids.
FindDef(e, d, table, c) == IF e.parent[c] = c THEN c ELSE table[e.parent[c]]
FindsOwner(e, d, table, c) == table[c] = e.class[c]

FindRecursion == INSTANCE InductionRules WITH Def <- FindDef, P <- FindsOwner, Step <- NoStep, Inv <- NoInv

\* find walks to the class that the owner table names: the walk ends because
\* parents never have larger ids, and it ends at a root.
LEMMA FindIsOwner ==
  ASSUME NEW e, NEW n \in Nat, ForestOK(e, n), NEW c \in 1 .. n
  PROVE  Find(e, c) = e.class[c]
<1> DEFINE table == CHOOSE f : f = [k \in 1 .. n |-> FindDef(e, 0, f, k)]
<1>1. DOMAIN e.parent = 1 .. n
  BY DEF ForestOK
<1>2. /\ 1 \in Int /\ n \in Int
      /\ table = CHOOSE f : f = [k \in 1 .. n |-> FindDef(e, 0, f, k)]
  OBVIOUS
<1>3. Find(e, c) = table[c]
  BY <1>1 DEF Find, Classes, FindDef
<1> HIDE DEF table
<1>4. table = [k \in 1 .. n |-> FindDef(e, 0, table, k)]
  <2>1. FindRecursion!LookBack(e, 0, 1, n)
    <3> SUFFICES ASSUME NEW k \in 1 .. n, NEW f, NEW g, \A j \in 1 .. k - 1 : f[j] = g[j]
                 PROVE  FindDef(e, 0, f, k) = FindDef(e, 0, g, k)
      BY DEF FindRecursion!LookBack
    <3>1. e.parent[k] \in 1 .. k
      BY DEF ForestOK
    <3> QED BY <3>1 DEF FindDef
  <2> QED BY <2>1, <1>2, FindRecursion!RecursionEquation
<1>5. ASSUME NEW k \in 1 .. n, \A j \in 1 .. k - 1 : FindsOwner(e, 0, table, j)
      PROVE  FindsOwner(e, 0, table, k)
  <2>1. table[k] = FindDef(e, 0, table, k)
    BY <1>4
  <2>2. /\ e.parent[k] \in 1 .. k
        /\ e.class[e.parent[k]] = e.class[k]
        /\ e.parent[k] = k => e.class[k] = k
    BY DEF ForestOK
  <2>3. e.parent[k] # k => table[e.parent[k]] = e.class[e.parent[k]]
    BY <1>5, <2>2 DEF FindsOwner
  <2> QED BY <2>1, <2>2, <2>3 DEF FindsOwner, FindDef
<1>6. \A k \in 1 .. n : FindsOwner(e, 0, table, k)
  BY <1>2, <1>5, FindRecursion!RecursionInduction
<1> QED BY <1>3, <1>6 DEF FindsOwner

-----------------------------------------------------------------------------
(***************************************************************************)
(* unionClasses.                                                           *)
(***************************************************************************)

\* f is e with root gone, of n classes, merged into root keep.
IsMerged(e, keep, gone, n, f) ==
  /\ f = [enodes |-> e.enodes, parent |-> f.parent, members |-> f.members, lookup |-> e.lookup,
          class |-> f.class, leaf |-> e.leaf, live |-> e.live - 1]
  /\ f.parent \in Seq(Nat) /\ Len(f.parent) = n
  /\ \A c \in 1 .. n : f.parent[c] = IF c = gone THEN keep ELSE e.parent[c]
  /\ f.class \in Seq(Nat) /\ Len(f.class) = n
  /\ \A c \in 1 .. n : f.class[c] = IF e.class[c] = gone THEN keep ELSE e.class[c]
  /\ f.members \in Seq(Seq(Nat)) /\ Len(f.members) = n
  /\ \A c \in 1 .. n : f.members[c] = IF c = gone THEN <<>>
                                      ELSE IF c = keep THEN e.members[keep] \o e.members[gone]
                                      ELSE e.members[c]

\* The fields of the merged e-graph.
LEMMA MergedFields ==
  ASSUME NEW e, NEW g, EGraphInv(e, g), NEW n, n = Len(e.enodes),
         NEW keep \in 1 .. n, NEW gone \in 1 .. n, keep < gone,
         e.class[keep] = keep, e.class[gone] = gone,
         NEW f, f = Merged(e, keep, gone)
  PROVE  IsMerged(e, keep, gone, n, f)
<1>1. /\ n \in Nat
      /\ e.parent \in Seq(Nat) /\ Len(e.parent) = n
      /\ e.class \in Seq(Nat) /\ Len(e.class) = n
      /\ e.members \in Seq(Seq(Nat)) /\ Len(e.members) = n
      /\ ToSet(e.members[gone]) = {i \in 1 .. n : e.class[i] = gone}
  BY SMTT(30) DEF EGraphInv, ForestOK, MembersOK, ENodesOK
<1>2. e = [enodes |-> e.enodes, parent |-> e.parent, members |-> e.members, lookup |-> e.lookup,
           class |-> e.class, leaf |-> e.leaf, live |-> e.live]
  BY DEF EGraphInv
<1>3. f = [enodes |-> e.enodes, parent |-> [e.parent EXCEPT ![gone] = keep],
           members |-> [e.members EXCEPT ![keep] = e.members[keep] \o e.members[gone], ![gone] = <<>>],
           lookup |-> e.lookup,
           class |-> [i \in DOMAIN e.class |-> IF i \in ToSet(e.members[gone]) THEN keep ELSE e.class[i]],
           leaf |-> e.leaf, live |-> e.live - 1]
  <2> DEFINE p == [e.parent EXCEPT ![gone] = keep]
             m == [e.members EXCEPT ![keep] = e.members[keep] \o e.members[gone], ![gone] = <<>>]
             o == [i \in DOMAIN e.class |-> IF i \in ToSet(e.members[gone]) THEN keep ELSE e.class[i]]
  <2>1. f = [e EXCEPT !.parent = p, !.live = e.live - 1, !.members = m, !.class = o]
    BY DEF Merged
  <2> HIDE DEF p, m, o
  <2>2. f = [enodes |-> e.enodes, parent |-> p, members |-> m, lookup |-> e.lookup,
             class |-> o, leaf |-> e.leaf, live |-> e.live - 1]
    BY <1>2, <2>1
  <2> QED BY <2>2 DEF p, m, o
<1>4. /\ f.parent = [e.parent EXCEPT ![gone] = keep]
      /\ f.members = [e.members EXCEPT ![keep] = e.members[keep] \o e.members[gone], ![gone] = <<>>]
      /\ f.class = [i \in DOMAIN e.class |-> IF i \in ToSet(e.members[gone]) THEN keep ELSE e.class[i]]
  BY <1>3
<1>5. /\ f.parent \in Seq(Nat) /\ Len(f.parent) = n
      /\ \A c \in 1 .. n : f.parent[c] = IF c = gone THEN keep ELSE e.parent[c]
  <2>1. keep \in Nat /\ gone \in 1 .. Len(e.parent)
    BY <1>1
  <2>2. PICK old, new : old = e.parent /\ new = f.parent
    OBVIOUS
  <2>3. /\ old \in Seq(Nat) /\ gone \in 1 .. Len(old) /\ Len(old) = n
        /\ new = [old EXCEPT ![gone] = keep]
    BY <1>1, <1>4, <2>1, <2>2
  <2>4. /\ new \in Seq(Nat) /\ Len(new) = n
        /\ \A c \in 1 .. n : new[c] = IF c = gone THEN keep ELSE old[c]
    BY <2>1, <2>3, SeqExcept
  <2> QED BY <2>2, <2>4
<1>6. /\ f.class \in Seq(Nat) /\ Len(f.class) = n
      /\ \A c \in 1 .. n : f.class[c] = IF e.class[c] = gone THEN keep ELSE e.class[c]
  <2>1. DOMAIN e.class = 1 .. n
    BY <1>1
  <2>2. f.class = [i \in 1 .. n |-> IF e.class[i] = gone THEN keep ELSE e.class[i]]
    BY <1>1, <1>4, <2>1
  <2>3. \A i \in 1 .. n : e.class[i] \in Nat /\ keep \in Nat
    <3> SUFFICES ASSUME NEW i \in 1 .. n PROVE e.class[i] \in Nat
      OBVIOUS
    <3>1. i \in 1 .. Len(e.class)
      BY <1>1
    <3> QED BY <1>1, <3>1, ElementOfSeq
  <2>4. f.class \in [1 .. n -> Nat]
    BY <2>2, <2>3
  <2>5. f.class \in Seq(Nat) /\ Len(f.class) = n
    BY <1>1, <2>4, SeqTable, ZenonT(40)
  <2> QED BY <2>2, <2>5
<1>7. /\ f.members \in Seq(Seq(Nat)) /\ Len(f.members) = n
      /\ \A c \in 1 .. n : f.members[c] = IF c = gone THEN <<>>
                                          ELSE IF c = keep THEN e.members[keep] \o e.members[gone]
                                          ELSE e.members[c]
  <2> DEFINE both == e.members[keep] \o e.members[gone]
             taken == [e.members EXCEPT ![keep] = both]
  <2>1. both \in Seq(Nat) /\ <<>> \in Seq(Nat)
    BY <1>1, SMTT(30)
  <2>2. f.members = [taken EXCEPT ![gone] = <<>>]
    BY <1>4
  <2> HIDE DEF both
  <2>3. /\ taken \in Seq(Seq(Nat)) /\ Len(taken) = n
        /\ \A c \in 1 .. n : taken[c] = IF c = keep THEN both ELSE e.members[c]
    <3>1. keep \in 1 .. Len(e.members)
      BY <1>1
    <3>2. PICK old, S : old = e.members /\ S = Seq(Nat)
      OBVIOUS
    <3>3. /\ old \in Seq(S) /\ both \in S /\ keep \in 1 .. Len(old) /\ Len(old) = n
          /\ taken = [old EXCEPT ![keep] = both]
      BY <1>1, <2>1, <3>1, <3>2
    <3> HIDE DEF taken
    <3>4. /\ taken \in Seq(S) /\ Len(taken) = Len(old)
          /\ \A c \in 1 .. Len(old) : taken[c] = IF c = keep THEN both ELSE old[c]
      BY <3>3, SeqExcept
    <3> QED BY <3>2, <3>3, <3>4
  <2> HIDE DEF taken
  <2>4. /\ f.members \in Seq(Seq(Nat)) /\ Len(f.members) = n
        /\ \A c \in 1 .. n : f.members[c] = IF c = gone THEN <<>> ELSE taken[c]
    <3>1. gone \in 1 .. Len(taken)
      BY <2>3
    <3> QED BY <2>1, <2>2, <2>3, <3>1, SeqExcept, SMTT(30)
  <2> QED BY <2>3, <2>4 DEF both
<1> QED BY <1>3, <1>4, <1>5, <1>6, <1>7 DEF IsMerged

\* A merge keeps the forest, the owners, the member lists, the lookup table
\* and the number of live classes in agreement.
LEMMA MergedInv ==
  ASSUME NEW e, NEW g, EGraphInv(e, g), NEW n, n = Len(e.enodes),
         NEW keep \in 1 .. n, NEW gone \in 1 .. n, keep < gone,
         e.class[keep] = keep, e.class[gone] = gone
  PROVE  EGraphInv(Merged(e, keep, gone), g)
<1> DEFINE f == Merged(e, keep, gone)
<1>1. f = Merged(e, keep, gone)
  OBVIOUS
<1> HIDE DEF f
<1>2. /\ IsMerged(e, keep, gone, n, f)
      /\ f.parent \in Seq(Nat) /\ Len(f.parent) = n
      /\ \A c \in 1 .. n : f.parent[c] = IF c = gone THEN keep ELSE e.parent[c]
      /\ f.class \in Seq(Nat) /\ Len(f.class) = n
      /\ \A c \in 1 .. n : f.class[c] = IF e.class[c] = gone THEN keep ELSE e.class[c]
      /\ keep # gone
  <2>1. IsMerged(e, keep, gone, n, f)
    BY <1>1, MergedFields
  <2>2. n \in Nat
    BY DEF EGraphInv, ENodesOK
  <2> QED BY <2>1, <2>2 DEF IsMerged
<1>3. /\ f.enodes = e.enodes /\ f.lookup = e.lookup /\ f.leaf = e.leaf /\ f.live = e.live - 1
      /\ n \in Nat
      /\ f = [enodes |-> f.enodes, parent |-> f.parent, members |-> f.members, lookup |-> f.lookup,
              class |-> f.class, leaf |-> f.leaf, live |-> f.live]
  BY <1>2 DEF EGraphInv, ENodesOK, IsMerged
<1>4. \A c \in 1 .. n :
        /\ e.parent[c] \in 1 .. c /\ e.class[c] \in 1 .. n
        /\ e.class[e.parent[c]] = e.class[c]
        /\ e.parent[e.class[c]] = e.class[c]
        /\ e.parent[c] = c => e.class[c] = c
  BY DEF EGraphInv, ForestOK
<1>5. ForestOK(f, n)
  <2> SUFFICES ASSUME NEW c \in 1 .. n
               PROVE  /\ f.parent[c] \in 1 .. c /\ f.class[c] \in 1 .. n
                      /\ f.class[f.parent[c]] = f.class[c]
                      /\ f.parent[f.class[c]] = f.class[c]
                      /\ f.parent[c] = c => f.class[c] = c
    BY <1>2 DEF ForestOK
  <2>1. e.parent[c] \in 1 .. n /\ e.class[c] \in 1 .. n
    BY <1>4, <1>3
  <2>2. /\ f.class[e.parent[c]] = IF e.class[c] = gone THEN keep ELSE e.class[c]
        /\ f.class[keep] = keep
    <3>1. \A b \in 1 .. n : f.class[b] = IF e.class[b] = gone THEN keep ELSE e.class[b]
      BY <1>2
    <3>2. e.class[e.parent[c]] = e.class[c] /\ keep \in 1 .. n /\ keep # gone
      BY <1>2, <1>4
    <3> QED BY <2>1, <3>1, <3>2
  <2>3. f.parent[keep] = keep /\ (e.class[c] # gone => f.parent[e.class[c]] = e.class[c])
    <3>1. e.parent[keep] = keep
      BY <1>4
    <3>2. e.parent[e.class[c]] = e.class[c]
      BY <1>4
    <3> QED BY <1>2, <2>1, <3>1, <3>2
  <2>4. f.parent[c] \in 1 .. c
    <3>1. CASE c = gone
      <4>1. f.parent[c] = keep
        BY <1>2, <3>1
      <4> QED BY <4>1, <3>1, <1>3
    <3>2. CASE c # gone
      BY <1>2, <1>4, <3>2
    <3> QED BY <3>1, <3>2
  <2>5. f.class[c] \in 1 .. n
    BY <1>2, <2>1
  <2>6. f.class[f.parent[c]] = f.class[c]
    <3>1. CASE c = gone
      <4>1. f.parent[c] = keep /\ e.class[c] = gone
        BY <1>2, <3>1
      <4> QED BY <4>1, <2>2, <1>2
    <3>2. CASE c # gone
      BY <1>2, <2>2, <3>2
    <3> QED BY <3>1, <3>2
  <2>7. f.parent[f.class[c]] = f.class[c]
    BY <1>2, <2>3
  <2>8. f.parent[c] = c => f.class[c] = c
    BY <1>2, <1>4
  <2> QED BY <2>4, <2>5, <2>6, <2>7, <2>8
<1>6. MembersOK(f, n)
  <2>1. ASSUME NEW c \in 1 .. n PROVE ToSet(f.members[c]) = {i \in 1 .. n : f.class[i] = c}
    <3>1. \A b \in 1 .. n : /\ e.members[b] \in Seq(Nat)
                            /\ ToSet(e.members[b]) = {i \in 1 .. n : e.class[i] = b}
      <4>1. e.members \in Seq(Seq(Nat)) /\ Len(e.members) = n
        BY DEF EGraphInv, MembersOK
      <4>2. \A b \in 1 .. n : b \in 1 .. Len(e.members)
        BY <4>1
      <4> QED BY <4>1, <4>2, ElementOfSeq DEF EGraphInv, MembersOK
    <3>2. CASE c = gone
      <4>1. ToSet(f.members[c]) = {}
        <5>1. f.members[c] = <<>>
          BY <1>2, <3>2 DEF IsMerged
        <5> QED BY <5>1 DEF ToSet
      <4>2. \A i \in 1 .. n : f.class[i] # c
        BY <1>2, <3>2
      <4> QED BY <4>1, <4>2
    <3>3. CASE c = keep
      <4>1. f.members[c] = e.members[keep] \o e.members[gone]
        BY <1>2, <3>3 DEF IsMerged
      <4>2. ToSet(e.members[keep] \o e.members[gone]) = ToSet(e.members[keep]) \union ToSet(e.members[gone])
        BY <3>1, ConcatToSet
      <4>3. ToSet(f.members[c]) = {i \in 1 .. n : e.class[i] = keep} \union {i \in 1 .. n : e.class[i] = gone}
        BY <3>1, <4>1, <4>2
      <4>4. \A i \in 1 .. n : f.class[i] = c <=> (e.class[i] = keep \/ e.class[i] = gone)
        BY <1>2, <3>3
      <4> QED BY <4>3, <4>4
    <3>4. CASE c # gone /\ c # keep
      <4>1. f.members[c] = e.members[c]
        BY <1>2, <3>4 DEF IsMerged
      <4>2. \A i \in 1 .. n : f.class[i] = c <=> e.class[i] = c
        BY <1>2, <3>4
      <4> QED BY <3>1, <4>1, <4>2, ZenonT(40)
    <3> QED BY <3>2, <3>3, <3>4
  <2> QED BY <2>1, <1>2 DEF MembersOK, IsMerged
<1>7. LookupOK(f, n)
  <2> SUFFICES ASSUME NEW en \in DOMAIN e.lookup
               PROVE  /\ e.lookup[en] \in 1 .. n
                      /\ \E i \in 1 .. n : e.enodes[i] = en /\ f.class[i] = f.class[e.lookup[en]]
    BY <1>3 DEF LookupOK
  <2>1. PICK i \in 1 .. n : e.enodes[i] = en /\ e.class[i] = e.class[e.lookup[en]]
    BY DEF EGraphInv, LookupOK
  <2>2. e.lookup[en] \in 1 .. n
    BY DEF EGraphInv, LookupOK
  <2>3. f.class[i] = f.class[e.lookup[en]]
    BY <1>2, <2>1, <2>2
  <2> QED BY <2>1, <2>2, <2>3
<1>8. f.live = Cardinality(Roots(f))
  <2>1. DOMAIN e.parent = 1 .. n /\ DOMAIN f.parent = 1 .. n
    BY <1>2, SMTT(30) DEF EGraphInv, ForestOK
  <2>2. Roots(f) = Roots(e) \ {gone}
    BY <1>2, <2>1 DEF Roots, Classes
  <2>3. gone \in Roots(e)
    BY <1>4, <2>1 DEF Roots, Classes
  <2>4. IsFiniteSet(Roots(e))
    <3>1. Roots(e) \in SUBSET (1 .. n)
      BY <2>1 DEF Roots, Classes
    <3>2. IsFiniteSet(1 .. n)
      BY <1>3, 1 \in Int, n \in Int, FS_Interval
    <3> QED BY <3>1, <3>2, FS_Subset
  <2>5. Cardinality(Roots(e) \ {gone}) = Cardinality(Roots(e)) - 1
    BY <2>3, <2>4, FS_RemoveElement
  <2>6. e.live = Cardinality(Roots(e))
    BY DEF EGraphInv
  <2> QED BY <1>3, <2>2, <2>5, <2>6
<1>9. LeafOK(f, g, n)
  BY <1>3 DEF EGraphInv, LeafOK
<1>10. ENodesOK(f.enodes) /\ Len(f.enodes) = n /\ n <= MaxENodes
  BY <1>3 DEF EGraphInv
<1>11. EGraphInv(f, g)
  BY <1>3, <1>5, <1>6, <1>7, <1>8, <1>9, <1>10 DEF EGraphInv
<1> QED BY <1>11 DEF f

\* unionClasses keeps the invariant, changes no e-node, and moves e-nodes only
\* from one of the two classes to the other.
LEMMA UnionInv ==
  ASSUME NEW e, NEW g, EGraphInv(e, g), NEW n, n = Len(e.enodes),
         NEW x \in 1 .. n, NEW y \in 1 .. n, NEW f, f = UnionClasses(e, x, y)
  PROVE  /\ EGraphInv(f, g) /\ f.enodes = e.enodes
         /\ \A i \in 1 .. n : \/ f.class[i] = e.class[i]
                              \/ f.class[i] = e.class[x] /\ e.class[i] = e.class[y]
                              \/ f.class[i] = e.class[y] /\ e.class[i] = e.class[x]
<1> DEFINE a == e.class[x]
           b == e.class[y]
<1>1. n \in Nat /\ ForestOK(e, n)
  BY DEF EGraphInv, ENodesOK
<1>2. Find(e, x) = a /\ Find(e, y) = b
  BY <1>1, FindIsOwner
<1>3. /\ a \in 1 .. n /\ b \in 1 .. n
      /\ e.parent[a] = a /\ e.parent[b] = b
  BY <1>1 DEF ForestOK
<1>4. e.class[a] = a /\ e.class[b] = b
  BY <1>1, <1>3 DEF ForestOK
<1>5. f = IF a < b THEN Merged(e, a, b) ELSE IF b < a THEN Merged(e, b, a) ELSE e
  BY <1>2 DEF UnionClasses
<1> HIDE DEF a, b
<1>6. CASE a < b
  <2>1. f = Merged(e, a, b)
    BY <1>5, <1>6
  <2>2. EGraphInv(f, g) /\ IsMerged(e, a, b, n, f)
    BY <2>1, <1>3, <1>4, <1>6, MergedInv, MergedFields
  <2> QED BY <2>2 DEF IsMerged, a, b
<1>7. CASE b < a
  <2>1. f = Merged(e, b, a)
    BY <1>3, <1>5, <1>7
  <2>2. EGraphInv(f, g) /\ IsMerged(e, b, a, n, f)
    BY <2>1, <1>3, <1>4, <1>7, MergedInv, MergedFields
  <2> QED BY <2>2 DEF IsMerged, a, b
<1>8. CASE ~(a < b) /\ ~(b < a)
  BY <1>5, <1>8
<1> QED BY <1>6, <1>7, <1>8

-----------------------------------------------------------------------------
(***************************************************************************)
(* What e-nodes denote.                                                    *)
(***************************************************************************)

\* The factors of a power, multiplied one after another.
PowerDef(a, d, power, k) == IF k = 0 THEN 1 ELSE a * power[k - 1]
PowerIsNat(a, d, power, k) == power[k] \in Nat

PowerRecursion == INSTANCE InductionRules WITH Def <- PowerDef, P <- PowerIsNat, Step <- NoStep, Inv <- NoInv

\* A power of residues is a natural number, and the square, which the rewrite
\* of pow(x, 2) relies on, is the product.
LEMMA PowerOfResidues ==
  ASSUME NEW a \in Nat, NEW b \in Nat
  PROVE  Power(a, b) \in Nat /\ Power(a, 2) = a * a
<1>1. ASSUME NEW n \in Nat
      PROVE  /\ Power(a, n) \in Nat
             /\ n = 2 => Power(a, n) = a * a
  <2> DEFINE r == CHOOSE f : f = [k \in 0 .. n |-> PowerDef(a, 0, f, k)]
  <2>1. /\ 0 \in Int /\ n \in Int
        /\ r = CHOOSE f : f = [k \in 0 .. n |-> PowerDef(a, 0, f, k)]
    OBVIOUS
  <2>2. Power(a, n) = r[n]
    BY DEF Power, PowerDef
  <2> HIDE DEF r
  <2>3. r = [k \in 0 .. n |-> PowerDef(a, 0, r, k)]
    <3>1. PowerRecursion!LookBack(a, 0, 0, n)
      <4> SUFFICES ASSUME NEW k \in 0 .. n, NEW f, NEW g, \A j \in 0 .. k - 1 : f[j] = g[j]
                   PROVE  PowerDef(a, 0, f, k) = PowerDef(a, 0, g, k)
        BY DEF PowerRecursion!LookBack
      <4> QED BY DEF PowerDef
    <3> QED BY <3>1, <2>1, PowerRecursion!RecursionEquation
  <2>4. \A k \in 0 .. n : r[k] = IF k = 0 THEN 1 ELSE a * r[k - 1]
    BY <2>3 DEF PowerDef
  <2>5. ASSUME NEW k \in 0 .. n, \A j \in 0 .. k - 1 : PowerIsNat(a, 0, r, j)
        PROVE  PowerIsNat(a, 0, r, k)
    <3>1. CASE k = 0
      BY <2>4, <3>1 DEF PowerIsNat
    <3>2. CASE k # 0
      <4>1. r[k] = a * r[k - 1] /\ r[k - 1] \in Nat
        BY <2>4, <2>5, <3>2 DEF PowerIsNat
      <4> QED BY <4>1 DEF PowerIsNat
    <3> QED BY <3>1, <3>2
  <2>6. \A k \in 0 .. n : PowerIsNat(a, 0, r, k)
    BY <2>1, <2>5, PowerRecursion!RecursionInduction
  <2>7. Power(a, n) \in Nat
    BY <2>2, <2>6 DEF PowerIsNat
  <2>8. ASSUME n = 2 PROVE Power(a, n) = a * a
    <3>1. r[0] = 1 /\ r[1] = a * r[0] /\ r[2] = a * r[1]
      BY <2>4, <2>8
    <3> QED BY <3>1, <2>2, <2>8
  <2> QED BY <2>7, <2>8
<1> QED BY <1>1

\* Every operation of evalScalar, and a reduction, gives a residue.
LEMMA DenoteIsResidue ==
  ASSUME NEW op \in OperationNames \ {"box"}, NEW attr \in Nat, NEW a \in Residues, NEW b \in Residues
  PROVE  Denote(op, attr, a, b, FALSE) \in Residues
<1>1. /\ Modulus \in Nat /\ Modulus > 1 /\ a \in Nat /\ b \in Nat
      /\ \A m \in Int : m % Modulus \in Residues
  BY ModulusAssumption DEF Residues
<1>2. CASE op = "reduce"
  BY <1>1, <1>2 DEF Denote
<1>3. CASE op = "div"
  <2>1. b # 0 => Inverted(b) \in Residues
    BY FieldAssumption DEF Inverted
  <2>2. b # 0 => (a * Inverted(b)) % Modulus \in Residues
    <3>1. b # 0 => Inverted(b) \in Nat
      BY <2>1 DEF Residues
    <3>2. b # 0 => a * Inverted(b) \in Int
      BY <3>1, <1>1
    <3> QED BY <3>2, <1>1
  <2>3. 0 \in Residues
    BY <1>1 DEF Residues
  <2> QED BY <1>3, <2>2, <2>3 DEF Denote, EvalScalar
<1>4. CASE op = "pow"
  <2>1. Power(a, b) \in Int
    BY <1>1, PowerOfResidues
  <2> QED BY <1>1, <1>4, <2>1 DEF Denote, EvalScalar
<1>5. CASE op \in {"add", "sub", "mul", "neg"}
  <2>1. a + b \in Int /\ a - b \in Int /\ a * b \in Int /\ -a \in Int
    BY <1>1
  <2> QED BY <1>1, <1>5, <2>1 DEF Denote, EvalScalar
<1>6. CASE op \in {"ffi", "lift", "matmul"}
  <2>1. 0 \in Residues
    BY <1>1 DEF Residues
  <2> QED BY <1>6, <2>1 DEF Denote, EvalScalar
<1> QED BY <1>2, <1>3, <1>4, <1>5, <1>6 DEF OperationNames

\* What e-node i of s denotes, when the input is x and den is what the e-nodes
\* before it denote.
DenDef(s, x, den, i) ==
  LET en == s[i]
      arg(k) == IF k \in DOMAIN en.children THEN den[en.children[k]] ELSE 0
  IN IF en.op = "box" THEN IF en.attr[1] = "constant" THEN en.attr[2] ELSE x
     ELSE Denote(en.op, en.attr[2], arg(1), arg(2), FALSE)

Den(s, x) == CHOOSE f : f = [i \in DOMAIN s |-> DenDef(s, x, f, i)]

\* ENodeDenotes looks at nothing but the e-nodes: not at who owns them.
LEMMA ENodeDenotesIsDen ==
  ASSUME NEW e, NEW x
  PROVE  ENodeDenotes(e, x, FALSE) = Den(e.enodes, x)
BY DEF ENodeDenotes, Den, DenDef

DenIsResidue(s, x, den, i) == den[i] \in Residues

DenRecursion == INSTANCE InductionRules WITH Def <- DenDef, P <- DenIsResidue, Step <- NoStep, Inv <- NoInv

\* An e-node denotes its operation on what its children denote, a residue.
LEMMA DenEquation ==
  ASSUME NEW s, ENodesOK(s), NEW x \in Residues
  PROVE  \A i \in 1 .. Len(s) : /\ Den(s, x)[i] = DenDef(s, x, Den(s, x), i)
                                /\ Den(s, x)[i] \in Residues
<1> DEFINE n == Len(s)
           den == Den(s, x)
<1>1. /\ DOMAIN s = 1 .. n /\ 1 \in Int /\ n \in Int /\ n \in Nat
      /\ \A i \in 1 .. n : /\ s[i] \in ENode
                           /\ DOMAIN s[i].children = 1 .. Len(s[i].children)
                           /\ \A k \in DOMAIN s[i].children : s[i].children[k] \in 1 .. i - 1
                           /\ s[i].op = "box" /\ s[i].attr[1] = "constant" => s[i].attr[2] \in Residues
  <2>1. s \in Seq(ENode) /\ n \in Nat
    BY DEF ENodesOK
  <2>2. ASSUME NEW i \in 1 .. n PROVE s[i] \in ENode /\ DOMAIN s[i].children = 1 .. Len(s[i].children)
    <3>1. s[i] \in ENode
      BY <2>1, ElementOfSeq
    <3>2. s[i].children \in Seq(Nat)
      BY <3>1 DEF ENode
    <3> QED BY <3>1, <3>2
  <2> QED BY <2>1, <2>2 DEF ENodesOK
<1>2. den = CHOOSE f : f = [i \in 1 .. n |-> DenDef(s, x, f, i)]
  BY <1>1 DEF Den
<1> HIDE DEF den, n
<1>3. den = [i \in 1 .. n |-> DenDef(s, x, den, i)]
  <2>1. DenRecursion!LookBack(s, x, 1, n)
    <3> SUFFICES ASSUME NEW i \in 1 .. n, NEW f, NEW g, \A j \in 1 .. i - 1 : f[j] = g[j]
                 PROVE  DenDef(s, x, f, i) = DenDef(s, x, g, i)
      BY DEF DenRecursion!LookBack
    <3>1. \A k \in DOMAIN s[i].children : f[s[i].children[k]] = g[s[i].children[k]]
      BY <1>1
    <3> QED BY <3>1 DEF DenDef
  <2> QED BY <1>1, <1>2, <2>1, DenRecursion!RecursionEquation
<1>4. \A i \in 1 .. n : den[i] = DenDef(s, x, den, i)
  BY <1>3
<1>5. ASSUME NEW i \in 1 .. n, \A j \in 1 .. i - 1 : DenIsResidue(s, x, den, j)
      PROVE  DenIsResidue(s, x, den, i)
  <2>1. DenDef(s, x, den, i) \in Residues
    <3> DEFINE arg(k) == IF k \in DOMAIN s[i].children THEN den[s[i].children[k]] ELSE 0
    <3>1. 0 \in Residues
      BY ModulusAssumption DEF Residues
    <3>2. \A k : arg(k) \in Residues
      BY <1>1, <1>5, <3>1 DEF DenIsResidue
    <3>3. s[i].op \in OperationNames /\ s[i].attr[2] \in Nat
      BY <1>1 DEF ENode, Attribute
    <3>4. CASE s[i].op = "box"
      BY <1>1, <3>4 DEF DenDef
    <3>5. CASE s[i].op # "box"
      <4>1. DenDef(s, x, den, i) = Denote(s[i].op, s[i].attr[2], arg(1), arg(2), FALSE)
        BY <3>5 DEF DenDef
      <4> HIDE DEF arg
      <4> QED BY <4>1, <3>2, <3>3, <3>5, DenoteIsResidue
    <3> QED BY <3>4, <3>5
  <2> QED BY <2>1, <1>4 DEF DenIsResidue
<1>6. \A i \in 1 .. n : DenIsResidue(s, x, den, i)
  BY <1>1, <1>5, DenRecursion!RecursionInduction
<1> QED BY <1>4, <1>6 DEF DenIsResidue, den, n

\* A new e-node leaves the denotations of the old ones alone.
DenKept(new, d, old, i) == old[i] = new[i]

DenKeptRecursion == INSTANCE InductionRules WITH Def <- DenDef, P <- DenKept, Step <- NoStep, Inv <- NoInv

\* A new e-node changes what no earlier one denotes.
LEMMA DenAppend ==
  ASSUME NEW s, ENodesOK(s), NEW en, ENodesOK(Append(s, en)), NEW x \in Residues
  PROVE  \A i \in 1 .. Len(s) : Den(Append(s, en), x)[i] = Den(s, x)[i]
<1> DEFINE t == Append(s, en)
           old == Den(s, x)
           new == Den(t, x)
           n == Len(s)
<1>1. /\ n \in Nat /\ 1 \in Int /\ n \in Int
      /\ Len(t) = n + 1 /\ \A i \in 1 .. n : t[i] = s[i] /\ i \in 1 .. Len(t)
  <2>1. s \in Seq(ENode)
    BY DEF ENodesOK
  <2>2. t \in Seq(ENode)
    BY DEF ENodesOK
  <2> QED BY <2>1, <2>2
<1>2. /\ \A i \in 1 .. n : old[i] = DenDef(s, x, old, i)
      /\ \A i \in 1 .. n : new[i] = DenDef(t, x, new, i)
  <2>1. \A i \in 1 .. Len(t) : new[i] = DenDef(t, x, new, i)
    BY DenEquation
  <2>2. \A i \in 1 .. n : old[i] = DenDef(s, x, old, i)
    BY DenEquation
  <2> HIDE DEF old, new, n, t
  <2> QED BY <2>1, <2>2, <1>1
<1>3. \A i \in 1 .. n : /\ DOMAIN s[i].children = 1 .. Len(s[i].children)
                        /\ \A k \in DOMAIN s[i].children : s[i].children[k] \in 1 .. i - 1
  <2> SUFFICES ASSUME NEW i \in 1 .. n
               PROVE  /\ DOMAIN s[i].children = 1 .. Len(s[i].children)
                      /\ \A k \in DOMAIN s[i].children : s[i].children[k] \in 1 .. i - 1
    OBVIOUS
  <2>1. s[i] \in ENode
    BY ElementOfSeq DEF ENodesOK
  <2>2. s[i].children \in Seq(Nat)
    BY <2>1 DEF ENode
  <2> QED BY <2>2 DEF ENodesOK
<1> HIDE DEF old, new, n, t
<1>4. ASSUME NEW i \in 1 .. n, \A j \in 1 .. i - 1 : DenKept(new, 0, old, j)
      PROVE  DenKept(new, 0, old, i)
  <2>1. \A k \in DOMAIN s[i].children : old[s[i].children[k]] = new[s[i].children[k]]
    BY <1>3, <1>4 DEF DenKept
  <2>2. t[i] = s[i]
    BY <1>1
  <2>3. DenDef(s, x, old, i) = DenDef(t, x, new, i)
    BY <2>1, <2>2 DEF DenDef
  <2> QED BY <2>3, <1>2 DEF DenKept
<1>5. \A i \in 1 .. n : DenKept(new, 0, old, i)
  BY <1>1, <1>4, DenKeptRecursion!RecursionInduction
<1> QED BY <1>5 DEF DenKept, old, new, n, t

-----------------------------------------------------------------------------
(***************************************************************************)
(* E-nodes of a class denote the same value.                               *)
(***************************************************************************)

\* The e-nodes of each class agree, for every input.
Agrees(e) ==
  \A x \in Residues : \A i \in 1 .. Len(e.enodes) : Den(e.enodes, x)[i] = Den(e.enodes, x)[e.class[i]]

SoundEGraph(e, g) == EGraphInv(e, g) /\ Agrees(e)

\* A union of two classes that denote the same value is sound.
LEMMA UnionSound ==
  ASSUME NEW e, NEW g, SoundEGraph(e, g), NEW n, n = Len(e.enodes),
         NEW a \in 1 .. n, NEW b \in 1 .. n,
         \A x \in Residues : Den(e.enodes, x)[a] = Den(e.enodes, x)[b],
         NEW f, f = UnionClasses(e, a, b)
  PROVE  SoundEGraph(f, g) /\ f.enodes = e.enodes
<1>1. /\ EGraphInv(f, g) /\ f.enodes = e.enodes
      /\ \A i \in 1 .. n : \/ f.class[i] = e.class[i]
                           \/ f.class[i] = e.class[a] /\ e.class[i] = e.class[b]
                           \/ f.class[i] = e.class[b] /\ e.class[i] = e.class[a]
  BY UnionInv DEF SoundEGraph
<1>2. ASSUME NEW x \in Residues, NEW i \in 1 .. n
      PROVE  Den(e.enodes, x)[i] = Den(e.enodes, x)[f.class[i]]
  <2> DEFINE den == Den(e.enodes, x)
  <2>1. /\ den[i] = den[e.class[i]] /\ den[a] = den[e.class[a]] /\ den[b] = den[e.class[b]]
        /\ den[a] = den[b]
    BY DEF SoundEGraph, Agrees
  <2> HIDE DEF den
  <2>2. den[i] = den[f.class[i]]
    BY <1>1, <2>1
  <2> QED BY <2>2 DEF den
<1>3. Agrees(f)
  BY <1>1, <1>2 DEF Agrees
<1> QED BY <1>1, <1>3 DEF SoundEGraph

-----------------------------------------------------------------------------
(***************************************************************************)
(* internENode.                                                            *)
(***************************************************************************)

\* An e-node whose children are among the first n classes.
ENodeOver(en, n) ==
  /\ en \in ENode
  /\ \A k \in 1 .. Len(en.children) : en.children[k] \in 1 .. n
  /\ en.op = "box" /\ en.attr[1] = "constant" => en.attr[2] \in Residues

\* Such an e-node may follow n others.
LEMMA ENodesAppend ==
  ASSUME NEW s, ENodesOK(s), NEW en, ENodeOver(en, Len(s))
  PROVE  /\ ENodesOK(Append(s, en)) /\ Len(Append(s, en)) = Len(s) + 1
         /\ \A i \in 1 .. Len(s) : Append(s, en)[i] = s[i]
         /\ Append(s, en)[Len(s) + 1] = en
<1> DEFINE t == Append(s, en)
<1>1. s \in Seq(ENode) /\ en \in ENode
  BY DEF ENodesOK, ENodeOver
<1>2. /\ t \in Seq(ENode) /\ Len(t) = Len(s) + 1 /\ Len(s) \in Nat
      /\ \A i \in 1 .. Len(s) : t[i] = s[i]
      /\ t[Len(s) + 1] = en
  BY <1>1
<1> HIDE DEF t
<1>3. ASSUME NEW i \in 1 .. Len(t)
      PROVE  /\ \A k \in 1 .. Len(t[i].children) : t[i].children[k] \in 1 .. i - 1
             /\ t[i].op = "box" /\ t[i].attr[1] = "constant" => t[i].attr[2] \in Residues
  <2>1. CASE i \in 1 .. Len(s)
    BY <1>2, <2>1 DEF ENodesOK
  <2>2. CASE i = Len(s) + 1
    BY <1>2, <2>2 DEF ENodeOver
  <2> QED BY <1>2, <2>1, <2>2
<1> QED BY <1>2, <1>3 DEF ENodesOK, t

\* f is e with a class of its own for the new e-node en, of n before.
IsExtended(e, en, n, f) ==
  /\ f = [enodes |-> Append(e.enodes, en), parent |-> Append(e.parent, n + 1),
          members |-> Append(e.members, <<n + 1>>), lookup |-> f.lookup,
          class |-> Append(e.class, n + 1), leaf |-> e.leaf, live |-> e.live + 1]
  /\ DOMAIN f.lookup = DOMAIN e.lookup \union {en}
  /\ f.lookup[en] = n + 1
  /\ \A k \in DOMAIN e.lookup : k # en => f.lookup[k] = e.lookup[k]

\* internENode either finds the e-node or makes a class for it.
LEMMA InternCases ==
  ASSUME NEW e, NEW g, EGraphInv(e, g), NEW en, NEW stale \in BOOLEAN, NEW f, f = Intern(e, en, stale)
  PROVE  \/ f = e /\ en \in DOMAIN e.lookup
         \/ IsExtended(e, en, Len(e.enodes), f)
<1>1. CASE Known(e, en, stale)
  BY <1>1 DEF Intern, Known
<1>2. CASE ~Known(e, en, stale)
  <2> DEFINE c == Len(e.enodes) + 1
             table == [k \in DOMAIN e.lookup \union {en} |-> IF k = en THEN c ELSE e.lookup[k]]
  <2>1. e = [enodes |-> e.enodes, parent |-> e.parent, members |-> e.members, lookup |-> e.lookup,
             class |-> e.class, leaf |-> e.leaf, live |-> e.live]
    BY DEF EGraphInv
  <2>2. f = [e EXCEPT !.enodes = Append(e.enodes, en), !.parent = Append(e.parent, c),
                      !.members = Append(e.members, <<c>>), !.class = Append(e.class, c),
                      !.lookup = table, !.live = e.live + 1]
    BY <1>2 DEF Intern
  <2>3. /\ DOMAIN table = DOMAIN e.lookup \union {en} /\ table[en] = c
        /\ \A k \in DOMAIN e.lookup : k # en => table[k] = e.lookup[k]
    OBVIOUS
  <2> HIDE DEF table
  <2>4. f = [enodes |-> Append(e.enodes, en), parent |-> Append(e.parent, c),
             members |-> Append(e.members, <<c>>), lookup |-> table,
             class |-> Append(e.class, c), leaf |-> e.leaf, live |-> e.live + 1]
    BY <2>1, <2>2
  <2> QED BY <2>3, <2>4 DEF IsExtended
<1> QED BY <1>1, <1>2, SMTT(30)

\* A table and the element appended to it.
LEMMA SeqAppend ==
  ASSUME NEW S, NEW s \in Seq(S), NEW v \in S, NEW n, n = Len(s), NEW t, t = Append(s, v)
  PROVE  /\ t \in Seq(S) /\ Len(t) = n + 1 /\ t[n + 1] = v
         /\ \A i \in 1 .. n : t[i] = s[i]
OBVIOUS

\* A new class keeps the tables in agreement.
LEMMA ExtendedInv ==
  ASSUME NEW e, NEW g, EGraphInv(e, g), NEW n, n = Len(e.enodes), n < MaxENodes,
         NEW en, ENodeOver(en, n), NEW f, IsExtended(e, en, n, f)
  PROVE  EGraphInv(f, g)
<1>1. /\ n \in Nat /\ MaxENodes \in Nat
      /\ e.parent \in Seq(Nat) /\ Len(e.parent) = n
      /\ e.class \in Seq(Nat) /\ Len(e.class) = n
      /\ e.members \in Seq(Seq(Nat)) /\ Len(e.members) = n
  BY EGraphBoundsAssumption DEF EGraphInv, ForestOK, MembersOK, ENodesOK
<1>2. /\ f = [enodes |-> f.enodes, parent |-> f.parent, members |-> f.members, lookup |-> f.lookup,
              class |-> f.class, leaf |-> f.leaf, live |-> f.live]
      /\ f.enodes = Append(e.enodes, en) /\ f.parent = Append(e.parent, n + 1)
      /\ f.members = Append(e.members, <<n + 1>>) /\ f.class = Append(e.class, n + 1)
      /\ f.leaf = e.leaf /\ f.live = e.live + 1
  BY DEF IsExtended
<1>3. /\ ENodesOK(f.enodes) /\ Len(f.enodes) = n + 1
      /\ \A i \in 1 .. n : f.enodes[i] = e.enodes[i]
      /\ f.enodes[n + 1] = en
  BY <1>2, ENodesAppend DEF EGraphInv
<1>4. /\ f.parent \in Seq(Nat) /\ Len(f.parent) = n + 1 /\ f.parent[n + 1] = n + 1
      /\ \A i \in 1 .. n : f.parent[i] = e.parent[i]
  BY <1>1, <1>2, SeqAppend
<1>5. /\ f.class \in Seq(Nat) /\ Len(f.class) = n + 1 /\ f.class[n + 1] = n + 1
      /\ \A i \in 1 .. n : f.class[i] = e.class[i]
  BY <1>1, <1>2, SeqAppend, SMTT(30)
<1>6. /\ f.members \in Seq(Seq(Nat)) /\ Len(f.members) = n + 1 /\ f.members[n + 1] = <<n + 1>>
      /\ \A i \in 1 .. n : f.members[i] = e.members[i]
  <2>1. <<n + 1>> \in Seq(Nat)
    BY <1>1
  <2> QED BY <1>1, <1>2, <2>1, SeqAppend, SMTT(30)
<1>7. \A c \in 1 .. n + 1 : c \in 1 .. n \/ c = n + 1
  BY <1>1
<1>8. ForestOK(f, n + 1)
  <2>1. ASSUME NEW c \in 1 .. n + 1
        PROVE  /\ f.parent[c] \in 1 .. c /\ f.class[c] \in 1 .. n + 1
               /\ f.class[f.parent[c]] = f.class[c]
               /\ f.parent[f.class[c]] = f.class[c]
               /\ f.parent[c] = c => f.class[c] = c
    <3>1. CASE c = n + 1
      BY <1>1, <1>4, <1>5, <3>1
    <3>2. CASE c \in 1 .. n
      <4>1. /\ e.parent[c] \in 1 .. c /\ e.class[c] \in 1 .. n
            /\ e.class[e.parent[c]] = e.class[c]
            /\ e.parent[e.class[c]] = e.class[c]
            /\ e.parent[c] = c => e.class[c] = c
        BY <3>2 DEF EGraphInv, ForestOK
      <4>2. e.parent[c] \in 1 .. n
        <5>1. n \in Nat /\ e.parent[c] \in 1 .. c
          BY <1>1, <4>1
        <5> QED BY <3>2, <5>1
      <4>3. f.parent[c] = e.parent[c] /\ f.class[c] = e.class[c]
        BY <1>4, <1>5, <3>2
      <4>4. f.class[e.parent[c]] = e.class[e.parent[c]] /\ f.parent[e.class[c]] = e.parent[e.class[c]]
        BY <1>4, <1>5, <4>1, <4>2
      <4>5. f.class[c] \in 1 .. n + 1
        BY <1>1, <4>1, <4>3, SMTT(30)
      <4> QED BY <4>1, <4>3, <4>4, <4>5
    <3> QED BY <1>7, <3>1, <3>2
  <2> QED BY <1>4, <1>5, <2>1 DEF ForestOK
<1>9. MembersOK(f, n + 1)
  <2>1. ASSUME NEW c \in 1 .. n + 1
        PROVE  ToSet(f.members[c]) = {i \in 1 .. n + 1 : f.class[i] = c}
    <3>1. CASE c = n + 1
      <4>1. ToSet(f.members[c]) = {n + 1}
        BY <1>6, <3>1 DEF ToSet
      <4>2. \A i \in 1 .. n : f.class[i] # n + 1
        <5>1. \A i \in 1 .. n : e.class[i] \in 1 .. n
          BY DEF EGraphInv, ForestOK
        <5> QED BY <1>1, <1>5, <5>1
      <4>3. {i \in 1 .. n + 1 : f.class[i] = c} = {n + 1}
        BY <1>1, <1>5, <1>7, <3>1, <4>2
      <4> QED BY <4>1, <4>3
    <3>2. CASE c \in 1 .. n
      <4>1. ToSet(f.members[c]) = {i \in 1 .. n : e.class[i] = c}
        BY <1>6, <3>2 DEF EGraphInv, MembersOK
      <4>2. {i \in 1 .. n + 1 : f.class[i] = c} = {i \in 1 .. n : e.class[i] = c}
        <5>1. n + 1 # c /\ \A i \in 1 .. n : i \in 1 .. n + 1
          BY <1>1, <3>2, SMTT(30)
        <5>2. \A i \in 1 .. n + 1 : f.class[i] = c => i \in 1 .. n /\ e.class[i] = c
          BY <1>5, <1>7, <5>1
        <5>3. \A i \in 1 .. n : e.class[i] = c => i \in 1 .. n + 1 /\ f.class[i] = c
          BY <1>5, <5>1
        <5> QED BY <5>2, <5>3
      <4> QED BY <4>1, <4>2
    <3> QED BY <1>7, <3>1, <3>2
  <2> QED BY <1>6, <2>1 DEF MembersOK
<1>10. LookupOK(f, n + 1)
  <2>1. ASSUME NEW k \in DOMAIN f.lookup
        PROVE  /\ f.lookup[k] \in 1 .. n + 1
               /\ \E i \in 1 .. n + 1 : f.enodes[i] = k /\ f.class[i] = f.class[f.lookup[k]]
    <3>1. CASE k = en
      <4>1. f.lookup[k] = n + 1 /\ n + 1 \in 1 .. n + 1
        BY <1>1, <3>1 DEF IsExtended
      <4> QED BY <1>3, <3>1, <4>1
    <3>2. CASE k # en
      <4>1. k \in DOMAIN e.lookup /\ f.lookup[k] = e.lookup[k]
        BY <3>2 DEF IsExtended
      <4>2. PICK i \in 1 .. n : e.enodes[i] = k /\ e.class[i] = e.class[e.lookup[k]]
        BY <4>1 DEF EGraphInv, LookupOK
      <4>3. e.lookup[k] \in 1 .. n
        BY <4>1 DEF EGraphInv, LookupOK
      <4>4. f.enodes[i] = k /\ f.class[i] = f.class[f.lookup[k]]
        BY <1>3, <1>5, <4>1, <4>2, <4>3
      <4>5. i \in 1 .. n + 1 /\ f.lookup[k] \in 1 .. n + 1
        BY <1>1, <4>1, <4>3, SMTT(30)
      <4> QED BY <4>4, <4>5
    <3> QED BY <3>1, <3>2
  <2> QED BY <2>1 DEF LookupOK
<1>11. LeafOK(f, g, n + 1)
  <2>1. ASSUME NEW c \in DOMAIN e.leaf
        PROVE  /\ c \in 1 .. n + 1 /\ e.leaf[c] \in DOMAIN g.values
               /\ g.values[e.leaf[c]].kind # "result"
               /\ f.enodes[c] = LeafENode(g, e.leaf[c])
    <3>1. /\ c \in 1 .. n /\ e.leaf[c] \in DOMAIN g.values
          /\ g.values[e.leaf[c]].kind # "result"
          /\ e.enodes[c] = LeafENode(g, e.leaf[c])
      BY DEF EGraphInv, LeafOK
    <3>2. c \in 1 .. n + 1
      BY <1>1, <3>1
    <3> QED BY <1>3, <3>1, <3>2
  <2> QED BY <1>2, <2>1 DEF LeafOK
<1>12. f.live = Cardinality(Roots(f))
  <2>1. DOMAIN e.parent = 1 .. n /\ DOMAIN f.parent = 1 .. n + 1
    BY <1>1, <1>4
  <2>2. Roots(f) = Roots(e) \union {n + 1}
    <3>1. n + 1 \in 1 .. n + 1 /\ \A c \in 1 .. n : c \in 1 .. n + 1
      BY <1>1
    <3>2. Roots(e) = {c \in 1 .. n : e.parent[c] = c} /\ Roots(f) = {c \in 1 .. n + 1 : f.parent[c] = c}
      BY <2>1 DEF Roots, Classes
    <3>3. \A c \in Roots(f) : c \in Roots(e) \/ c = n + 1
      BY <1>4, <1>7, <3>2
    <3>4. n + 1 \in Roots(f) /\ \A c \in Roots(e) : c \in Roots(f)
      BY <1>4, <3>1, <3>2
    <3> QED BY <3>3, <3>4
  <2>3. Roots(e) \in SUBSET (1 .. n) /\ n + 1 \notin Roots(e)
    BY <1>1, <2>1 DEF Roots, Classes
  <2>4. IsFiniteSet(Roots(e))
    <3>1. IsFiniteSet(1 .. n)
      BY <1>1, 1 \in Int, n \in Int, FS_Interval
    <3> QED BY <2>3, <3>1, FS_Subset
  <2>5. Cardinality(Roots(e) \union {n + 1}) = Cardinality(Roots(e)) + 1
    BY <2>3, <2>4, FS_AddElement
  <2> QED BY <1>2, <2>2, <2>5 DEF EGraphInv
<1> QED BY <1>1, <1>2, <1>3, <1>8, <1>9, <1>10, <1>11, <1>12 DEF EGraphInv

\* f is e, or e with en appended: old e-nodes are where they were and denote
\* what they did.
Extends(e, en, f) ==
  /\ f.enodes = e.enodes \/ f.enodes = Append(e.enodes, en)
  /\ Len(e.enodes) <= Len(f.enodes)
  /\ \A i \in 1 .. Len(e.enodes) : f.enodes[i] = e.enodes[i] /\ f.class[i] = e.class[i]
  /\ \A x \in Residues : \A i \in 1 .. Len(e.enodes) : Den(f.enodes, x)[i] = Den(e.enodes, x)[i]

\* The table then names the class of an e-node equal to en.
Interned(e, en) ==
  /\ en \in DOMAIN e.lookup /\ e.lookup[en] \in 1 .. Len(e.enodes)
  /\ \E i \in 1 .. Len(e.enodes) : e.enodes[i] = en /\ e.class[i] = e.class[e.lookup[en]]

\* internENode keeps the e-graph sound, also when the table names a class that
\* a union has emptied: at worst it makes a second class for the e-node.
LEMMA InternSound ==
  ASSUME NEW e, NEW g, SoundEGraph(e, g), ~Refused(e),
         NEW en, ENodeOver(en, Len(e.enodes)), NEW stale \in BOOLEAN, NEW f, f = Intern(e, en, stale)
  PROVE  SoundEGraph(f, g) /\ Extends(e, en, f) /\ Interned(f, en)
<1> DEFINE n == Len(e.enodes)
<1>1. n \in Nat /\ n < MaxENodes
  BY EGraphBoundsAssumption DEF SoundEGraph, EGraphInv, ENodesOK, Refused
<1>2. CASE f = e /\ en \in DOMAIN e.lookup
  <2>1. Extends(e, en, f)
    BY <1>1, <1>2 DEF Extends
  <2>2. Interned(f, en)
    BY <1>2 DEF Interned, SoundEGraph, EGraphInv, LookupOK
  <2> QED BY <1>2, <2>1, <2>2
<1>3. CASE IsExtended(e, en, n, f)
  <2>1. EGraphInv(f, g)
    BY <1>1, <1>3, ExtendedInv DEF SoundEGraph
  <2>2. /\ f.enodes = Append(e.enodes, en) /\ f.class = Append(e.class, n + 1)
        /\ DOMAIN f.lookup = DOMAIN e.lookup \union {en}
    BY <1>3 DEF IsExtended
  <2>3. /\ ENodesOK(e.enodes) /\ ENodesOK(f.enodes) /\ Len(f.enodes) = n + 1
        /\ \A i \in 1 .. n : f.enodes[i] = e.enodes[i]
    BY <2>2, ENodesAppend DEF SoundEGraph, EGraphInv
  <2>4. f.class[n + 1] = n + 1 /\ \A i \in 1 .. n : f.class[i] = e.class[i]
    <3>1. e.class \in Seq(Nat) /\ Len(e.class) = n /\ n + 1 \in Nat
      BY <1>1 DEF SoundEGraph, EGraphInv, ForestOK
    <3> QED BY <2>2, <3>1, SeqAppend
  <2>5. \A x \in Residues : \A i \in 1 .. n : Den(f.enodes, x)[i] = Den(e.enodes, x)[i]
    BY <2>2, <2>3, DenAppend
  <2>6. Extends(e, en, f)
    <3>1. Len(e.enodes) <= Len(f.enodes)
      BY <1>1, <2>3
    <3> QED BY <2>2, <2>3, <2>4, <2>5, <3>1 DEF Extends
  <2>7. Interned(f, en)
    BY <2>1, <2>2 DEF Interned, EGraphInv, LookupOK
  <2>8. ASSUME NEW x \in Residues, NEW i \in 1 .. n + 1
        PROVE  Den(f.enodes, x)[i] = Den(f.enodes, x)[f.class[i]]
    <3>1. CASE i = n + 1
      BY <2>4, <3>1
    <3>2. CASE i \in 1 .. n
      <4>1. e.class[i] \in 1 .. n
        BY <3>2 DEF SoundEGraph, EGraphInv, ForestOK
      <4>2. Den(e.enodes, x)[i] = Den(e.enodes, x)[e.class[i]]
        BY <3>2 DEF SoundEGraph, Agrees
      <4>3. /\ Den(f.enodes, x)[i] = Den(e.enodes, x)[i]
            /\ Den(f.enodes, x)[e.class[i]] = Den(e.enodes, x)[e.class[i]]
        BY <2>5, <3>2, <4>1
      <4>4. f.class[i] = e.class[i]
        BY <2>4, <3>2
      <4> QED BY <4>2, <4>3, <4>4
    <3> QED BY <1>1, <3>1, <3>2
  <2>9. Agrees(f)
    BY <2>3, <2>8 DEF Agrees
  <2> QED BY <2>1, <2>6, <2>7, <2>9 DEF SoundEGraph
<1>4. (f = e /\ en \in DOMAIN e.lookup) \/ IsExtended(e, en, n, f)
  BY InternCases DEF SoundEGraph
<1> QED BY <1>2, <1>3, <1>4

-----------------------------------------------------------------------------
(***************************************************************************)
(* The rules of saturateOnce.                                              *)
(***************************************************************************)

\* The class of a leaf with a constant denotes the constant.
LEMMA ConstantDenotes ==
  ASSUME NEW e, NEW g, EGraphInv(e, g), NEW c, NEW payload, IsConst(e, g, c, payload), NEW x \in Residues
  PROVE  c \in 1 .. Len(e.enodes) /\ Den(e.enodes, x)[c] = payload
<1>1. /\ c \in 1 .. Len(e.enodes)
      /\ e.enodes[c] = LeafENode(g, e.leaf[c])
      /\ g.values[e.leaf[c]].kind = "constant" /\ g.values[e.leaf[c]].payload = payload
  BY DEF EGraphInv, LeafOK, IsConst
<1>2. e.enodes[c].op = "box" /\ e.enodes[c].attr = <<"constant", payload>>
  BY <1>1 DEF LeafENode
<1>3. Den(e.enodes, x)[c] = DenDef(e.enodes, x, Den(e.enodes, x), c)
  BY <1>1, DenEquation DEF EGraphInv
<1> HIDE <1>1
<1>4. DenDef(e.enodes, x, Den(e.enodes, x), c) = payload
  BY <1>2 DEF DenDef
<1> QED BY <1>1, <1>3, <1>4

\* A node of two operands denotes its operation on what their classes denote.
LEMMA BinaryDenotes ==
  ASSUME NEW e, NEW g, SoundEGraph(e, g), NEW i \in 1 .. Len(e.enodes),
         Len(e.enodes[i].children) = 2, NEW x \in Residues
  PROVE  /\ Left(e, i) \in 1 .. Len(e.enodes) /\ Right(e, i) \in 1 .. Len(e.enodes)
         /\ Den(e.enodes, x)[Left(e, i)] \in Residues /\ Den(e.enodes, x)[Right(e, i)] \in Residues
         /\ e.enodes[i].op # "box" =>
              Den(e.enodes, x)[i] = Denote(e.enodes[i].op, e.enodes[i].attr[2],
                                           Den(e.enodes, x)[Left(e, i)], Den(e.enodes, x)[Right(e, i)], FALSE)
<1> DEFINE n == Len(e.enodes)
           den == Den(e.enodes, x)
           l == e.enodes[i].children[1]
           r == e.enodes[i].children[2]
<1>1. EGraphInv(e, g) /\ ENodesOK(e.enodes) /\ ForestOK(e, n) /\ n \in Nat
  BY DEF SoundEGraph, EGraphInv, ENodesOK
<1>2. l \in 1 .. n /\ r \in 1 .. n
  <2>1. l \in 1 .. i - 1 /\ r \in 1 .. i - 1
    BY <1>1 DEF ENodesOK
  <2> QED BY <1>1, <2>1
<1>3. Left(e, i) = e.class[l] /\ Right(e, i) = e.class[r]
  BY <1>1, <1>2, FindIsOwner, SMTT(30) DEF Left, Right
<1>4. e.class[l] \in 1 .. n /\ e.class[r] \in 1 .. n
  BY <1>1, <1>2 DEF ForestOK
<1>5. den[l] = den[e.class[l]] /\ den[r] = den[e.class[r]]
  BY <1>2 DEF SoundEGraph, Agrees
<1>6. den[e.class[l]] \in Residues /\ den[e.class[r]] \in Residues
  BY <1>1, <1>4, DenEquation
<1>7. DOMAIN e.enodes[i].children = 1 .. 2
  <2>1. e.enodes[i] \in ENode
    BY <1>1, ElementOfSeq DEF ENodesOK
  <2>2. e.enodes[i].children \in Seq(Nat)
    BY <2>1 DEF ENode
  <2> QED BY <2>2
<1>8. den[i] = DenDef(e.enodes, x, den, i)
  BY <1>1, DenEquation
<1>9. e.enodes[i].op # "box" =>
        DenDef(e.enodes, x, den, i) = Denote(e.enodes[i].op, e.enodes[i].attr[2], den[l], den[r], FALSE)
  <2> HIDE DEF den
  <2> QED BY <1>7 DEF DenDef
<1> HIDE DEF den, l, r
<1>10. e.enodes[i].op # "box" =>
         den[i] = Denote(e.enodes[i].op, e.enodes[i].attr[2], den[Left(e, i)], den[Right(e, i)], FALSE)
  BY <1>3, <1>5, <1>8, <1>9
<1> QED BY <1>3, <1>4, <1>6, <1>10 DEF den

\* 0 + b, b + 0, 1 * b and b * 1.
LEMMA UnitIsNeutral ==
  ASSUME NEW op \in {"add", "mul"}, NEW attr, NEW b \in Residues
  PROVE  Denote(op, attr, Unit(op), b, FALSE) = b /\ Denote(op, attr, b, Unit(op), FALSE) = b
<1>1. /\ b \in Int /\ b + 0 = b /\ 0 + b = b /\ b * 1 = b /\ 1 * b = b
      /\ b % Modulus = b
  BY ModulusAssumption DEF Residues
<1>2. CASE op = "add"
  BY <1>1, <1>2 DEF Denote, EvalScalar, Unit
<1>3. CASE op = "mul"
  BY <1>1, <1>3 DEF Denote, EvalScalar, Unit
<1> QED BY <1>2, <1>3

\* The identity rules unite a node with an operand that it equals.
LEMMA IdentitySound ==
  ASSUME NEW e, NEW g, SoundEGraph(e, g), NEW i \in 1 .. Len(e.enodes),
         Len(e.enodes[i].children) = 2, NEW f, f = ApplyIdentity(e, g, i)
  PROVE  SoundEGraph(f, g) /\ f.enodes = e.enodes
<1> DEFINE n == Len(e.enodes)
           op == e.enodes[i].op
           l == Left(e, i)
           r == Right(e, i)
<1>1. EGraphInv(e, g) /\ ForestOK(e, n) /\ e.class[i] \in 1 .. n
  BY DEF SoundEGraph, EGraphInv, ForestOK
<1>2. Modulus > 1 /\ Modulus \in Nat /\ 0 \in Residues
  BY ModulusAssumption DEF Residues
<1>3. l \in 1 .. n /\ r \in 1 .. n
  BY <1>2, BinaryDenotes
<1>4. ASSUME op \in {"add", "mul"}, NEW c, NEW d, IsConst(e, g, c, Unit(op)),
             <<c, d>> = <<l, r>> \/ <<c, d>> = <<r, l>>
      PROVE  \A x \in Residues : Den(e.enodes, x)[e.class[i]] = Den(e.enodes, x)[d]
  <2> SUFFICES ASSUME NEW x \in Residues
               PROVE  Den(e.enodes, x)[e.class[i]] = Den(e.enodes, x)[d]
    OBVIOUS
  <2> DEFINE den == Den(e.enodes, x)
             attr == e.enodes[i].attr[2]
  <2>1. den[c] = Unit(op)
    BY <1>1, <1>4, ConstantDenotes
  <2>2. den[i] = Denote(op, attr, den[l], den[r], FALSE) /\ den[l] \in Residues /\ den[r] \in Residues
    BY <1>4, BinaryDenotes
  <2>3. den[i] = den[e.class[i]]
    BY DEF SoundEGraph, Agrees
  <2> HIDE DEF den, attr, op, l, r
  <2>4. /\ Denote(op, attr, Unit(op), den[d], FALSE) = den[d]
        /\ Denote(op, attr, den[d], Unit(op), FALSE) = den[d]
    <3>1. den[d] \in Residues
      BY <1>4, <2>2
    <3> QED BY <1>4, <3>1, UnitIsNeutral
  <2>5. den[i] = den[d]
    BY <1>4, <2>1, <2>2, <2>4
  <2> QED BY <2>3, <2>5 DEF den
<1>5. CASE op \notin {"add", "mul"}
  BY <1>5 DEF ApplyIdentity
<1>6. CASE op \in {"add", "mul"} /\ IsConst(e, g, l, Unit(op))
  <2>1. f = UnionClasses(e, e.class[i], r)
    BY <1>6 DEF ApplyIdentity
  <2>2. \A x \in Residues : Den(e.enodes, x)[e.class[i]] = Den(e.enodes, x)[r]
    BY <1>4, <1>6, Zenon
  <2> HIDE DEF r
  <2> QED BY <1>1, <1>3, <2>1, <2>2, UnionSound
<1>7. CASE op \in {"add", "mul"} /\ ~IsConst(e, g, l, Unit(op)) /\ IsConst(e, g, r, Unit(op))
  <2>1. f = UnionClasses(e, e.class[i], l)
    BY <1>7 DEF ApplyIdentity
  <2>2. \A x \in Residues : Den(e.enodes, x)[e.class[i]] = Den(e.enodes, x)[l]
    BY <1>4, <1>7, Zenon
  <2> HIDE DEF l
  <2> QED BY <1>1, <1>3, <2>1, <2>2, UnionSound, SMTT(30)
<1>8. CASE op \in {"add", "mul"} /\ ~IsConst(e, g, l, Unit(op)) /\ ~IsConst(e, g, r, Unit(op))
  BY <1>8 DEF ApplyIdentity
<1> QED BY <1>5, <1>6, <1>7, <1>8

\* The square rule unites pow(x, 2) with mul(x, x).
LEMMA SquareSound ==
  ASSUME NEW e, NEW g, SoundEGraph(e, g), ~Refused(e), NEW i \in 1 .. Len(e.enodes),
         Len(e.enodes[i].children) = 2, SquareApplies(e, g, i),
         NEW stale \in BOOLEAN, NEW f, f = ApplySquare(e, i, stale)
  PROVE  SoundEGraph(f, g) /\ Len(e.enodes) <= Len(f.enodes)
<1> DEFINE n == Len(e.enodes)
           l == Left(e, i)
           r == Right(e, i)
           en == Square(e, i)
           h == Intern(e, en, stale)
<1>1. n \in Nat /\ Modulus \in Nat /\ Modulus > 1 /\ 0 \in Residues
  BY ModulusAssumption DEF SoundEGraph, EGraphInv, ENodesOK, Residues
<1>2. l \in 1 .. n /\ r \in 1 .. n
  BY <1>1, BinaryDenotes
<1>3. en.op = "mul" /\ en.children = <<l, l>> /\ en.attr = <<"attr", 0>>
  BY DEF Square
<1>4. ENodeOver(en, n)
  <2>1. l \in Nat
    BY <1>1, <1>2
  <2>2. en \in ENode
    <3>1. <<l, l>> \in Seq(Nat)
      <4> HIDE DEF l
      <4> QED BY <2>1
    <3>2. <<"attr", 0>> \in Attribute /\ "mul" \in OperationNames
      BY DEF OperationNames, Attribute
    <3>3. en = [op |-> "mul", attr |-> <<"attr", 0>>, children |-> <<l, l>>]
      BY DEF Square
    <3> HIDE DEF en, l
    <3> QED BY <3>1, <3>3, <3>2 DEF ENode
  <2> HIDE DEF en, l
  <2> QED BY <1>2, <1>3, <2>2 DEF ENodeOver
<1>5. f = UnionClasses(h, h.class[i], h.lookup[en])
  BY DEF ApplySquare, InternedClass
<1>6. SoundEGraph(h, g) /\ Extends(e, en, h) /\ Interned(h, en)
  <2> HIDE DEF en, n
  <2>1. ENodeOver(en, Len(e.enodes))
    BY <1>4 DEF n
  <2> QED BY <2>1, InternSound
<1>7. i \in 1 .. Len(h.enodes) /\ l \in 1 .. Len(h.enodes) /\ n <= Len(h.enodes)
  <2>1. n <= Len(h.enodes) /\ Len(h.enodes) \in Nat
    BY <1>6 DEF Extends, SoundEGraph, EGraphInv, ENodesOK
  <2> HIDE DEF h, l
  <2> QED BY <1>1, <1>2, <2>1
<1> HIDE DEF h, en, l, r
<1>8. h.class[i] \in 1 .. Len(h.enodes) /\ h.lookup[en] \in 1 .. Len(h.enodes)
  BY <1>6, <1>7 DEF Interned, SoundEGraph, EGraphInv, ForestOK
<1>9. ASSUME NEW x \in Residues
      PROVE  Den(h.enodes, x)[h.class[i]] = Den(h.enodes, x)[h.lookup[en]]
  <2> DEFINE den == Den(e.enodes, x)
             new == Den(h.enodes, x)
  <2>1. den[i] = Denote("pow", e.enodes[i].attr[2], den[l], den[r], FALSE) /\ den[l] \in Residues
    <3>1. e.enodes[i].op = "pow"
      BY DEF SquareApplies
    <3>2. e.enodes[i].op # "box"
      BY <3>1
    <3>3. /\ den[i] = Denote(e.enodes[i].op, e.enodes[i].attr[2], den[Left(e, i)], den[Right(e, i)], FALSE)
          /\ den[Left(e, i)] \in Residues
      BY <3>2, BinaryDenotes
    <3> QED BY <3>1, <3>3 DEF l, r
  <2>2. den[r] = 2
    BY ConstantDenotes DEF SquareApplies, SoundEGraph, r
  <2>3. new[i] = den[i] /\ new[l] = den[l]
    BY <1>2, <1>6 DEF Extends
  <2>4. PICK j \in 1 .. Len(h.enodes) : h.enodes[j] = en /\ h.class[j] = h.class[h.lookup[en]]
    BY <1>6 DEF Interned
  <2>5. new[j] = DenDef(h.enodes, x, new, j)
    BY <1>6, DenEquation DEF SoundEGraph, EGraphInv
  <2>6. new[i] = new[h.class[i]] /\ new[j] = new[h.class[j]] /\ new[h.lookup[en]] = new[h.class[h.lookup[en]]]
    BY <1>6, <1>7, <1>8 DEF SoundEGraph, Agrees
  <2> HIDE DEF new, den
  <2>7. DenDef(h.enodes, x, new, j) = Denote("mul", 0, new[l], new[l], FALSE)
    <3>1. h.enodes[j].op = "mul" /\ h.enodes[j].children = <<l, l>> /\ h.enodes[j].attr[2] = 0
      BY <1>3, <2>4
    <3>2. DOMAIN <<l, l>> = 1 .. 2 /\ <<l, l>>[1] = l /\ <<l, l>>[2] = l
      OBVIOUS
    <3>3. 1 \in DOMAIN h.enodes[j].children /\ 2 \in DOMAIN h.enodes[j].children
      BY <3>1, <3>2
    <3>4. h.enodes[j].children[1] = l /\ h.enodes[j].children[2] = l
      BY <3>1, <3>2
    <3> QED BY <3>1, <3>3, <3>4 DEF DenDef
  <2>8. Denote("mul", 0, new[l], new[l], FALSE) = (new[l] * new[l]) % Modulus
    BY DEF Denote, EvalScalar
  <2>9. Denote("pow", e.enodes[i].attr[2], den[l], 2, FALSE) = Power(den[l], 2) % Modulus
    BY DEF Denote, EvalScalar
  <2>10. Power(den[l], 2) = den[l] * den[l]
    <3>1. den[l] \in Nat
      BY <2>1, <1>1 DEF Residues
    <3> QED BY <3>1, PowerOfResidues
  <2>11. new[i] = new[j]
    BY <2>1, <2>2, <2>3, <2>5, <2>7, <2>8, <2>9, <2>10
  <2> QED BY <2>4, <2>6, <2>11 DEF new
<1>10. SoundEGraph(f, g) /\ f.enodes = h.enodes
  BY <1>5, <1>6, <1>8, <1>9, UnionSound, SMTT(30)
<1> QED BY <1>7, <1>10

\* One turn of the loop of saturateOnce keeps the e-graph sound.
LEMMA VisitedSound ==
  ASSUME NEW e, NEW g, SoundEGraph(e, g), ~Refused(e), NEW i \in 1 .. Len(e.enodes),
         NEW stale \in BOOLEAN, NEW f, f = VisitedENode(e, g, i, stale)
  PROVE  SoundEGraph(f, g) /\ Len(e.enodes) <= Len(f.enodes)
<1> DEFINE h == ApplyIdentity(e, g, i)
<1>1. Len(e.enodes) \in Nat
  BY DEF SoundEGraph, EGraphInv, ENodesOK
<1>2. CASE Len(e.enodes[i].children) # 2
  BY <1>1, <1>2 DEF VisitedENode
<1>3. CASE Len(e.enodes[i].children) = 2 /\ ~SquareApplies(e, g, i)
  <2>1. f = h
    BY <1>3 DEF VisitedENode
  <2>2. SoundEGraph(h, g) /\ h.enodes = e.enodes
    BY <1>3, IdentitySound
  <2> QED BY <1>1, <2>1, <2>2
<1>4. CASE Len(e.enodes[i].children) = 2 /\ SquareApplies(e, g, i)
  <2>1. h = e
    BY <1>4 DEF ApplyIdentity, SquareApplies
  <2>2. f = ApplySquare(e, i, stale)
    BY <1>4, <2>1 DEF VisitedENode
  <2> QED BY <1>4, <2>2, SquareSound
<1> QED BY <1>2, <1>3, <1>4

-----------------------------------------------------------------------------
(***************************************************************************)
(* rebuildLookup.                                                          *)
(***************************************************************************)

\* The loop that lists the members of the canonical classes.
EntriesStep(e, list, c) == list \o e.members[Find(e, c)]
EntriesAre(ids, list, k) == list \in Seq(ids)

EntriesFold == INSTANCE InductionRules WITH Step <- EntriesStep, Inv <- EntriesAre, Def <- NoDef, P <- NoP

\* The rebuild visits e-nodes of the e-graph and nothing else.
LEMMA EntriesAreENodes ==
  ASSUME NEW e, NEW n \in Nat, ForestOK(e, n), MembersOK(e, n)
  PROVE  Entries(e) \in Seq(1 .. n)
<1> DEFINE seq == [c \in Classes(e) |-> c]
<1>1. Classes(e) = 1 .. n
  BY DEF Classes, ForestOK
<1>2. DOMAIN seq = 1 .. n /\ \A k \in 1 .. n : seq[k] = k
  BY <1>1
<1>3. Entries(e) = EntriesFold!Folded(e, <<>>, seq)
  BY DEF Entries, FoldLeft, MapThenFoldSet, Max, EntriesStep, EntriesFold!Folded, EntriesFold!FoldTable
<1> HIDE DEF seq
<1>4. ASSUME NEW k \in 1 .. n, NEW list, EntriesAre(1 .. n, list, k - 1)
      PROVE  EntriesAre(1 .. n, EntriesStep(e, list, seq[k]), k)
  <2> DEFINE m == e.members[e.class[k]]
  <2>1. e.class[k] \in 1 .. n
    BY DEF ForestOK
  <2>2. m \in Seq(Nat) /\ ToSet(m) \subseteq 1 .. n
    <3>1. e.members \in Seq(Seq(Nat)) /\ e.class[k] \in 1 .. Len(e.members)
      BY <2>1 DEF MembersOK
    <3>2. ToSet(m) = {i \in 1 .. n : e.class[i] = e.class[k]}
      BY <2>1 DEF MembersOK
    <3> QED BY <3>1, <3>2, ElementOfSeq
  <2> HIDE DEF m
  <2>3. m \in Seq(1 .. n)
    <3>1. \A j \in 1 .. Len(m) : m[j] \in 1 .. n
      BY <2>2 DEF ToSet
    <3> QED BY <2>2, <3>1
  <2>4. EntriesStep(e, list, seq[k]) = list \o m
    BY <1>2, FindIsOwner DEF EntriesStep, m
  <2>5. list \o m \in Seq(1 .. n)
    BY <2>3, <1>4, ConcatProperties DEF EntriesAre
  <2> QED BY <2>4, <2>5 DEF EntriesAre
<1>5. EntriesAre(1 .. n, <<>>, 0)
  BY DEF EntriesAre
<1>6. EntriesAre(1 .. n, EntriesFold!Folded(e, <<>>, seq), n)
  BY <1>2, <1>4, <1>5, EntriesFold!FoldLeftInduction
<1> QED BY <1>3, <1>6 DEF EntriesAre

\* Equal e-nodes denote the same value.
LEMMA EqualENodesAgree ==
  ASSUME NEW s, ENodesOK(s), NEW x \in Residues, NEW i \in 1 .. Len(s), NEW j \in 1 .. Len(s), s[i] = s[j]
  PROVE  Den(s, x)[i] = Den(s, x)[j]
<1>1. Den(s, x)[i] = DenDef(s, x, Den(s, x), i) /\ Den(s, x)[j] = DenDef(s, x, Den(s, x), j)
  BY DenEquation
<1>2. DenDef(s, x, Den(s, x), i) = DenDef(s, x, Den(s, x), j)
  BY DEF DenDef
<1> QED BY <1>1, <1>2

\* The first clash of the rebuild is between equal e-nodes: uniting them is sound.
LEMMA MergeFirstClashSound ==
  ASSUME NEW e, NEW g, SoundEGraph(e, g), Clashing(e) # {}, NEW f, f = MergeFirstClash(e)
  PROVE  SoundEGraph(f, g) /\ f.enodes = e.enodes
<1> DEFINE n == Len(e.enodes)
           s == Entries(e)
           p == CHOOSE k \in Clashing(e) : \A l \in Clashing(e) : k <= l
           Twin(k) == e.enodes[s[k]] = e.enodes[s[p]]
           q == CHOOSE k \in 1 .. p : Twin(k) /\ \A l \in 1 .. k - 1 : ~Twin(l)
<1>1. n \in Nat /\ EGraphInv(e, g) /\ ENodesOK(e.enodes) /\ ForestOK(e, n) /\ MembersOK(e, n)
  BY DEF SoundEGraph, EGraphInv, ENodesOK
<1>2. s \in Seq(1 .. n) /\ DOMAIN s = 1 .. Len(s) /\ Len(s) \in Nat
  BY <1>1, EntriesAreENodes
<1>3. p \in 1 .. Len(s)
  <2>1. Clashing(e) \in SUBSET (1 .. Len(s))
    BY <1>2 DEF Clashing
  <2>2. \A k \in Clashing(e) : k \in Int /\ 1 <= k
    BY <2>1, <1>2
  <2>3. \E k \in Clashing(e) : \A l \in Clashing(e) : k <= l
    BY <2>2, 1 \in Int, FindRecursion!LeastElement
  <2>4. p \in Clashing(e)
    BY <2>3, SMTT(30)
  <2> HIDE DEF p
  <2> QED BY <2>1, <2>4
<1>4. f = UnionClasses(e, e.class[s[q]], e.class[s[p]])
  BY DEF MergeFirstClash
<1> HIDE DEF p
<1>5. q \in 1 .. p /\ Twin(q)
  <2> DEFINE Twins == {k \in 1 .. p : Twin(k)}
  <2>1. p \in Twins
    BY <1>3
  <2>2. \A k \in Twins : k \in Int /\ 1 <= k
    OBVIOUS
  <2> HIDE DEF Twins
  <2>3. PICK k \in Twins : \A l \in Twins : k <= l
    BY <2>1, <2>2, 1 \in Int, FindRecursion!LeastElement
  <2> HIDE DEF Twin
  <2>4. k \in 1 .. p /\ Twin(k)
    BY DEF Twins
  <2>5. \A l \in 1 .. k - 1 : ~Twin(l)
    BY <2>3, <2>4, <1>3 DEF Twins
  <2>6. \E m \in 1 .. p : Twin(m) /\ \A l \in 1 .. m - 1 : ~Twin(l)
    BY <2>4, <2>5
  <2> QED BY <2>6
<1> HIDE DEF q
<1>6. s[p] \in 1 .. n /\ s[q] \in 1 .. n /\ e.enodes[s[q]] = e.enodes[s[p]]
  <2>1. q \in 1 .. Len(s)
    BY <1>2, <1>3, <1>5
  <2> HIDE DEF s
  <2> QED BY <2>1, <1>2, <1>3, <1>5, ElementOfSeq
<1> HIDE DEF s
<1>7. e.class[s[q]] \in 1 .. n /\ e.class[s[p]] \in 1 .. n
  BY <1>1, <1>6 DEF ForestOK
<1>8. ASSUME NEW x \in Residues
      PROVE  Den(e.enodes, x)[e.class[s[q]]] = Den(e.enodes, x)[e.class[s[p]]]
  <2>1. Den(e.enodes, x)[s[q]] = Den(e.enodes, x)[s[p]]
    BY <1>1, <1>6, EqualENodesAgree
  <2>2. /\ Den(e.enodes, x)[s[q]] = Den(e.enodes, x)[e.class[s[q]]]
        /\ Den(e.enodes, x)[s[p]] = Den(e.enodes, x)[e.class[s[p]]]
    BY <1>6 DEF SoundEGraph, Agrees
  <2> QED BY <2>1, <2>2
<1> QED BY <1>4, <1>7, <1>8, UnionSound

\* The rounds of the rebuild.
RebuildDef(e, g, merged, k) ==
  IF k = 0 THEN e
  ELSE IF Clashing(merged[k - 1]) = {} THEN merged[k - 1] ELSE MergeFirstClash(merged[k - 1])

RebuildKeeps(e, g, merged, k) == SoundEGraph(merged[k], g) /\ merged[k].enodes = e.enodes

RebuildRecursion == INSTANCE InductionRules WITH Def <- RebuildDef, P <- RebuildKeeps, Step <- NoStep, Inv <- NoInv

\* The new lookup table names the classes of the e-nodes.
LEMMA LookupRebuilt ==
  ASSUME NEW e, NEW g, SoundEGraph(e, g), NEW f,
         f = [e EXCEPT !.lookup = [en \in ToSet(e.enodes) |->
                e.class[CHOOSE i \in DOMAIN e.enodes : e.enodes[i] = en]]]
  PROVE  SoundEGraph(f, g) /\ f.enodes = e.enodes
<1> DEFINE n == Len(e.enodes)
           table == [en \in ToSet(e.enodes) |-> e.class[CHOOSE i \in DOMAIN e.enodes : e.enodes[i] = en]]
<1>1. /\ EGraphInv(e, g) /\ ForestOK(e, n) /\ DOMAIN e.enodes = 1 .. n
      /\ e = [enodes |-> e.enodes, parent |-> e.parent, members |-> e.members, lookup |-> e.lookup,
              class |-> e.class, leaf |-> e.leaf, live |-> e.live]
  BY DEF SoundEGraph, EGraphInv, ENodesOK
<1>2. ASSUME NEW en \in DOMAIN table
      PROVE  /\ table[en] \in 1 .. n
             /\ \E i \in 1 .. n : e.enodes[i] = en /\ e.class[i] = e.class[table[en]]
  <2> DEFINE j == CHOOSE i \in DOMAIN e.enodes : e.enodes[i] = en
  <2>1. j \in 1 .. n /\ e.enodes[j] = en
    BY <1>1 DEF ToSet
  <2>2. table[en] = e.class[j]
    OBVIOUS
  <2> HIDE DEF table, j
  <2>3. e.class[j] \in 1 .. n /\ e.class[e.class[j]] = e.class[j]
    BY <1>1, <2>1 DEF ForestOK
  <2> QED BY <2>1, <2>2, <2>3
<1> HIDE DEF table
<1>3. f = [e EXCEPT !.lookup = table]
  BY DEF table
<1>4. f = [enodes |-> e.enodes, parent |-> e.parent, members |-> e.members, lookup |-> table,
           class |-> e.class, leaf |-> e.leaf, live |-> e.live]
  BY <1>1, <1>3
<1>5. /\ f.enodes = e.enodes /\ f.parent = e.parent /\ f.members = e.members /\ f.class = e.class
      /\ f.leaf = e.leaf /\ f.live = e.live /\ f.lookup = table
  BY <1>4
<1>6. LookupOK(f, n)
  <2>1. ASSUME NEW en \in DOMAIN f.lookup
        PROVE  /\ f.lookup[en] \in 1 .. n
               /\ \E i \in 1 .. n : f.enodes[i] = en /\ f.class[i] = f.class[f.lookup[en]]
    <3>1. en \in DOMAIN table /\ f.lookup[en] = table[en]
      BY <1>5
    <3>2. PICK i \in 1 .. n : e.enodes[i] = en /\ e.class[i] = e.class[table[en]]
      BY <1>2, <3>1
    <3>3. table[en] \in 1 .. n
      BY <1>2, <3>1
    <3> QED BY <1>5, <3>1, <3>2, <3>3
  <2> QED BY <2>1 DEF LookupOK
<1>7. ForestOK(f, n) /\ MembersOK(f, n) /\ LeafOK(f, g, n) /\ f.live = Cardinality(Roots(f))
  BY <1>1, <1>5, SMTT(30) DEF EGraphInv, ForestOK, MembersOK, LeafOK, Roots, Classes
<1>8. EGraphInv(f, g)
  BY <1>1, <1>4, <1>5, <1>6, <1>7 DEF EGraphInv
<1>9. Agrees(f)
  BY <1>5 DEF SoundEGraph, Agrees
<1> QED BY <1>5, <1>8, <1>9 DEF SoundEGraph

\* rebuildLookup keeps the e-graph sound.
LEMMA RebuildSound ==
  ASSUME NEW e, NEW g, SoundEGraph(e, g), NEW f, f = RebuildLookup(e)
  PROVE  SoundEGraph(f, g) /\ f.enodes = e.enodes
<1> DEFINE n == Len(e.parent)
           merged == CHOOSE r : r = [k \in 0 .. n |-> RebuildDef(e, g, r, k)]
<1>1. n \in Nat
  BY DEF SoundEGraph, EGraphInv, ForestOK
<1>2. /\ 0 \in Int /\ n \in Int
      /\ merged = CHOOSE r : r = [k \in 0 .. n |-> RebuildDef(e, g, r, k)]
  BY <1>1
<1>3. f = [merged[n] EXCEPT !.lookup = [en \in ToSet(merged[n].enodes) |->
             merged[n].class[CHOOSE i \in DOMAIN merged[n].enodes : merged[n].enodes[i] = en]]]
  BY DEF RebuildLookup, RebuildDef
<1> HIDE DEF merged, n
<1>4. merged = [k \in 0 .. n |-> RebuildDef(e, g, merged, k)]
  <2>1. RebuildRecursion!LookBack(e, g, 0, n)
    <3> SUFFICES ASSUME NEW k \in 0 .. n, NEW r, NEW t, \A j \in 0 .. k - 1 : r[j] = t[j]
                 PROVE  RebuildDef(e, g, r, k) = RebuildDef(e, g, t, k)
      BY DEF RebuildRecursion!LookBack
    <3>1. k # 0 => r[k - 1] = t[k - 1]
      BY <1>1
    <3> QED BY <3>1 DEF RebuildDef
  <2> QED BY <1>2, <2>1, RebuildRecursion!RecursionEquation
<1>5. ASSUME NEW k \in 0 .. n, \A j \in 0 .. k - 1 : RebuildKeeps(e, g, merged, j)
      PROVE  RebuildKeeps(e, g, merged, k)
  <2>1. merged[k] = RebuildDef(e, g, merged, k)
    BY <1>4
  <2>2. CASE k = 0
    BY <2>1, <2>2 DEF RebuildDef, RebuildKeeps
  <2>3. CASE k # 0
    <3>1. SoundEGraph(merged[k - 1], g) /\ merged[k - 1].enodes = e.enodes
      BY <1>1, <1>5, <2>3 DEF RebuildKeeps
    <3>2. CASE Clashing(merged[k - 1]) = {}
      BY <2>1, <2>3, <3>1, <3>2 DEF RebuildDef, RebuildKeeps
    <3>3. CASE Clashing(merged[k - 1]) # {}
      <4>1. merged[k] = MergeFirstClash(merged[k - 1])
        BY <2>1, <2>3, <3>3 DEF RebuildDef
      <4> QED BY <3>1, <3>3, <4>1, MergeFirstClashSound DEF RebuildKeeps
    <3> QED BY <3>2, <3>3
  <2> QED BY <2>2, <2>3
<1>6. \A k \in 0 .. n : RebuildKeeps(e, g, merged, k)
  BY <1>2, <1>5, RebuildRecursion!RecursionInduction
<1>7. SoundEGraph(merged[n], g) /\ merged[n].enodes = e.enodes
  BY <1>1, <1>6 DEF RebuildKeeps
<1> QED BY <1>3, <1>7, LookupRebuilt, SMTT(30)

-----------------------------------------------------------------------------
(***************************************************************************)
(* The imported graph.                                                     *)
(***************************************************************************)

\* allocateValue: a leaf.
LEMMA LeafAllocated ==
  ASSUME NEW g, GraphInv(g), NEW kind \in {"placeholder", "constant"}, NEW payload \in Residues,
         NEW h, h = AllocateValue(g, Value(kind, payload, 0))
  PROVE  GraphInv(h)
<1> DEFINE m == Len(g.values)
           v == Value(kind, payload, 0)
<1>1. /\ g.values \in Seq(GraphValue) /\ g.nodes \in Seq(GraphNode) /\ m \in Nat
      /\ v \in GraphValue /\ v.kind # "result"
  BY DEF GraphInv, Value, GraphValue
<1>2. /\ h = [values |-> Append(g.values, v), nodes |-> g.nodes, users |-> Append(g.users, <<>>),
              outputs |-> g.outputs, chain |-> g.chain, rep |-> g.rep]
  <2>1. g = [values |-> g.values, nodes |-> g.nodes, users |-> g.users, outputs |-> g.outputs,
             chain |-> g.chain, rep |-> g.rep]
    BY DEF GraphInv
  <2> HIDE DEF v
  <2>2. h = [g EXCEPT !.values = Append(g.values, v), !.users = Append(g.users, <<>>)]
    BY DEF AllocateValue, v
  <2> QED BY <2>1, <2>2
<1> HIDE DEF v
<1>3. /\ h.nodes = g.nodes /\ h.values = Append(g.values, v)
      /\ h = [values |-> h.values, nodes |-> h.nodes, users |-> h.users, outputs |-> h.outputs,
              chain |-> h.chain, rep |-> h.rep]
  BY <1>2
<1>4. /\ h.values \in Seq(GraphValue) /\ Len(h.values) = m + 1
      /\ h.values[m + 1] = v /\ \A w \in 1 .. m : h.values[w] = g.values[w]
  <2>1. PICK old, new : old = g.values /\ new = h.values
    OBVIOUS
  <2>2. old \in Seq(GraphValue) /\ v \in GraphValue /\ new = Append(old, v) /\ m = Len(old)
    BY <1>1, <1>3, <2>1
  <2>3. /\ new \in Seq(GraphValue) /\ Len(new) = m + 1
        /\ new[m + 1] = v /\ \A w \in 1 .. m : new[w] = old[w]
    BY <2>2, SeqAppend
  <2> QED BY <2>1, <2>3
<1>5. ASSUME NEW w \in 1 .. Len(h.values), h.values[w].kind = "result"
      PROVE  /\ h.values[w].producer \in 1 .. Len(h.nodes)
             /\ h.nodes[h.values[w].producer].result = w
  <2>1. w \in 1 .. m
    BY <1>1, <1>4, <1>5
  <2> QED BY <1>3, <1>4, <1>5, <2>1 DEF GraphInv
<1>6. ASSUME NEW n \in 1 .. Len(h.nodes)
      PROVE  /\ h.nodes[n].result \in 1 .. Len(h.values)
             /\ \A k \in 1 .. Len(h.nodes[n].inputs) : h.nodes[n].inputs[k] \in 1 .. h.nodes[n].result - 1
  <2>1. /\ g.nodes[n].result \in 1 .. m
        /\ \A k \in 1 .. Len(g.nodes[n].inputs) : g.nodes[n].inputs[k] \in 1 .. g.nodes[n].result - 1
    BY <1>3 DEF GraphInv
  <2> QED BY <1>1, <1>3, <1>4, <2>1, SMTT(30)
<1> QED BY <1>1, <1>3, <1>4, <1>5, <1>6 DEF GraphInv

\* addNode: a node over values that exist, and its result.
LEMMA NodeAdded ==
  ASSUME NEW g, GraphInv(g), NEW op \in OperationNames, NEW inputs \in Seq(Nat), MayAddNode(g, inputs),
         NEW attr \in Nat, NEW h, h = AddNode(g, op, inputs, attr)
  PROVE  GraphInv(h)
<1> DEFINE m == Len(g.values)
           c == Len(g.nodes)
           node == [id |-> c + 1, op |-> op, attr |-> attr, inputs |-> inputs, result |-> m + 1, dead |-> FALSE]
           v == Value("result", 0, c + 1)
<1>1. /\ g.values \in Seq(GraphValue) /\ g.nodes \in Seq(GraphNode) /\ m \in Nat /\ c \in Nat
      /\ DOMAIN g.values = 1 .. m /\ DOMAIN inputs = 1 .. Len(inputs)
  BY DEF GraphInv
<1>2. node \in GraphNode /\ v \in GraphValue /\ v.kind = "result" /\ v.producer = c + 1
  <2>1. 0 \in Residues
    BY ModulusAssumption DEF Residues
  <2> QED BY <1>1, <2>1 DEF GraphNode, GraphValue, Value
<1>3. /\ h.values = Append(g.values, v) /\ h.nodes = Append(g.nodes, node)
      /\ h = [values |-> h.values, nodes |-> h.nodes, users |-> h.users, outputs |-> h.outputs,
              chain |-> h.chain, rep |-> h.rep]
  <2> DEFINE a == AllocateValue(g, v)
  <2>1. g = [values |-> g.values, nodes |-> g.nodes, users |-> g.users, outputs |-> g.outputs,
             chain |-> g.chain, rep |-> g.rep]
    BY DEF GraphInv
  <2>2. h = [a EXCEPT !.nodes = Append(@, node),
                      !.users = [w \in DOMAIN @ |-> @[w] \o UseEntries(node, w)],
                      !.chain = IF Effectful(op) THEN Append(@, node.id) ELSE @]
    BY DEF AddNode
  <2> HIDE DEF node, v
  <2>3. a = [values |-> Append(g.values, v), nodes |-> g.nodes, users |-> Append(g.users, <<>>),
             outputs |-> g.outputs, chain |-> g.chain, rep |-> g.rep]
    <3>1. a = [g EXCEPT !.values = Append(g.values, v), !.users = Append(g.users, <<>>)]
      BY DEF AllocateValue
    <3> QED BY <2>1, <3>1
  <2> HIDE DEF a
  <2> DEFINE users == [w \in DOMAIN a.users |-> a.users[w] \o UseEntries(node, w)]
             chain == IF Effectful(op) THEN Append(a.chain, node.id) ELSE a.chain
  <2>4. h = [a EXCEPT !.nodes = Append(a.nodes, node), !.users = users, !.chain = chain]
    BY <2>2
  <2> HIDE DEF users, chain
  <2> QED BY <2>3, <2>4
<1>4. /\ node.result = m + 1 /\ node.inputs = inputs
      /\ \A k \in 1 .. Len(inputs) : inputs[k] \in 1 .. m
  BY <1>1 DEF MayAddNode
<1> HIDE DEF node, v
<1>5. /\ h.values \in Seq(GraphValue) /\ Len(h.values) = m + 1
      /\ h.values[m + 1] = v /\ \A w \in 1 .. m : h.values[w] = g.values[w]
  BY <1>1, <1>2, <1>3, SeqAppend
<1>6. /\ h.nodes \in Seq(GraphNode) /\ Len(h.nodes) = c + 1
      /\ h.nodes[c + 1] = node /\ \A n \in 1 .. c : h.nodes[n] = g.nodes[n]
  BY <1>1, <1>2, <1>3, SeqAppend
<1>7. ASSUME NEW w \in 1 .. m + 1, h.values[w].kind = "result"
      PROVE  /\ h.values[w].producer \in 1 .. c + 1
             /\ h.nodes[h.values[w].producer].result = w
  <2>1. CASE w = m + 1
    <3>1. h.values[w].producer = c + 1
      BY <1>2, <1>5, <2>1
    <3> QED BY <1>1, <1>4, <1>6, <2>1, <3>1
  <2>2. CASE w \in 1 .. m
    <3>1. g.values[w].producer \in 1 .. c /\ g.nodes[g.values[w].producer].result = w
      BY <1>5, <1>7, <2>2 DEF GraphInv
    <3>2. h.values[w].producer = g.values[w].producer
      BY <1>5, <2>2
    <3>3. h.nodes[g.values[w].producer] = g.nodes[g.values[w].producer]
      BY <1>6, <3>1
    <3>4. g.values[w].producer \in 1 .. c + 1
      BY <1>1, <3>1, SMTT(30)
    <3> QED BY <3>1, <3>2, <3>3, <3>4
  <2>3. w \in 1 .. m \/ w = m + 1
    BY <1>1
  <2> QED BY <2>1, <2>2, <2>3
<1>8. ASSUME NEW n \in 1 .. c + 1
      PROVE  /\ h.nodes[n].result \in 1 .. m + 1
             /\ \A k \in 1 .. Len(h.nodes[n].inputs) : h.nodes[n].inputs[k] \in 1 .. h.nodes[n].result - 1
  <2>1. CASE n = c + 1
    <3>1. h.nodes[n] = node
      BY <1>6, <2>1
    <3>2. m + 1 - 1 = m /\ m + 1 \in 1 .. m + 1
      BY <1>1
    <3> QED BY <1>4, <3>1, <3>2, SMTT(30)
  <2>2. CASE n \in 1 .. c
    <3>1. /\ g.nodes[n].result \in 1 .. m
          /\ \A k \in 1 .. Len(g.nodes[n].inputs) : g.nodes[n].inputs[k] \in 1 .. g.nodes[n].result - 1
      BY <2>2 DEF GraphInv
    <3>2. h.nodes[n] = g.nodes[n]
      BY <1>6, <2>2
    <3>3. m \in Nat
      BY <1>1
    <3>4. g.nodes[n].result \in 1 .. m + 1
      BY <3>1, <3>3
    <3> QED BY <3>1, <3>2, <3>4
  <2>3. c \in Nat
    BY <1>1
  <2>4. n \in 1 .. c \/ n = c + 1
    BY <2>3
  <2> QED BY <2>1, <2>2, <2>4
<1> QED BY <1>3, <1>5, <1>6, <1>7, <1>8 DEF GraphInv

\* The loop that allocates the leaves.
LeafStep(c, g, l) == AllocateValue(g, Value(l.kind, l.payload, 0))
LeavesKeep(d, g, k) == GraphInv(g)

LeafFold == INSTANCE InductionRules WITH Step <- LeafStep, Inv <- LeavesKeep, Def <- NoDef, P <- NoP

\* The graph that a frontend starts from.
LEMMA LeafGraphInv == GraphInv(LeafGraph)
<1>1. LeafGraph = LeafFold!Folded(0, EmptyGraph, Leaves)
  BY DEF LeafGraph, FoldLeft, MapThenFoldSet, Max, LeafStep, LeafFold!Folded, LeafFold!FoldTable
<1>2. DOMAIN Leaves = 1 .. Len(Leaves) /\ Len(Leaves) \in Nat
  BY LeavesAssumption
<1>3. LeavesKeep(0, EmptyGraph, 0)
  BY DEF LeavesKeep, GraphInv, EmptyGraph
<1>4. ASSUME NEW k \in 1 .. Len(Leaves), NEW g, LeavesKeep(0, g, k - 1)
      PROVE  LeavesKeep(0, LeafStep(0, g, Leaves[k]), k)
  <2>1. Leaves[k].kind \in {"placeholder", "constant"} /\ Leaves[k].payload \in Residues
    <3>1. Leaves[k] \in [kind : {"placeholder", "constant"}, payload : Residues]
      BY LeavesAssumption, ElementOfSeq
    <3> QED BY <3>1
  <2> QED BY <1>4, <2>1, LeafAllocated DEF LeavesKeep, LeafStep
<1>5. LeavesKeep(0, LeafFold!Folded(0, EmptyGraph, Leaves), Len(Leaves))
  BY <1>2, <1>3, <1>4, LeafFold!FoldLeftInduction
<1> QED BY <1>1, <1>5 DEF LeavesKeep

-----------------------------------------------------------------------------
(***************************************************************************)
(* The order of the import.                                                *)
(***************************************************************************)

\* The operands of value v.
OperandsOf(g, v) == g.nodes[g.values[v].producer].inputs

\* A list of values in which the operands of each value come before it.
Closed(g, list) ==
  /\ list \in Seq(1 .. Len(g.values))
  /\ \A p \in 1 .. Len(list) :
       g.values[list[p]].kind = "result" =>
         \A k \in 1 .. Len(OperandsOf(g, list[p])) :
           \E q \in 1 .. p - 1 : list[q] = OperandsOf(g, list[p])[k]

\* The operands of a result are values before it.
LEMMA OperandsBefore ==
  ASSUME NEW g, GraphInv(g), NEW v \in 1 .. Len(g.values), g.values[v].kind = "result"
  PROVE  /\ g.values[v].producer \in 1 .. Len(g.nodes)
         /\ OperandsOf(g, v) \in Seq(Nat)
         /\ \A k \in 1 .. Len(OperandsOf(g, v)) : OperandsOf(g, v)[k] \in 1 .. v - 1
<1>1. /\ g.values[v].producer \in 1 .. Len(g.nodes)
      /\ g.nodes[g.values[v].producer].result = v
  BY DEF GraphInv
<1>2. g.nodes[g.values[v].producer] \in GraphNode
  BY <1>1, ElementOfSeq DEF GraphInv
<1> QED BY <1>1, <1>2 DEF GraphInv, GraphNode, OperandsOf

\* One such list after another is such a list.
LEMMA ClosedConcat ==
  ASSUME NEW g, NEW a, NEW b, Closed(g, a), Closed(g, b)
  PROVE  Closed(g, a \o b)
<1> DEFINE V == 1 .. Len(g.values)
           l == a \o b
<1>1. a \in Seq(V) /\ b \in Seq(V) /\ Len(a) \in Nat /\ Len(b) \in Nat
  BY DEF Closed
<1>2. /\ l \in Seq(V) /\ Len(l) = Len(a) + Len(b)
      /\ \A i \in 1 .. Len(a) + Len(b) : l[i] = IF i <= Len(a) THEN a[i] ELSE b[i - Len(a)]
  BY <1>1, ConcatProperties
<1> HIDE DEF l
<1>3. ASSUME NEW p \in 1 .. Len(l), g.values[l[p]].kind = "result", NEW k \in 1 .. Len(OperandsOf(g, l[p]))
      PROVE  \E q \in 1 .. p - 1 : l[q] = OperandsOf(g, l[p])[k]
  <2>1. CASE p <= Len(a)
    <3>1. p \in 1 .. Len(a) /\ l[p] = a[p]
      BY <1>1, <1>2, <2>1
    <3>2. PICK q \in 1 .. p - 1 : a[q] = OperandsOf(g, l[p])[k]
      BY <1>3, <3>1 DEF Closed
    <3>3. l[q] = a[q]
      BY <1>1, <1>2, <3>1, SMTT(30)
    <3> QED BY <3>2, <3>3
  <2>2. CASE ~(p <= Len(a))
    <3> DEFINE r == p - Len(a)
    <3>1. r \in 1 .. Len(b) /\ l[p] = b[r]
      BY <1>1, <1>2, <2>2
    <3> HIDE DEF r
    <3>2. PICK q \in 1 .. r - 1 : b[q] = OperandsOf(g, l[p])[k]
      BY <1>3, <3>1, SMTT(30) DEF Closed
    <3>3. PICK t \in 1 .. p - 1 : t \in 1 .. Len(a) + Len(b) /\ ~(t <= Len(a)) /\ t - Len(a) = q
      <4>1. p \in Int /\ p = r + Len(a) /\ r \in 1 .. Len(b)
        BY <1>1, <1>2, <3>1 DEF r
      <4>2. /\ q + Len(a) \in 1 .. p - 1 /\ q + Len(a) \in 1 .. Len(a) + Len(b)
            /\ ~(q + Len(a) <= Len(a)) /\ q + Len(a) - Len(a) = q
        BY <1>1, <4>1, SMTT(30)
      <4> QED BY <4>2
    <3>4. l[t] = b[q]
      BY <1>2, <3>3
    <3> QED BY <3>2, <3>3, <3>4
  <2> QED BY <2>1, <2>2
<1> QED BY <1>2, <1>3 DEF Closed, l

\* x is in the list.
Lists(list, x) == \E q \in 1 .. Len(list) : list[q] = x

\* What either list has, the two together have.
LEMMA ListsConcat ==
  ASSUME NEW S, NEW a \in Seq(S), NEW b \in Seq(S), NEW x, Lists(a, x) \/ Lists(b, x)
  PROVE  Lists(a \o b, x)
<1> DEFINE l == a \o b
<1>1. /\ Len(a) \in Nat /\ Len(b) \in Nat /\ Len(l) = Len(a) + Len(b)
      /\ \A i \in 1 .. Len(a) + Len(b) : l[i] = IF i <= Len(a) THEN a[i] ELSE b[i - Len(a)]
  BY ConcatProperties
<1> HIDE DEF l
<1>2. CASE Lists(a, x)
  <2>1. PICK q \in 1 .. Len(a) : a[q] = x
    BY <1>2 DEF Lists
  <2>2. q \in 1 .. Len(l) /\ l[q] = x
    BY <1>1, <2>1
  <2> QED BY <2>2 DEF Lists, l
<1>3. CASE Lists(b, x)
  <2>1. PICK q \in 1 .. Len(b) : b[q] = x
    BY <1>3 DEF Lists
  <2>2. q + Len(a) \in 1 .. Len(a) + Len(b) /\ ~(q + Len(a) <= Len(a)) /\ q + Len(a) - Len(a) = q
    BY <1>1
  <2>3. l[q + Len(a)] = x
    BY <1>1, <2>1, <2>2
  <2> QED BY <1>1, <2>2, <2>3 DEF Lists, l
<1> QED BY <1>2, <1>3

\* The loop over the operands of a node.
VisitStep(visit, seq, in) == seq \o visit[in]
OperandsListed(d, seq, k) == Closed(d.graph, seq) /\ \A j \in 1 .. k : Lists(seq, d.operands[j])

VisitFold == INSTANCE InductionRules WITH Step <- VisitStep, Inv <- OperandsListed, Def <- NoDef, P <- NoP

\* The list of a value: those of its operands, then the value.
PostOrderDef(g, d, visit, v) ==
  IF g.values[v].kind # "result" THEN <<v>>
  ELSE VisitFold!Folded(visit, <<>>, OperandsOf(g, v)) \o <<v>>

PostOrderIs(g, d, visit, v) == Closed(g, visit[v]) /\ Lists(visit[v], v)

PostOrderRecursion == INSTANCE InductionRules WITH Def <- PostOrderDef, P <- PostOrderIs, Step <- NoStep, Inv <- NoInv

\* importGraph visits the operands of a value before the value, however the
\* values share them.
LEMMA PostOrderClosed ==
  ASSUME NEW g, GraphInv(g), NEW top \in 1 .. Len(g.values)
  PROVE  Closed(g, PostOrder(g, top))
<1> DEFINE m == Len(g.values)
           visit == CHOOSE f : f = [v \in 1 .. m |-> PostOrderDef(g, 0, f, v)]
<1>1. m \in Nat /\ DOMAIN g.values = 1 .. m
  BY DEF GraphInv
<1>2. /\ 1 \in Int /\ m \in Int
      /\ visit = CHOOSE f : f = [v \in 1 .. m |-> PostOrderDef(g, 0, f, v)]
  BY <1>1
<1>3. PostOrder(g, top) = visit[top]
  BY <1>1 DEF PostOrder, PostOrderDef, OperandsOf, FoldLeft, MapThenFoldSet, Max, VisitStep,
             VisitFold!Folded, VisitFold!FoldTable
<1> HIDE DEF visit
<1>4. visit = [v \in 1 .. m |-> PostOrderDef(g, 0, visit, v)]
  <2>1. ASSUME NEW v \in 1 .. m, NEW f, NEW h, \A j \in 1 .. v - 1 : f[j] = h[j]
        PROVE  PostOrderDef(g, 0, f, v) = PostOrderDef(g, 0, h, v)
    <3>1. CASE g.values[v].kind # "result"
      BY <3>1 DEF PostOrderDef
    <3>2. CASE g.values[v].kind = "result"
      <4> DEFINE ins == OperandsOf(g, v)
      <4>1. /\ ins \in Seq(Nat) /\ DOMAIN ins = 1 .. Len(ins) /\ Len(ins) \in Nat
            /\ \A k \in 1 .. Len(ins) : ins[k] \in 1 .. v - 1
        BY <3>2, OperandsBefore
      <4> HIDE DEF ins
      <4>2. \A k \in 1 .. Len(ins) : \A a : VisitStep(f, a, ins[k]) = VisitStep(h, a, ins[k])
        BY <2>1, <4>1 DEF VisitStep
      <4>3. VisitFold!Folded(f, <<>>, ins) = VisitFold!Folded(h, <<>>, ins)
        BY <4>1, <4>2, VisitFold!FoldLeftCongruence, SMTT(30)
      <4> QED BY <3>2, <4>3 DEF PostOrderDef, ins
    <3> QED BY <3>1, <3>2
  <2>2. PostOrderRecursion!LookBack(g, 0, 1, m)
    BY <2>1 DEF PostOrderRecursion!LookBack
  <2> QED BY <1>2, <2>2, PostOrderRecursion!RecursionEquation, SMTT(30)
<1>5. ASSUME NEW v \in 1 .. m, \A j \in 1 .. v - 1 : PostOrderIs(g, 0, visit, j)
      PROVE  PostOrderIs(g, 0, visit, v)
  <2>1. visit[v] = PostOrderDef(g, 0, visit, v)
    BY <1>4
  <2>2. <<v>> \in Seq(1 .. m) /\ Len(<<v>>) = 1 /\ <<v>>[1] = v
    OBVIOUS
  <2>3. CASE g.values[v].kind # "result"
    <3>1. visit[v] = <<v>>
      BY <2>1, <2>3 DEF PostOrderDef
    <3>2. \A p \in 1 .. 1 : p = 1
      OBVIOUS
    <3>3. Closed(g, <<v>>)
      BY <2>2, <2>3, <3>2 DEF Closed
    <3>4. Lists(<<v>>, v)
      BY <2>2 DEF Lists
    <3> QED BY <3>1, <3>3, <3>4 DEF PostOrderIs
  <2>4. CASE g.values[v].kind = "result"
    <3> DEFINE ins == OperandsOf(g, v)
               d == [graph |-> g, operands |-> ins]
               list == VisitFold!Folded(visit, <<>>, ins)
    <3>1. /\ ins \in Seq(Nat) /\ DOMAIN ins = 1 .. Len(ins) /\ Len(ins) \in Nat
          /\ \A k \in 1 .. Len(ins) : ins[k] \in 1 .. v - 1
      BY <2>4, OperandsBefore
    <3>2. d.graph = g /\ d.operands = ins
      OBVIOUS
    <3>3. visit[v] = list \o <<v>>
      BY <2>1, <2>4 DEF PostOrderDef
    <3> HIDE DEF ins, d
    <3>4. OperandsListed(d, <<>>, 0)
      <4>1. <<>> \in Seq(1 .. m) /\ Len(<<>>) = 0 /\ 1 .. 0 = {}
        OBVIOUS
      <4> QED BY <3>2, <4>1 DEF OperandsListed, Closed
    <3>5. ASSUME NEW k \in 1 .. Len(ins), NEW a, OperandsListed(d, a, k - 1)
          PROVE  OperandsListed(d, VisitStep(visit, a, ins[k]), k)
      <4> DEFINE b == visit[ins[k]]
      <4>1. Closed(g, b) /\ Lists(b, ins[k])
        BY <1>5, <3>1 DEF PostOrderIs
      <4>2. Closed(g, a) /\ \A j \in 1 .. k - 1 : Lists(a, ins[j])
        BY <3>2, <3>5 DEF OperandsListed
      <4> HIDE DEF b
      <4>3. Closed(g, a \o b)
        BY <4>1, <4>2, ClosedConcat
      <4>4. ASSUME NEW j \in 1 .. k PROVE Lists(a \o b, ins[j])
        <5>1. a \in Seq(1 .. m) /\ b \in Seq(1 .. m)
          BY <4>1, <4>2 DEF Closed
        <5>2. Lists(a, ins[j]) \/ Lists(b, ins[j])
          <6>1. j \in 1 .. k - 1 \/ j = k
            BY <3>1
          <6> QED BY <6>1, <4>1, <4>2
        <5> QED BY <5>1, <5>2, ListsConcat
      <4>5. VisitStep(visit, a, ins[k]) = a \o b
        BY DEF VisitStep, b
      <4> QED BY <3>2, <4>3, <4>4, <4>5 DEF OperandsListed
    <3>6. OperandsListed(d, list, Len(ins))
      BY <3>1, <3>4, <3>5, VisitFold!FoldLeftInduction
    <3>7. Closed(g, list) /\ \A j \in 1 .. Len(ins) : Lists(list, ins[j])
      BY <3>2, <3>6 DEF OperandsListed
    <3> HIDE DEF list
    <3> DEFINE l == list \o <<v>>
    <3>8. /\ list \in Seq(1 .. m) /\ Len(list) \in Nat
          /\ l \in Seq(1 .. m) /\ Len(l) = Len(list) + 1 /\ l[Len(list) + 1] = v
          /\ \A p \in 1 .. Len(list) : l[p] = list[p]
      <4>1. list \in Seq(1 .. m) /\ Len(list) \in Nat
        BY <3>7 DEF Closed
      <4>2. /\ l \in Seq(1 .. m) /\ Len(l) = Len(list) + Len(<<v>>)
            /\ \A i \in 1 .. Len(list) + Len(<<v>>) :
                 l[i] = IF i <= Len(list) THEN list[i] ELSE <<v>>[i - Len(list)]
        BY <4>1, <2>2, ConcatProperties
      <4> HIDE DEF l
      <4>3. l[Len(list) + 1] = <<v>>[Len(list) + 1 - Len(list)]
        BY <2>2, <4>1, <4>2
      <4> QED BY <2>2, <4>1, <4>2, <4>3, SMTT(30)
    <3> HIDE DEF l
    <3>9. ASSUME NEW p \in 1 .. Len(l), g.values[l[p]].kind = "result",
                 NEW k \in 1 .. Len(OperandsOf(g, l[p]))
          PROVE  \E q \in 1 .. p - 1 : l[q] = OperandsOf(g, l[p])[k]
      <4>1. CASE p \in 1 .. Len(list)
        <5>1. l[p] = list[p]
          BY <3>8, <4>1
        <5>2. PICK q \in 1 .. p - 1 : list[q] = OperandsOf(g, l[p])[k]
          BY <3>7, <3>9, <4>1, <5>1 DEF Closed
        <5>3. q \in 1 .. Len(list)
          BY <3>8, <4>1
        <5> QED BY <3>8, <5>2, <5>3
      <4>2. CASE p = Len(list) + 1
        <5>1. l[p] = v
          BY <3>8, <4>2
        <5>2. PICK q \in 1 .. Len(list) : list[q] = OperandsOf(g, l[p])[k]
          BY <3>7, <3>9, <5>1 DEF Lists, ins
        <5>3. q \in 1 .. p - 1
          BY <3>8, <4>2
        <5> QED BY <3>8, <5>2, <5>3
      <4> QED BY <3>8, <4>1, <4>2
    <3>10. Closed(g, l)
      BY <3>8, <3>9 DEF Closed
    <3>11. Lists(l, v)
      <4>1. Len(list) + 1 \in 1 .. Len(l)
        BY <3>8
      <4> QED BY <3>8, <4>1 DEF Lists
    <3> QED BY <3>3, <3>10, <3>11 DEF PostOrderIs, l
  <2> QED BY <2>3, <2>4
<1>6. \A v \in 1 .. m : PostOrderIs(g, 0, visit, v)
  BY <1>2, <1>5, PostOrderRecursion!RecursionInduction
<1> QED BY <1>3, <1>6 DEF PostOrderIs

-----------------------------------------------------------------------------
(***************************************************************************)
(* importGraph.                                                            *)
(***************************************************************************)

\* While no class has been united, the table names the very e-node.
NamesItself(e) == \A en \in DOMAIN e.lookup : e.enodes[e.lookup[en]] = en

\* The state s of the import after the first k values of the list.
ImportOK(d, s, k) ==
  /\ s = [eg |-> s.eg, class |-> s.class, failed |-> s.failed]
  /\ s.failed \in BOOLEAN
  /\ SoundEGraph(s.eg, d.graph) /\ NamesItself(s.eg)
  /\ ~s.failed =>
       /\ \A j \in 1 .. k : d.list[j] \in DOMAIN s.class
       /\ \A w \in DOMAIN s.class : s.class[w] \in 1 .. Len(s.eg.enodes)

ImportFold == INSTANCE InductionRules WITH Step <- ImportValue, Inv <- ImportOK, Def <- NoDef, P <- NoP

\* Before the import there is nothing that could be wrong.
LEMMA EmptyEGraphSound ==
  ASSUME NEW g
  PROVE  SoundEGraph(EmptyEGraph, g) /\ NamesItself(EmptyEGraph) /\ Len(EmptyEGraph.enodes) = 0
<1> DEFINE e == EmptyEGraph
<1>1. /\ e.enodes = <<>> /\ e.parent = <<>> /\ e.members = <<>> /\ e.lookup = <<>>
      /\ e.class = <<>> /\ e.leaf = <<>> /\ e.live = 0
      /\ e = [enodes |-> e.enodes, parent |-> e.parent, members |-> e.members, lookup |-> e.lookup,
              class |-> e.class, leaf |-> e.leaf, live |-> e.live]
  BY DEF EmptyEGraph
<1>2. /\ \A S : <<>> \in Seq(S)
      /\ Len(<<>>) = 0 /\ DOMAIN <<>> = {} /\ 1 .. 0 = {}
  OBVIOUS
<1> HIDE DEF e
<1>3. ENodesOK(e.enodes) /\ ForestOK(e, 0) /\ MembersOK(e, 0)
  BY <1>1, <1>2 DEF ENodesOK, ForestOK, MembersOK
<1>4. LookupOK(e, 0) /\ LeafOK(e, g, 0) /\ NamesItself(e)
  BY <1>1, <1>2 DEF LookupOK, LeafOK, NamesItself
<1>5. e.live = Cardinality(Roots(e))
  <2>1. Roots(e) = {}
    BY <1>1, <1>2 DEF Roots, Classes
  <2> QED BY <1>1, <2>1, FS_EmptySet
<1>6. Agrees(e) /\ Len(e.enodes) = 0 /\ Len(e.enodes) <= MaxENodes
  BY <1>1, <1>2, EGraphBoundsAssumption DEF Agrees
<1> QED BY <1>1, <1>3, <1>4, <1>5, <1>6 DEF SoundEGraph, EGraphInv, e

\* What internENode is given is an e-node.
LEMMA ENodeFields ==
  ASSUME NEW op \in OperationNames, NEW attr \in Attribute, NEW children \in Seq(Nat)
  PROVE  [op |-> op, attr |-> attr, children |-> children] \in ENode
BY DEF ENode

\* The e-node of a value is one over the classes of its operands.
LEMMA ValueENode ==
  ASSUME NEW g, GraphInv(g), NEW v \in 1 .. Len(g.values), NEW n \in Nat, NEW class,
         g.values[v].kind = "result" =>
           \A k \in 1 .. Len(OperandsOf(g, v)) : class[OperandsOf(g, v)[k]] \in 1 .. n,
         NEW en,
         en = IF g.values[v].kind # "result" THEN LeafENode(g, v)
              ELSE [op |-> g.nodes[g.values[v].producer].op,
                    attr |-> <<"attr", g.nodes[g.values[v].producer].attr>>,
                    children |-> [k \in DOMAIN OperandsOf(g, v) |-> class[OperandsOf(g, v)[k]]]]
  PROVE  ENodeOver(en, n)
<1>1. g.values[v] \in GraphValue /\ Residues \subseteq Nat
  BY ElementOfSeq, ModulusAssumption, SMTT(30) DEF GraphInv, Residues
<1>2. CASE g.values[v].kind # "result"
  <2> DEFINE attr == <<g.values[v].kind, g.values[v].payload>>
  <2>1. attr \in Attribute /\ attr[2] \in Residues
    BY <1>1, <1>2 DEF GraphValue, Attribute
  <2> HIDE DEF attr
  <2>2. en = [op |-> "box", attr |-> attr, children |-> <<>>]
    BY <1>2 DEF LeafENode, attr
  <2>3. en \in ENode
    <3> DEFINE none == <<>>
    <3>1. "box" \in OperationNames /\ none \in Seq(Nat) /\ en = [op |-> "box", attr |-> attr, children |-> none]
      BY <2>2 DEF OperationNames
    <3> HIDE DEF none
    <3> QED BY <2>1, <3>1, ENodeFields
  <2>4. en.children = <<>> /\ en.attr = attr /\ Len(<<>>) = 0 /\ 1 .. 0 = {}
    BY <2>2, SMTT(30)
  <2> QED BY <2>1, <2>3, <2>4 DEF ENodeOver
<1>3. CASE g.values[v].kind = "result"
  <2> DEFINE node == g.nodes[g.values[v].producer]
             ins == OperandsOf(g, v)
             children == [k \in DOMAIN ins |-> class[ins[k]]]
             attr == <<"attr", node.attr>>
  <2>1. /\ ins \in Seq(Nat) /\ DOMAIN ins = 1 .. Len(ins) /\ Len(ins) \in Nat
        /\ node \in GraphNode
    <3>1. g.values[v].producer \in 1 .. Len(g.nodes) /\ ins \in Seq(Nat)
      BY <1>3, OperandsBefore
    <3> QED BY <3>1, ElementOfSeq DEF GraphInv
  <2>2. \A k \in 1 .. Len(ins) : class[ins[k]] \in 1 .. n
    BY <1>3, SMTT(30)
  <2>3. node.op \in OperationNames /\ attr \in Attribute /\ attr[1] = "attr"
    BY <2>1 DEF GraphNode, Attribute
  <2> HIDE DEF ins, node
  <2>4. children \in [1 .. Len(ins) -> Nat] /\ \A k \in 1 .. Len(ins) : children[k] \in 1 .. n
    BY <2>1, <2>2
  <2>5. en = [op |-> node.op, attr |-> attr, children |-> children]
    BY <1>3 DEF node, ins
  <2> HIDE DEF children, attr
  <2>6. children \in Seq(Nat) /\ Len(children) = Len(ins)
    BY <2>1, <2>4, SeqTable
  <2>7. en \in ENode
    BY <2>3, <2>5, <2>6, ENodeFields
  <2>8. en.children = children /\ en.attr = attr
    BY <2>5
  <2> QED BY <2>3, <2>4, <2>6, <2>7, <2>8 DEF ENodeOver
<1> QED BY <1>2, <1>3

\* A leaf is noted as the source of its class.
LEMMA LeafNoted ==
  ASSUME NEW e, NEW g, SoundEGraph(e, g), NEW c \in 1 .. Len(e.enodes), NEW v \in DOMAIN g.values,
         g.values[v].kind # "result", e.enodes[c] = LeafENode(g, v),
         NEW leaf, DOMAIN leaf = DOMAIN e.leaf \union {c}, leaf[c] = v,
         \A d \in DOMAIN e.leaf : d # c => leaf[d] = e.leaf[d],
         NEW f,
         f = [enodes |-> e.enodes, parent |-> e.parent, members |-> e.members, lookup |-> e.lookup,
              class |-> e.class, leaf |-> leaf, live |-> e.live]
  PROVE  SoundEGraph(f, g) /\ f.enodes = e.enodes /\ f.lookup = e.lookup
<1> DEFINE n == Len(e.enodes)
<1>1. /\ EGraphInv(e, g)
      /\ e = [enodes |-> e.enodes, parent |-> e.parent, members |-> e.members, lookup |-> e.lookup,
              class |-> e.class, leaf |-> e.leaf, live |-> e.live]
  BY DEF SoundEGraph, EGraphInv
<1>2. /\ f.enodes = e.enodes /\ f.parent = e.parent /\ f.members = e.members /\ f.class = e.class
      /\ f.leaf = leaf /\ f.live = e.live /\ f.lookup = e.lookup
  OBVIOUS
<1>3. LeafOK(f, g, n)
  <2>1. ASSUME NEW d \in DOMAIN leaf
        PROVE  /\ d \in 1 .. n /\ leaf[d] \in DOMAIN g.values
               /\ g.values[leaf[d]].kind # "result"
               /\ e.enodes[d] = LeafENode(g, leaf[d])
    <3>1. CASE d = c
      BY <3>1
    <3>2. CASE d # c
      <4>1. d \in DOMAIN e.leaf /\ leaf[d] = e.leaf[d]
        BY <3>2
      <4> QED BY <1>1, <4>1 DEF EGraphInv, LeafOK
    <3> QED BY <3>1, <3>2
  <2> QED BY <1>2, <2>1 DEF LeafOK
<1>4. ForestOK(f, n) /\ MembersOK(f, n) /\ LookupOK(f, n) /\ f.live = Cardinality(Roots(f))
  BY <1>1, <1>2, SMTT(30) DEF EGraphInv, ForestOK, MembersOK, LookupOK, Roots, Classes
<1>5. EGraphInv(f, g)
  BY <1>1, <1>2, <1>3, <1>4 DEF EGraphInv
<1>6. Agrees(f)
  BY <1>2 DEF SoundEGraph, Agrees
<1> QED BY <1>2, <1>5, <1>6 DEF SoundEGraph

\* internENode during the import.
LEMMA InternFresh ==
  ASSUME NEW e, NEW g, SoundEGraph(e, g), NamesItself(e), NEW en, NEW stale \in BOOLEAN,
         NEW f, f = Intern(e, en, stale)
  PROVE  NamesItself(f)
<1> DEFINE n == Len(e.enodes)
<1>1. CASE f = e
  BY <1>1
<1>2. CASE IsExtended(e, en, n, f)
  <2>1. n \in Nat /\ e.enodes \in Seq(ENode)
    BY DEF SoundEGraph, EGraphInv, ENodesOK
  <2>2. f.enodes = Append(e.enodes, en)
    BY <1>2 DEF IsExtended
  <2>3. f.enodes[n + 1] = en /\ \A i \in 1 .. n : f.enodes[i] = e.enodes[i]
    BY <2>1, <2>2, AppendProperties
  <2>4. ASSUME NEW k \in DOMAIN f.lookup PROVE f.enodes[f.lookup[k]] = k
    <3>1. CASE k = en
      BY <1>2, <2>3, <3>1 DEF IsExtended
    <3>2. CASE k # en
      <4>1. k \in DOMAIN e.lookup /\ f.lookup[k] = e.lookup[k]
        BY <1>2, <3>2 DEF IsExtended
      <4>2. e.lookup[k] \in 1 .. n
        BY <4>1 DEF SoundEGraph, EGraphInv, LookupOK
      <4> QED BY <2>3, <4>1, <4>2 DEF NamesItself
    <3> QED BY <3>1, <3>2
  <2> QED BY <2>4 DEF NamesItself
<1> QED BY <1>1, <1>2, InternCases DEF SoundEGraph

\* One value is imported.
LEMMA ValueImported ==
  ASSUME NEW d, GraphInv(d.graph), Closed(d.graph, d.list), NEW k \in 1 .. Len(d.list),
         NEW s, ImportOK(d, s, k - 1)
  PROVE  ImportOK(d, ImportValue(d.graph, s, d.list[k]), k)
<1> DEFINE g == d.graph
           v == d.list[k]
           node == g.nodes[g.values[v].producer]
           en == IF g.values[v].kind # "result" THEN LeafENode(g, v)
                 ELSE [op |-> node.op, attr |-> <<"attr", node.attr>>,
                       children |-> [j \in DOMAIN node.inputs |-> s.class[node.inputs[j]]]]
           e == Intern(s.eg, en, TRUE)
           c == InternedClass(e, en)
           t == ImportValue(g, s, v)
           n == Len(s.eg.enodes)
<1>1. /\ s = [eg |-> s.eg, class |-> s.class, failed |-> s.failed] /\ s.failed \in BOOLEAN
      /\ SoundEGraph(s.eg, g) /\ NamesItself(s.eg)
      /\ ~s.failed => /\ \A j \in 1 .. k - 1 : d.list[j] \in DOMAIN s.class
                      /\ \A w \in DOMAIN s.class : s.class[w] \in 1 .. n
  BY DEF ImportOK
<1>2. CASE s.failed \/ Refused(s.eg)
  <2>1. t = [s EXCEPT !.failed = TRUE]
    BY <1>2 DEF ImportValue
  <2>2. t = [eg |-> s.eg, class |-> s.class, failed |-> TRUE]
    BY <1>1, <2>1
  <2> HIDE DEF t
  <2> QED BY <1>1, <2>2, SMTT(30) DEF ImportOK, t
<1>3. CASE ~s.failed /\ ~Refused(s.eg)
  <2>1. /\ v \in 1 .. Len(g.values) /\ k \in Nat /\ Len(d.list) \in Nat
        /\ DOMAIN g.values = 1 .. Len(g.values)
    <3>1. d.list \in Seq(1 .. Len(g.values))
      BY DEF Closed
    <3>2. g.values \in Seq(GraphValue)
      BY DEF GraphInv
    <3> QED BY <3>1, <3>2, ElementOfSeq, SMTT(30)
  <2>2. n \in Nat /\ EGraphInv(s.eg, g)
    BY <1>1, SMTT(30) DEF SoundEGraph, EGraphInv, ENodesOK
  <2>3. ENodeOver(en, n)
    <3>1. g.values[v].kind = "result" =>
            \A j \in 1 .. Len(OperandsOf(g, v)) : s.class[OperandsOf(g, v)[j]] \in 1 .. n
      <4> SUFFICES ASSUME g.values[v].kind = "result", NEW j \in 1 .. Len(OperandsOf(g, v))
                   PROVE  s.class[OperandsOf(g, v)[j]] \in 1 .. n
        OBVIOUS
      <4>1. PICK q \in 1 .. k - 1 : d.list[q] = OperandsOf(g, v)[j]
        BY DEF Closed
      <4> QED BY <1>1, <1>3, <4>1
    <3>2. en = IF g.values[v].kind # "result" THEN LeafENode(g, v)
               ELSE [op |-> g.nodes[g.values[v].producer].op,
                     attr |-> <<"attr", g.nodes[g.values[v].producer].attr>>,
                     children |-> [j \in DOMAIN OperandsOf(g, v) |-> s.class[OperandsOf(g, v)[j]]]]
      BY DEF OperandsOf
    <3> HIDE DEF en, v, g, n
    <3>3. GraphInv(g)
      BY SMTT(30) DEF g
    <3> QED BY <2>1, <2>2, <3>1, <3>2, <3>3, ValueENode
  <2> DEFINE noted == IF g.values[v].kind = "result" \/ c \in DOMAIN e.leaf THEN e
                      ELSE [e EXCEPT !.leaf = [b \in DOMAIN e.leaf \union {c} |-> IF b = c THEN v ELSE e.leaf[b]]]
             class == [w \in DOMAIN s.class \union {v} |-> IF w = v THEN c ELSE s.class[w]]
  <2>4. t = [eg |-> noted, class |-> class, failed |-> FALSE]
    BY <1>3, ZenonT(40) DEF ImportValue
  <2>5. g.values[v].kind # "result" => en = LeafENode(g, v)
    OBVIOUS
  <2> HIDE DEF en, v
  <2>6. SoundEGraph(e, g) /\ Extends(s.eg, en, e) /\ Interned(e, en) /\ NamesItself(e)
    <3>1. e = Intern(s.eg, en, TRUE) /\ TRUE \in BOOLEAN
      OBVIOUS
    <3> HIDE DEF e
    <3>2. SoundEGraph(e, g) /\ Extends(s.eg, en, e) /\ Interned(e, en)
      BY <1>1, <1>3, <2>3, <3>1, InternSound
    <3>3. NamesItself(e)
      BY <1>1, <3>1, InternFresh
    <3> QED BY <3>2, <3>3
  <2>7. c \in 1 .. Len(e.enodes) /\ e.enodes[c] = en /\ n <= Len(e.enodes) /\ Len(e.enodes) \in Nat
    <3> HIDE DEF e
    <3>1. en \in DOMAIN e.lookup /\ e.lookup[en] \in 1 .. Len(e.enodes)
      BY <2>6 DEF Interned
    <3>2. e.enodes[e.lookup[en]] = en
      BY <2>6, <3>1 DEF NamesItself
    <3>3. n <= Len(e.enodes)
      BY <2>6 DEF Extends
    <3>4. Len(e.enodes) \in Nat
      BY <2>6 DEF SoundEGraph, EGraphInv, ENodesOK
    <3> QED BY <3>1, <3>2, <3>3, <3>4 DEF InternedClass
  <2> HIDE DEF e, c
  <2>8. SoundEGraph(noted, g) /\ NamesItself(noted) /\ Len(noted.enodes) = Len(e.enodes)
    <3>1. CASE g.values[v].kind = "result" \/ c \in DOMAIN e.leaf
      BY <2>6, <3>1
    <3>2. CASE g.values[v].kind # "result" /\ c \notin DOMAIN e.leaf
      <4> DEFINE leaf == [b \in DOMAIN e.leaf \union {c} |-> IF b = c THEN v ELSE e.leaf[b]]
      <4>1. noted = [e EXCEPT !.leaf = leaf]
        BY <3>2
      <4>2. e.enodes[c] = LeafENode(g, v) /\ v \in DOMAIN g.values
        BY <2>1, <2>5, <2>7, <3>2
      <4>3. /\ DOMAIN leaf = DOMAIN e.leaf \union {c} /\ leaf[c] = v
            /\ \A b \in DOMAIN e.leaf : b # c => leaf[b] = e.leaf[b]
        OBVIOUS
      <4> HIDE DEF noted, leaf, g
      <4>4. noted = [enodes |-> e.enodes, parent |-> e.parent, members |-> e.members, lookup |-> e.lookup,
                     class |-> e.class, leaf |-> leaf, live |-> e.live]
        <5>1. e = [enodes |-> e.enodes, parent |-> e.parent, members |-> e.members, lookup |-> e.lookup,
                   class |-> e.class, leaf |-> e.leaf, live |-> e.live]
          BY <2>6 DEF SoundEGraph, EGraphInv
        <5> QED BY <4>1, <5>1
      <4>5. SoundEGraph(noted, g) /\ noted.enodes = e.enodes /\ noted.lookup = e.lookup
        BY <2>6, <2>7, <3>2, <4>2, <4>3, <4>4, LeafNoted
      <4> QED BY <2>6, <4>5 DEF NamesItself
    <3> QED BY <3>1, <3>2
  <2>9. \A w \in DOMAIN class : class[w] \in 1 .. Len(e.enodes)
    <3>1. \A w \in DOMAIN s.class : s.class[w] \in 1 .. Len(e.enodes)
      BY <1>1, <1>3, <2>2, <2>7
    <3> QED BY <2>7, <3>1
  <2>10. \A j \in 1 .. k : d.list[j] \in DOMAIN class
    <3>1. \A j \in 1 .. k : j \in 1 .. k - 1 \/ j = k
      BY <2>1
    <3> QED BY <1>1, <1>3, <3>1 DEF v
  <2> HIDE DEF noted, class, t
  <2>11. /\ t = [eg |-> t.eg, class |-> t.class, failed |-> t.failed] /\ t.failed \in BOOLEAN
         /\ t.eg = noted /\ t.class = class
    BY <2>4
  <2>12. ImportOK(d, t, k)
    BY <2>8, <2>9, <2>10, <2>11 DEF ImportOK
  <2> QED BY <2>12 DEF t, v
<1> QED BY <1>1, <1>2, <1>3

\* importGraph makes a sound e-graph, whether or not it stays in the budget.
LEMMA ImportSound ==
  ASSUME NEW g, GraphInv(g), NEW top \in 1 .. Len(g.values), NEW s, s = ImportGraph(g, top)
  PROVE  SoundEGraph(s.eg, g)
<1> DEFINE list == PostOrder(g, top)
           d == [graph |-> g, list |-> list]
           base == [eg |-> EmptyEGraph, class |-> <<>>, failed |-> FALSE]
<1>1. Closed(g, list)
  BY PostOrderClosed
<1>2. s = ImportFold!Folded(g, base, list)
  BY DEF ImportGraph, FoldLeft, MapThenFoldSet, Max, ImportFold!Folded, ImportFold!FoldTable
<1>3. d.graph = g /\ d.list = list
  OBVIOUS
<1>4. ImportOK(d, base, 0)
  <2>1. /\ base.eg = EmptyEGraph /\ base.class = <<>> /\ base.failed = FALSE
        /\ base = [eg |-> base.eg, class |-> base.class, failed |-> base.failed]
    OBVIOUS
  <2>2. DOMAIN <<>> = {} /\ 1 .. 0 = {}
    OBVIOUS
  <2> HIDE DEF base, d
  <2> QED BY <1>3, <2>1, <2>2, EmptyEGraphSound DEF ImportOK
<1> HIDE DEF list, base, d
<1>5. DOMAIN list = 1 .. Len(list) /\ Len(list) \in Nat
  BY <1>1 DEF Closed
<1>6. ASSUME NEW k \in 1 .. Len(list), NEW t, ImportOK(d, t, k - 1)
      PROVE  ImportOK(d, ImportValue(g, t, list[k]), k)
  BY <1>1, <1>3, <1>6, ValueImported
<1>7. ImportOK(d, ImportFold!Folded(g, base, list), Len(list))
  BY <1>4, <1>5, <1>6, ImportFold!FoldLeftInduction
<1> QED BY <1>2, <1>3, <1>7 DEF ImportOK

-----------------------------------------------------------------------------
(***************************************************************************)
(* The specification.                                                      *)
(***************************************************************************)

\* The invariant, in the terms of the lemmas.
LEMMA SoundIsAgrees ==
  ASSUME EGraphInv(eg, graph)
  PROVE  Sound <=> Agrees(eg)
<1>1. DOMAIN eg.enodes = 1 .. Len(eg.enodes)
  BY DEF EGraphInv, ENodesOK
<1>2. \A x : ENodeDenotes(eg, x, FALSE) = Den(eg.enodes, x)
  BY ENodeDenotesIsDen
<1>3. Sound <=> \A x \in Residues : \A i \in DOMAIN eg.enodes :
                  Den(eg.enodes, x)[i] = Den(eg.enodes, x)[eg.class[i]]
  BY <1>2, Zenon DEF Sound
<1> QED BY <1>1, <1>3, Zenon DEF Agrees

\* The e-graph of the state is sound.
StateSound == GraphInv(graph) /\ SoundEGraph(eg, graph)

\* The invariant gives the part about the graph and the e-graph.
LEMMA InvIsStateSound == IInv => StateSound
BY SoundIsAgrees DEF IInv, StateSound, SoundEGraph

\* The part of the invariant about the control of the loop.
ControlInv ==
  /\ pc \in {"build", "visit", "rebuilt", "saturated", "extracted", "failed"}
  /\ pc = "build" => eg = EmptyEGraph
  /\ grew \in BOOLEAN /\ iteration \in 0 .. MaxIterations
  /\ pc \in {"visit", "rebuilt", "build"} => iteration < MaxIterations
  /\ at \in Nat \ {0} /\ count \in 0 .. Len(eg.enodes)

\* The invariant is that part and the one about the control.
LEMMA InvParts == IInv <=> StateSound /\ ControlInv
BY SoundIsAgrees DEF IInv, StateSound, ControlInv, SoundEGraph

\* The e-graph is empty until the import.
LEMMA InitInv == Init => IInv
<1> SUFFICES ASSUME Init PROVE IInv
  OBVIOUS
<1>1. StateSound
  BY LeafGraphInv, EmptyEGraphSound DEF Init, StateSound
<1>2. ControlInv
  <2>1. /\ pc = "build" /\ eg = EmptyEGraph /\ grew = FALSE /\ iteration = 0 /\ at = 1 /\ count = 0
    BY DEF Init
  <2>2. Len(eg.enodes) = 0 /\ 0 \in 0 .. 0
    BY <2>1, EmptyEGraphSound
  <2>3. 0 \in 0 .. MaxIterations /\ 0 < MaxIterations
    BY IterationsAssumption
  <2>4. grew \in BOOLEAN
    BY <2>1
  <2>5. /\ iteration \in 0 .. MaxIterations /\ iteration < MaxIterations
        /\ at \in Nat \ {0} /\ count \in 0 .. Len(eg.enodes)
    BY <2>1, <2>2, <2>3
  <2>6. pc = "build" /\ eg = EmptyEGraph
    BY <2>1
  <2> QED BY <2>4, <2>5, <2>6 DEF ControlInv
<1> QED BY <1>1, <1>2, InvParts

\* Every step keeps the e-graph sound.
LEMMA NextInv == IInv /\ [Next]_vars => IInv'
<1> SUFFICES ASSUME IInv, [Next]_vars PROVE IInv'
  OBVIOUS
<1>1. StateSound /\ ControlInv
  BY InvParts
<1>2. SUFFICES StateSound' /\ ControlInv'
  BY InvParts, PTL
<1>3. Len(eg.enodes) \in Nat /\ MaxIterations \in Nat /\ iteration \in Nat
  BY <1>1, IterationsAssumption DEF StateSound, SoundEGraph, EGraphInv, ENodesOK, ControlInv
<1>4. ASSUME NEW op \in Operations, NEW inputs \in Operands(graph, op), AddOperation(op, inputs)
      PROVE  StateSound' /\ ControlInv'
  <2> DEFINE attr == IF op = "reduce" THEN 1 ELSE 0
  <2>1. graph' = AddNode(graph, op, inputs, attr) /\ eg' = eg /\ eg = EmptyEGraph /\ MayAddNode(graph, inputs)
    BY <1>1, <1>4 DEF AddOperation, ControlInv
  <2>2. inputs \in Seq(Nat)
    <3>1. DOMAIN graph.values \subseteq Nat
      BY <1>1 DEF StateSound, GraphInv
    <3> DEFINE V == DOMAIN graph.values
    <3> HIDE DEF V
    <3>2. \A a, b \in V : <<a, b>> \in Seq(Nat) /\ <<a>> \in Seq(Nat)
      <4> SUFFICES ASSUME NEW a \in Nat, NEW b \in Nat PROVE <<a, b>> \in Seq(Nat) /\ <<a>> \in Seq(Nat)
        BY <3>1 DEF V
      <4> QED OBVIOUS
    <3>3. (\E a, b \in V : inputs = <<a, b>>) \/ (\E a \in V : inputs = <<a>>)
      <4>1. CASE op = "pow"
        BY <4>1 DEF Operands, V
      <4>2. CASE op = "reduce"
        BY <4>2 DEF Operands, V
      <4>3. CASE op # "pow" /\ op # "reduce"
        <5>1. inputs \in V \X V
          BY <4>3 DEF Operands, V
        <5> QED BY <5>1
      <4> QED BY <4>1, <4>2, <4>3
    <3> QED BY <3>2, <3>3
  <2>3. op \in OperationNames /\ attr \in Nat
    BY OperationsAssumption DEF OperationNames
  <2> HIDE DEF attr
  <2>4. GraphInv(graph')
    BY <1>1, <2>1, <2>2, <2>3, NodeAdded DEF StateSound
  <2>5. SoundEGraph(eg', graph')
    BY <2>1, EmptyEGraphSound
  <2>6. ControlInv'
    BY <1>1, <1>4 DEF AddOperation, ControlInv
  <2> QED BY <2>4, <2>5, <2>6 DEF StateSound
<1>5. CASE Import
  <2> DEFINE s == ImportGraph(graph, NewestValue(graph))
  <2>1. /\ pc = "build" /\ Len(graph.nodes) > 0 /\ eg' = s.eg
        /\ \/ pc' = "failed" /\ UNCHANGED <<root, count, sizes>>
           \/ pc' = "visit" /\ count' = Len(s.eg.enodes)
        /\ UNCHANGED <<graph, at, grew, iteration, extracted>>
    BY <1>5 DEF Import
  <2>2. NewestValue(graph) \in 1 .. Len(graph.values)
    <3>1. graph.nodes[1].result \in 1 .. Len(graph.values) /\ Len(graph.values) \in Nat
      <4>1. graph.nodes \in Seq(GraphNode) /\ graph.values \in Seq(GraphValue)
        BY <1>1 DEF StateSound, GraphInv
      <4>2. 1 \in 1 .. Len(graph.nodes)
        BY <2>1, <4>1
      <4> QED BY <1>1, <4>1, <4>2 DEF StateSound, GraphInv
    <3> QED BY <3>1 DEF NewestValue
  <2> HIDE DEF s
  <2>3. SoundEGraph(s.eg, graph)
    BY <1>1, <2>2, ImportSound DEF StateSound, s
  <2>4. StateSound'
    BY <1>1, <2>1, <2>3 DEF StateSound
  <2>5. Len(s.eg.enodes) \in Nat
    BY <2>3 DEF SoundEGraph, EGraphInv, ENodesOK
  <2>6. count = 0
    BY <1>1, <2>1, EmptyEGraphSound DEF ControlInv
  <2>7. ControlInv'
    BY <1>1, <2>1, <2>5, <2>6 DEF ControlInv
  <2> QED BY <2>4, <2>7
<1>6. ASSUME NEW stale \in BOOLEAN, VisitENode(stale)
      PROVE  StateSound' /\ ControlInv'
  <2>1. /\ pc = "visit" /\ at <= count /\ ~Refused(eg)
        /\ eg' = VisitedENode(eg, graph, at, stale)
        /\ grew' = (grew \/ RuleApplies(eg, graph, at)) /\ at' = at + 1
        /\ UNCHANGED <<graph, root, pc, count, iteration, sizes, extracted>>
    BY <1>6 DEF VisitENode
  <2>2. at \in 1 .. Len(eg.enodes)
    BY <1>1, <1>3, <2>1 DEF ControlInv
  <2>3. SoundEGraph(eg', graph) /\ Len(eg.enodes) <= Len(eg'.enodes)
    BY <1>1, <2>1, <2>2, VisitedSound DEF StateSound
  <2>4. StateSound'
    BY <1>1, <2>1, <2>3 DEF StateSound
  <2>5. Len(eg'.enodes) \in Nat
    BY <2>3 DEF SoundEGraph, EGraphInv, ENodesOK
  <2>6. count' \in 0 .. Len(eg'.enodes)
    BY <1>1, <1>3, <2>1, <2>3, <2>5 DEF ControlInv
  <2>7. grew' \in BOOLEAN /\ at' \in Nat \ {0}
    <3>1. RuleApplies(eg, graph, at) \in BOOLEAN
      BY DEF RuleApplies, IdentityApplies, SquareApplies, IsConst
    <3> QED BY <1>1, <2>1, <3>1 DEF ControlInv
  <2>8. ControlInv'
    BY <1>1, <2>1, <2>6, <2>7 DEF ControlInv
  <2> QED BY <2>4, <2>8
<1>7. CASE EndIteration
  <2>1. /\ pc = "visit" /\ eg' = (IF grew THEN RebuildLookup(eg) ELSE eg)
        /\ iteration' = iteration + 1
        /\ pc' \in {"saturated", "rebuilt"} /\ (pc' = "rebuilt" => iteration' # MaxIterations)
        /\ UNCHANGED <<graph, root, at, count, grew, sizes, extracted>>
    BY <1>7 DEF EndIteration
  <2>2. SoundEGraph(eg', graph) /\ eg'.enodes = eg.enodes
    BY <1>1, <2>1, RebuildSound DEF StateSound
  <2>3. StateSound'
    BY <1>1, <2>1, <2>2 DEF StateSound
  <2>4. iteration < MaxIterations
    BY <1>1, <2>1 DEF ControlInv
  <2>5. ControlInv'
    BY <1>1, <1>3, <2>1, <2>2, <2>4 DEF ControlInv
  <2> QED BY <2>3, <2>5
<1>8. CASE NextIteration
  <2>1. StateSound'
    BY <1>1, <1>8 DEF NextIteration, StateSound
  <2>2. ControlInv'
    <3>1. /\ pc = "rebuilt" /\ pc' = "visit" /\ at' = 1 /\ count' = Len(eg.enodes) /\ grew' = FALSE
          /\ eg' = eg /\ iteration' = iteration
      BY <1>8 DEF NextIteration
    <3>2. iteration < MaxIterations /\ iteration \in 0 .. MaxIterations
      BY <1>1, <3>1 DEF ControlInv
    <3>3. count' \in 0 .. Len(eg'.enodes)
      BY <1>3, <3>1
    <3>4. grew' \in BOOLEAN
      BY <3>1
    <3>5. at' \in Nat \ {0} /\ iteration' < MaxIterations /\ iteration' \in 0 .. MaxIterations
      BY <3>1, <3>2
    <3>6. pc' = "visit"
      BY <3>1
    <3> HIDE <3>1
    <3> QED BY <3>3, <3>4, <3>5, <3>6 DEF ControlInv
  <2> QED BY <2>1, <2>2
<1>9. CASE ExtractBest
  BY <1>1, <1>9 DEF ExtractBest, StateSound, ControlInv
<1>10. CASE UNCHANGED vars
  BY <1>1, <1>10 DEF vars, StateSound, ControlInv
<1> QED BY <1>4, <1>5, <1>6, <1>7, <1>8, <1>9, <1>10 DEF Next, Terminated

\* The invariant of the e-graph.
THEOREM EGraphInvariant == Spec => []IInv
BY InitInv, NextInv, PTL DEF Spec

\* The control state and the tables of egraph.cpp have their types, and e-nodes
\* stay in the node budget, whatever graph is imported.
THEOREM EGraphTypeCorrect == Spec => []TypeOK
<1>1. IInv => TypeOK
  <2> SUFFICES ASSUME IInv PROVE TypeOK
    OBVIOUS
  <2>1. /\ ENodesOK(eg.enodes) /\ ForestOK(eg, Len(eg.enodes)) /\ MembersOK(eg, Len(eg.enodes))
        /\ Len(eg.enodes) <= MaxENodes
    BY DEF IInv, EGraphInv
  <2>2. ASSUME NEW i \in DOMAIN eg.enodes, NEW k \in DOMAIN eg.enodes[i].children
        PROVE  eg.enodes[i].children[k] < i
    <3>1. i \in 1 .. Len(eg.enodes) /\ eg.enodes[i] \in ENode
      BY <2>1, ElementOfSeq DEF ENodesOK
    <3>2. eg.enodes[i].children \in Seq(Nat)
      BY <3>1 DEF ENode
    <3>3. eg.enodes[i].children[k] \in 1 .. i - 1
      BY <2>1, <3>1, <3>2, SMTT(30) DEF ENodesOK
    <3> QED BY <3>1, <3>3
  <2> QED BY <2>1, <2>2 DEF TypeOK, IInv, ForestOK, MembersOK
<1> QED BY <1>1, EGraphInvariant, PTL

\* unionClasses, internENode and rebuildLookup keep the parents, the member
\* lists, the owner table and liveClasses_ of egraph.cpp in agreement.
THEOREM PartitionIsConsistent == Spec => []PartitionConsistent
<1>1. IInv => PartitionConsistent
  <2> SUFFICES ASSUME IInv PROVE PartitionConsistent
    OBVIOUS
  <2> DEFINE n == Len(eg.enodes)
  <2>1. /\ ENodesOK(eg.enodes) /\ ForestOK(eg, n) /\ MembersOK(eg, n)
        /\ eg.live = Cardinality(Roots(eg))
    BY DEF IInv, EGraphInv
  <2>2. n \in Nat /\ DOMAIN eg.enodes = 1 .. n /\ Classes(eg) = 1 .. n
    BY <2>1 DEF ENodesOK, ForestOK, Classes
  <2>3. \A c \in 1 .. n : eg.parent[c] <= c
    BY <2>1 DEF ForestOK
  <2>4. \A i \in 1 .. n : eg.class[i] = Find(eg, i)
    BY <2>1, <2>2, FindIsOwner
  <2>5. \A c \in 1 .. n : ToSet(eg.members[c]) = {i \in 1 .. n : eg.class[i] = c}
    BY <2>1 DEF MembersOK
  <2> HIDE DEF n
  <2> QED BY <2>1, <2>2, <2>3, <2>4, <2>5 DEF PartitionConsistent
<1> QED BY <1>1, EGraphInvariant, PTL

\* The rules and the rebuild unite only e-nodes that denote the same value for
\* every input, over any prime field, whatever classes the unions empty and
\* whatever the reads of emptied classes return.
THEOREM UnionsAreSound == Spec => []Sound
<1>1. IInv => Sound
  BY DEF IInv
<1> QED BY <1>1, EGraphInvariant, PTL
=============================================================================
