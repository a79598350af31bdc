-------------------------------- MODULE EGraph --------------------------------
(***************************************************************************)
(* The e-graph of compiler/src/passes/egraph/egraph.cpp as operators on a  *)
(* record: e-nodes, the union-find forest over e-classes, the members of   *)
(* each class, the lookup table and the sources of the leaves.             *)
(* A key of the lookup table stands for the hash of an e-node: the model   *)
(* has no collisions. Class c is the class made for e-node c.              *)
(***************************************************************************)
EXTENDS MathGraph

CONSTANTS
  MaxENodes,     \* EGraphConfig::maxNodes
  MaxCostDepth   \* kEgraphMaxClassesPerNode: depth of the cost recursion

ASSUME EGraphBoundsAssumption == MaxENodes \in Nat /\ MaxCostDepth \in Nat

TooDeep   == 10000       \* 1e9 in the code: cost past the depth bound

EmptyEGraph == [enodes |-> <<>>, parent |-> <<>>, members |-> <<>>, lookup |-> <<>>,
                class |-> <<>>, leaf |-> <<>>, live |-> 0]

Classes(e) == DOMAIN e.parent

Find(e, c) ==
  LET root[d \in Classes(e)] == IF e.parent[d] = d THEN d ELSE root[e.parent[d]]
  IN root[c]

Roots(e) == {c \in Classes(e) : e.parent[c] = c}

OpBaseCost(op) == CASE op \in {"add", "sub", "mul"} -> 1
                    [] op = "div" -> 4
                    [] op = "pow" -> 8
                    [] op = "box" -> 0
                    [] OTHER -> 2

-----------------------------------------------------------------------------
(***************************************************************************)
(* internENode: a class whose first member is this very e-node is reused.  *)
(* The table may name a class that a union of this iteration has emptied:  *)
(* classMembers_[...][0] then reads past the end of an empty vector, whose *)
(* storage still holds the old member or not. "stale" is that outcome.     *)
(***************************************************************************)
\* Mutant: the budget is never applied.
RefusedNever(e) == FALSE

Refused(e) == Len(e.enodes) >= MaxENodes

ReadsEmptied(e, en) == en \in DOMAIN e.lookup /\ e.members[e.lookup[en]] = <<>>

Known(e, en, stale) ==
  /\ en \in DOMAIN e.lookup
  /\ IF ReadsEmptied(e, en) THEN stale ELSE e.enodes[e.members[e.lookup[en]][1]] = en

Intern(e, en, stale) ==
  IF Known(e, en, stale) THEN e
  ELSE LET c == Len(e.enodes) + 1
       IN [e EXCEPT !.enodes = Append(@, en), !.parent = Append(@, c),
                    !.members = Append(@, <<c>>), !.class = Append(@, c),
                    !.lookup = [k \in DOMAIN @ \union {en} |-> IF k = en THEN c ELSE @[k]],
                    !.live = @ + 1]

\* After Intern the table names the class of en.
InternedClass(e, en) == e.lookup[en]

\* Mutant: the members move but do not learn their new class.
MergedKeepOwner(e, keep, gone) ==
  [e EXCEPT !.parent[gone] = keep, !.live = @ - 1,
            !.members = [e.members EXCEPT ![keep] = @ \o e.members[gone], ![gone] = <<>>]]

\* Root gone goes under root keep, which takes its members.
Merged(e, keep, gone) ==
  [e EXCEPT !.parent[gone] = keep, !.live = @ - 1,
            !.members = [e.members EXCEPT ![keep] = @ \o e.members[gone], ![gone] = <<>>],
            !.class = [i \in DOMAIN @ |-> IF i \in ToSet(e.members[gone]) THEN keep ELSE @[i]]]

\* The class with the smaller id stays the root.
UnionClasses(e, x, y) ==
  LET a == Find(e, x)
      b == Find(e, y)
  IN IF a < b THEN Merged(e, a, b) ELSE IF b < a THEN Merged(e, b, a) ELSE e

-----------------------------------------------------------------------------
(***************************************************************************)
(* importGraph: the tree under the root, children first. A shared operand  *)
(* is visited once per use and interned once.                              *)
(***************************************************************************)
PostOrder(g, root) ==
  LET visit[v \in DOMAIN g.values] ==
        IF g.values[v].kind # "result" THEN <<v>>
        ELSE LET ins == g.nodes[g.values[v].producer].inputs
             IN FoldLeft(LAMBDA seq, in : seq \o visit[in], <<>>, ins) \o <<v>>
  IN visit[root]

LeafENode(g, v) == [op |-> "box", attr |-> <<g.values[v].kind, g.values[v].payload>>, children |-> <<>>]

\* State of the import: the e-graph, the class of each value, budget exceeded.
ImportValue(g, s, v) ==
  LET node == g.nodes[g.values[v].producer]
      en == IF g.values[v].kind # "result" THEN LeafENode(g, v)
            ELSE [op |-> node.op, attr |-> <<"attr", node.attr>>,
                  children |-> [k \in DOMAIN node.inputs |-> s.class[node.inputs[k]]]]
      e == Intern(s.eg, en, TRUE)
      c == InternedClass(e, en)
  IN IF s.failed \/ Refused(s.eg) THEN [s EXCEPT !.failed = TRUE]
     ELSE [eg |-> IF g.values[v].kind = "result" \/ c \in DOMAIN e.leaf THEN e
                  ELSE [e EXCEPT !.leaf = [d \in DOMAIN @ \union {c} |-> IF d = c THEN v ELSE @[d]]],
           class |-> [w \in DOMAIN s.class \union {v} |-> IF w = v THEN c ELSE s.class[w]],
           failed |-> FALSE]

ImportGraph(g, root) ==
  FoldLeft(LAMBDA s, v : ImportValue(g, s, v),
           [eg |-> EmptyEGraph, class |-> <<>>, failed |-> FALSE], PostOrder(g, root))

-----------------------------------------------------------------------------
(***************************************************************************)
(* saturateOnce, one e-node at a time, and rebuildLookup.                  *)
(***************************************************************************)
IsConst(e, g, c, payload) ==
  c \in DOMAIN e.leaf /\ g.values[e.leaf[c]].kind = "constant" /\ g.values[e.leaf[c]].payload = payload

Left(e, i)  == Find(e, e.enodes[i].children[1])
Right(e, i) == Find(e, e.enodes[i].children[2])

Unit(op) == IF op = "mul" THEN 1 ELSE 0

\* Mutant: the two children are united instead of the parent and the survivor.
ApplyIdentityChildren(e, g, i) ==
  LET op == e.enodes[i].op
  IN IF op \notin {"add", "mul"} THEN e
     ELSE IF IsConst(e, g, Left(e, i), Unit(op)) \/ IsConst(e, g, Right(e, i), Unit(op))
          THEN UnionClasses(e, Left(e, i), Right(e, i)) ELSE e

\* The class of op(unit, x) is united with the class of x.
ApplyIdentity(e, g, i) ==
  LET op == e.enodes[i].op
  IN IF op \notin {"add", "mul"} THEN e
     ELSE IF IsConst(e, g, Left(e, i), Unit(op)) THEN UnionClasses(e, e.class[i], Right(e, i))
     ELSE IF IsConst(e, g, Right(e, i), Unit(op)) THEN UnionClasses(e, e.class[i], Left(e, i))
     ELSE e

IdentityApplies(e, g, i) ==
  LET op == e.enodes[i].op
  IN op \in {"add", "mul"} /\ (IsConst(e, g, Left(e, i), Unit(op)) \/ IsConst(e, g, Right(e, i), Unit(op)))

SquareApplies(e, g, i) == e.enodes[i].op = "pow" /\ IsConst(e, g, Right(e, i), 2)

Square(e, i) == [op |-> "mul", attr |-> <<"attr", 0>>, children |-> <<Left(e, i), Left(e, i)>>]

\* pow(x, 2) is united with mul(x, x).
ApplySquare(e, i, stale) ==
  LET f == Intern(e, Square(e, i), stale)
  IN UnionClasses(f, f.class[i], InternedClass(f, Square(e, i)))

\* The e-nodes of the canonical classes in the order the rebuild visits them.
Entries(e) ==
  FoldLeft(LAMBDA seq, c : seq \o e.members[Find(e, c)], <<>>, [c \in Classes(e) |-> c])

\* Positions of the first two entries that are equal and in different classes.
Clashing(e) ==
  LET s == Entries(e)
  IN {p \in DOMAIN s : \E q \in 1 .. p - 1 :
        e.enodes[s[q]] = e.enodes[s[p]] /\ e.class[s[q]] # e.class[s[p]]}

MergeFirstClash(e) ==
  LET s == Entries(e)
      p == CHOOSE k \in Clashing(e) : \A l \in Clashing(e) : k <= l
      q == CHOOSE k \in 1 .. p : /\ e.enodes[s[k]] = e.enodes[s[p]]
                                 /\ \A l \in 1 .. k - 1 : e.enodes[s[l]] # e.enodes[s[p]]
  IN UnionClasses(e, e.class[s[q]], e.class[s[p]])

RebuildLookup(e) ==
  LET merged[k \in 0 .. Len(e.parent)] ==
        IF k = 0 THEN e
        ELSE LET f == merged[k - 1] IN IF Clashing(f) = {} THEN f ELSE MergeFirstClash(f)
      f == merged[Len(e.parent)]
  IN [f EXCEPT !.lookup = [en \in ToSet(f.enodes) |->
                 f.class[CHOOSE i \in DOMAIN f.enodes : f.enodes[i] = en]]]

\* The loop body for e-node i: the identity rules, then the square rule,
\* which looks at the classes as the other left them.
VisitedENode(e, g, i, stale) ==
  IF Len(e.enodes[i].children) # 2 THEN e
  ELSE LET f == ApplyIdentity(e, g, i)
       IN IF SquareApplies(e, g, i) THEN ApplySquare(f, i, stale) ELSE f

\* A rule that applies says that the e-graph grew, whatever it merged.
RuleApplies(e, g, i) ==
  Len(e.enodes[i].children) = 2 /\ (IdentityApplies(e, g, i) \/ SquareApplies(e, g, i))

\* saturateOnce; the loop stops at the node budget.
SaturateOnce(e, g, stale) ==
  LET visit(s, i) == IF Refused(s.eg) THEN s
                     ELSE [eg |-> VisitedENode(s.eg, g, i, stale),
                           grew |-> s.grew \/ RuleApplies(s.eg, g, i)]
      s == FoldLeft(visit, [eg |-> e, grew |-> FALSE], [i \in DOMAIN e.enodes |-> i])
  IN [eg |-> IF s.grew THEN RebuildLookup(s.eg) ELSE s.eg, grew |-> s.grew]

\* At most n iterations, until one does not grow or the budget is reached.
Saturated(e, g, n, stale) ==
  LET run[k \in 0 .. n] ==
        IF k = 0 THEN [eg |-> e, grew |-> TRUE]
        ELSE LET s == run[k - 1]
             IN IF s.grew /\ ~Refused(s.eg) THEN SaturateOnce(s.eg, g, stale) ELSE s
  IN run[n].eg

-----------------------------------------------------------------------------
(***************************************************************************)
(* subtreeCost and extract: the cheapest e-node per class, by a recursion  *)
(* that follows every member to MaxCostDepth.                              *)
(***************************************************************************)
SumOver(f, s) == FoldLeft(LAMBDA acc, c : acc + f[c], 0, s)

\* The sequence f itself, as a tuple that TLC has evaluated once.
Tabulated(f) == f \o <<>>

SubtreeCosts(e, depth) ==
  LET cost[d \in 0 .. MaxCostDepth + 1] ==
        \* costs of all classes at recursion depth MaxCostDepth + 1 - d
        IF d = 0 THEN Tabulated([c \in Classes(e) |-> TooDeep])
        ELSE LET below == cost[d - 1]
             IN Tabulated([c \in Classes(e) |->
                  LET costs == {OpBaseCost(e.enodes[i].op) + SumOver(below, e.enodes[i].children) :
                                  i \in ToSet(e.members[Find(e, c)])}
                  IN IF costs = {} THEN 0 ELSE CHOOSE m \in costs : \A k \in costs : m <= k])
  IN cost[MaxCostDepth + 1 - depth]

SubtreeCost(e, c) == SubtreeCosts(e, 0)[c]

\* Calls of subtreeCost that the cost of one class takes.
CostCalls(e, c) ==
  LET calls[d \in 0 .. MaxCostDepth + 1] ==
        IF d = 0 THEN Tabulated([k \in Classes(e) |-> 1])
        ELSE LET below == calls[d - 1]
             IN Tabulated([k \in Classes(e) |->
                  1 + FoldLeft(LAMBDA acc, i : acc + SumOver(below, e.enodes[i].children), 0,
                               e.members[Find(e, k)])])
  IN calls[MaxCostDepth + 1][c]

ENodeCost(e, costs, i) == OpBaseCost(e.enodes[i].op) + SumOver(costs, e.enodes[i].children)

\* The first member of least cost.
BestMember(e, costs, c) ==
  LET s == e.members[Find(e, c)]
  IN s[CHOOSE p \in DOMAIN s : \A q \in DOMAIN s :
         LET d == ENodeCost(e, costs, s[q]) - ENodeCost(e, costs, s[p]) IN d > 0 \/ (d = 0 /\ p <= q)]

\* materialize: the canonical classes in the order they are finished, the root
\* last; it fails when a class is met past EquivalenceDepth, finished or not.
MaterializeOrder(e, root) ==
  LET costs == SubtreeCosts(e, 0)
      visit[depth \in 0 .. EquivalenceDepth + 1, s \in [done : Seq(Classes(e)), failed : BOOLEAN],
            c \in Classes(e)] ==
        LET child(t, d) == visit[depth + 1, t, Find(e, d)]
            t == FoldLeft(child, s, e.enodes[BestMember(e, costs, c)].children)
        IN IF s.failed \/ depth > EquivalenceDepth THEN [s EXCEPT !.failed = TRUE]
           ELSE IF c \in ToSet(s.done) THEN s
           ELSE IF t.failed THEN t ELSE [t EXCEPT !.done = Append(@, c)]
  IN visit[0, [done |-> <<>>, failed |-> FALSE], Find(e, root)]

\* Mutant: a leaf's payload is read through the wrong slot.
MaterializeClassNoPayload(e, g, costs, s, c) ==
  LET en == e.enodes[BestMember(e, costs, c)]
      src == g.values[e.leaf[c]]
      h == IF en.op = "box" THEN AllocateValue(s.graph, Value(src.kind, 0, 0))
           ELSE AddNode(s.graph, en.op, [k \in DOMAIN en.children |-> s.memo[Find(e, en.children[k])]], 0)
  IN [graph |-> h,
      memo |-> [d \in DOMAIN s.memo \union {c} |-> IF d = c THEN NewestValue(h) ELSE s.memo[d]]]

\* One class: a leaf is copied from its source, a node is built from its
\* children; its attributes are not passed on.
MaterializeClass(e, g, costs, s, c) ==
  LET en == e.enodes[BestMember(e, costs, c)]
      src == g.values[e.leaf[c]]
      h == IF en.op = "box" THEN AllocateValue(s.graph, Value(src.kind, src.payload, 0))
           ELSE AddNode(s.graph, en.op, [k \in DOMAIN en.children |-> s.memo[Find(e, en.children[k])]], 0)
  IN [graph |-> h,
      memo |-> [d \in DOMAIN s.memo \union {c} |-> IF d = c THEN NewestValue(h) ELSE s.memo[d]]]

\* The extracted graph and its root value, from the order of materialize.
Extract(e, g, order) ==
  LET costs == SubtreeCosts(e, 0)
      s == FoldLeft(LAMBDA t, c : MaterializeClass(e, g, costs, t, c),
                    [graph |-> EmptyGraph, memo |-> <<>>], order)
  IN [graph |-> s.graph, root |-> s.memo[Last(order)]]
=============================================================================
