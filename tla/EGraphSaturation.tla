--------------------------- MODULE EGraphSaturation ---------------------------
(***************************************************************************)
(* The life of one e-graph in passes/egraph: import of the first output of *)
(* a graph, saturation iterations that visit the e-nodes in their order,   *)
(* the rebuild of the lookup table, extraction. The graph is built first,  *)
(* as a frontend does, from the leaves and operations given.               *)
(***************************************************************************)
EXTENDS EGraph

CONSTANTS
  Leaves,         \* sequence of [kind, payload]: the leaves of the graph
  Operations,     \* operations a frontend may append
  MaxOperations,  \* bound: operations of the graph
  MaxIterations   \* EGraphConfig::maxIterations

ASSUME LeavesAssumption ==
  Leaves \in Seq([kind : {"placeholder", "constant"}, payload : Residues])

\* Operations that evalScalar computes, and the reductions.
ASSUME OperationsAssumption ==
  Operations \subseteq {"add", "sub", "mul", "div", "pow", "neg", "ffi", "lift", "matmul", "reduce"}

ASSUME IterationsAssumption == MaxIterations \in Nat \ {0}

VARIABLES
  graph,      \* the imported graph
  eg,         \* the e-graph
  root,       \* class of the imported root
  pc,         \* "build", "visit", "rebuilt", "saturated", "extracted", "failed"
  at, count,  \* the loop of saturateOnce: next e-node, e-nodes at its start
  grew,       \* result of the iteration
  iteration,  \* iterations finished
  sizes,      \* history: e-nodes and live classes when the iteration began
  extracted   \* result of extract

vars == <<graph, eg, root, pc, at, count, grew, iteration, sizes, extracted>>

LeafGraph ==
  FoldLeft(LAMBDA g, l : AllocateValue(g, Value(l.kind, l.payload, 0)), EmptyGraph, Leaves)

NothingExtracted == [graph |-> EmptyGraph, root |-> 0]

Sizes(e) == [enodes |-> Len(e.enodes), live |-> e.live]

Init ==
  /\ graph = LeafGraph
  /\ eg = EmptyEGraph
  /\ root = 0 /\ pc = "build" /\ at = 1 /\ count = 0 /\ grew = FALSE /\ iteration = 0
  /\ sizes = Sizes(EmptyEGraph)
  /\ extracted = NothingExtracted

\* A square has the constant 2 as its exponent; a reduction carries an axis.
Operands(g, op) ==
  CASE op = "pow"    -> {<<a, b>> : a \in DOMAIN g.values,
                          b \in {v \in DOMAIN g.values : g.values[v].kind = "constant" /\ g.values[v].payload = 2}}
    [] op = "reduce" -> {<<a>> : a \in DOMAIN g.values}
    [] OTHER         -> (DOMAIN g.values) \X (DOMAIN g.values)

AddOperation(op, inputs) ==
  /\ pc = "build" /\ Len(graph.nodes) < MaxOperations
  /\ MayAddNode(graph, inputs)
  /\ graph' = AddNode(graph, op, inputs, IF op = "reduce" THEN 1 ELSE 0)
  /\ UNCHANGED <<eg, root, pc, at, count, grew, iteration, sizes, extracted>>

Import ==
  /\ pc = "build" /\ Len(graph.nodes) > 0
  /\ LET s == ImportGraph(graph, NewestValue(graph))
     IN /\ eg' = s.eg
        /\ IF s.failed
           THEN pc' = "failed" /\ UNCHANGED <<root, count, sizes>>
           ELSE /\ root' = s.class[NewestValue(graph)]
                /\ pc' = "visit"
                /\ count' = Len(s.eg.enodes)
                /\ sizes' = Sizes(s.eg)
  /\ UNCHANGED <<graph, at, grew, iteration, extracted>>

\* One turn of the loop of saturateOnce.
VisitENode(stale) ==
  /\ pc = "visit" /\ at <= count /\ ~Refused(eg)
  /\ eg' = VisitedENode(eg, graph, at, stale)
  /\ grew' = (grew \/ RuleApplies(eg, graph, at))
  /\ at' = at + 1
  /\ UNCHANGED <<graph, root, pc, count, iteration, sizes, extracted>>

\* The loop ends at its last e-node, or when the node budget is reached.
EndIteration ==
  /\ pc = "visit" /\ (at > count \/ Refused(eg))
  /\ eg' = IF grew THEN RebuildLookup(eg) ELSE eg
  /\ iteration' = iteration + 1
  /\ pc' = IF ~grew \/ iteration' = MaxIterations \/ Refused(eg) THEN "saturated" ELSE "rebuilt"
  /\ UNCHANGED <<graph, root, at, count, grew, sizes, extracted>>

NextIteration ==
  /\ pc = "rebuilt"
  /\ pc' = "visit" /\ at' = 1 /\ count' = Len(eg.enodes) /\ grew' = FALSE
  /\ sizes' = Sizes(eg)
  /\ UNCHANGED <<graph, eg, root, iteration, extracted>>

ExtractBest ==
  /\ pc = "saturated"
  /\ LET order == MaterializeOrder(eg, root)
     IN IF order.failed
        THEN pc' = "failed" /\ UNCHANGED extracted
        ELSE pc' = "extracted" /\ extracted' = Extract(eg, graph, order.done)
  /\ UNCHANGED <<graph, eg, root, at, count, grew, iteration, sizes>>

Terminated == pc \in {"extracted", "failed"} /\ UNCHANGED vars

Next ==
  \/ \E op \in Operations : \E inputs \in Operands(graph, op) : AddOperation(op, inputs)
  \/ Import
  \/ \E stale \in BOOLEAN : VisitENode(stale)
  \/ EndIteration
  \/ NextIteration
  \/ ExtractBest
  \/ Terminated

Spec == Init /\ [][Next]_vars

-----------------------------------------------------------------------------
(***************************************************************************)
(* What an e-node denotes: e-node i made class i, so its children are      *)
(* e-nodes with smaller numbers.                                           *)
(***************************************************************************)
NegativeZero == Modulus
Magnitude(a) == IF a = NegativeZero THEN 0 ELSE a
Negative(a)  == 2 * a > Modulus

\* Doubles with signed zeros, as far as the rules can tell them apart.
EvalSigned(op, a, b) ==
  LET product == (Magnitude(a) * Magnitude(b)) % Modulus
      zero == IF Negative(a) # Negative(b) THEN NegativeZero ELSE 0
  IN CASE op = "add" -> IF a = NegativeZero THEN b ELSE IF b = NegativeZero THEN a ELSE (a + b) % Modulus
       [] op = "mul" -> IF product = 0 THEN zero ELSE product
       [] OTHER -> EvalScalar(op, Magnitude(a), Magnitude(b))

Denote(op, attr, a, b, signed) ==
  IF op = "reduce" THEN (a + attr) % Modulus  \* any function that depends on the axis
  ELSE IF signed THEN EvalSigned(op, a, b) ELSE EvalScalar(op, a, b)

ENodeDenotes(e, x, signed) ==
  LET den[i \in DOMAIN e.enodes] ==
        LET en == e.enodes[i]
            arg(k) == IF k \in DOMAIN en.children THEN den[en.children[k]] ELSE 0
        IN IF en.op = "box" THEN IF en.attr[1] = "constant" THEN en.attr[2] ELSE x
           ELSE Denote(en.op, en.attr[2], arg(1), arg(2), signed)
  IN den

ValueDenotes(g, v, x) ==
  LET den[w \in DOMAIN g.values] ==
        LET node == g.nodes[g.values[w].producer]
            arg(k) == IF k \in DOMAIN node.inputs THEN den[node.inputs[k]] ELSE 0
        IN IF g.values[w].kind = "constant" THEN g.values[w].payload
           ELSE IF g.values[w].kind = "placeholder" THEN x
           ELSE Denote(node.op, node.attr, arg(1), arg(2), FALSE)
  IN den[v]

\* Cost of a value as a tree, the measure that extraction minimises.
TreeCost(g, v) ==
  LET cost[w \in DOMAIN g.values] ==
        IF g.values[w].kind # "result" THEN 0
        ELSE LET node == g.nodes[g.values[w].producer]
             IN OpBaseCost(node.op) + SumOver(cost, node.inputs)
  IN cost[v]

(***************************************************************************)
(* Properties.                                                             *)
(***************************************************************************)

\* The control state and the sizes of the e-graph's tables.
TypeOK ==
  /\ pc \in {"build", "visit", "rebuilt", "saturated", "extracted", "failed"}
  /\ grew \in BOOLEAN /\ iteration \in 0 .. MaxIterations
  /\ Len(eg.enodes) <= MaxENodes
  /\ Len(eg.parent) = Len(eg.enodes) /\ Len(eg.members) = Len(eg.enodes)
  /\ \A i \in DOMAIN eg.enodes : \A k \in DOMAIN eg.enodes[i].children : eg.enodes[i].children[k] < i

\* The union-find forest, the member lists and the owner table tell the same
\* partition however unions and the rebuild interleave: parents never have
\* larger ids ("acyclic by construction", egraph.cpp:33), each e-node is in
\* the list of its root and in no other, and liveClasses_ counts the roots.
PartitionConsistent ==
  /\ \A c \in Classes(eg) : eg.parent[c] <= c
  /\ \A i \in DOMAIN eg.enodes : eg.class[i] = Find(eg, i)
  /\ \A c \in Classes(eg) : ToSet(eg.members[c]) = {i \in DOMAIN eg.enodes : eg.class[i] = c}
  /\ eg.live = Cardinality(Roots(eg))

\* Every union made by a rule or by the rebuild is right for every input, when
\* the domain has no negative zero: e-nodes of a class denote the same value
\* (compliance matrix, rule 177).
Sound ==
  \A x \in Residues : LET den == ENodeDenotes(eg, x, FALSE)
                      IN \A i \in DOMAIN eg.enodes : den[i] = den[eg.class[i]]

\* What is extracted denotes the root for every input and is no costlier than
\* the imported expression, after whatever merges the iterations made.
ExtractionPreserves ==
  pc = "extracted" =>
    /\ \A x \in Residues : ValueDenotes(extracted.graph, extracted.root, x)
                             = ValueDenotes(graph, NewestValue(graph), x)
    /\ TreeCost(extracted.graph, extracted.root) <= TreeCost(graph, NewestValue(graph))

-----------------------------------------------------------------------------
(***************************************************************************)
(* Claims of the documents and comments that the code does not keep.       *)
(***************************************************************************)

\* "Congruence closure emerges from dedup: merging classes re-keys their
\* enodes in the lookup table" (egraph.h:7): after a rebuild, e-nodes with the
\* same operation over the same classes are in the same class.
Congruent ==
  pc = "rebuilt" =>
    \A i, j \in DOMAIN eg.enodes :
      (/\ eg.enodes[i].op = eg.enodes[j].op /\ eg.enodes[i].attr = eg.enodes[j].attr
       /\ Len(eg.enodes[i].children) = Len(eg.enodes[j].children)
       /\ \A k \in DOMAIN eg.enodes[i].children :
            Find(eg, eg.enodes[i].children[k]) = Find(eg, eg.enodes[j].children[k]))
      => eg.class[i] = eg.class[j]

\* The class lists are read "post-find canonical" (egraph.h:126): a lookup
\* never reads the first member of a class that has none.
LookupsReadMembers ==
  (pc = "visit" /\ at <= count /\ Len(eg.enodes[at].children) = 2 /\ SquareApplies(eg, graph, at))
    => ~ReadsEmptied(ApplyIdentity(eg, graph, at), Square(eg, at))

\* saturateOnce "returns whether anything merged" (egraph.h:90).
GrewMeansMerged ==
  pc = "rebuilt" => eg.live < sizes.live \/ Len(eg.enodes) > sizes.enodes

\* Saturation runs "under strict budget" (egraph.h:3) and recursion depth is
\* bounded (compliance matrix, rule 109): costing a class takes no more calls
\* than the budget has nodes.
CostIsBudgeted == pc = "saturated" => CostCalls(eg, root) <= MaxENodes

\* "The e-graph is numerically sound end to end" (compliance matrix, rule
\* 177), with the signed zeros that a profile keeps by default.
SoundWithSignedZeros ==
  \A x \in Residues \union {NegativeZero} :
    LET den == ENodeDenotes(eg, x, TRUE) IN \A i \in DOMAIN eg.enodes : den[i] = den[eg.class[i]]

\* An extracted reduction is still the reduction of the graph ("the cheapest
\* equivalent form", egraph.extract.cpp:1).
ExtractionKeepsAttributes ==
  pc = "extracted" =>
    \A x \in Residues : ValueDenotes(extracted.graph, extracted.root, x)
                          = ValueDenotes(graph, NewestValue(graph), x)
=============================================================================
