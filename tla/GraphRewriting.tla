----------------------------- MODULE GraphRewriting -----------------------------
(***************************************************************************)
(* PipelineRunner::run over the rewriting passes: a frontend builds a math *)
(* graph, then compilations run passes on it in place. A pass sweeps over  *)
(* the nodes in the order they had when it began; between two passes the   *)
(* runner renumbers the graph, if the pass changed it, and verifies it.    *)
(* Any pass may be killed by a switch and the same graph is compiled again *)
(* at another tier, so the passes come in any order. math.commutative_sort *)
(* is taken to be killed; constants are floating-point constants of a      *)
(* profile that drops negative zeros.                                      *)
(***************************************************************************)
EXTENDS EGraph

CONSTANTS
  Leaves,         \* sequence of [kind, payload]: placeholders and constants
  Operations,     \* operations the frontend may append
  Passes,         \* passes that are not killed
  TestInputs,     \* values of the placeholders on which the graph is evaluated
  MaxOperations,  \* bound: operations of the frontend's graph
  MaxOutputs,     \* bound: outputs of the frontend's graph
  MaxPasses,      \* bound: passes run
  FixpointIterations  \* PassBudget::fixpointIterations

ASSUME LeavesAssumption ==
  Leaves \in Seq([kind : {"placeholder", "constant"}, payload : Residues])

\* The operations that evalScalar computes, and inputs that are values.
ASSUME OperationsAssumption ==
  Operations \subseteq {"add", "sub", "mul", "div", "pow", "neg", "ffi", "lift", "matmul"}

ASSUME TestInputsAssumption == TestInputs \subseteq Seq(Residues)

ASSUME RewritingBoundsAssumption ==
  MaxOperations \in Nat /\ MaxPasses \in Nat /\ FixpointIterations \in Nat \ {0}

VARIABLES
  graph,
  phase,     \* "build", "between", "pass", "stopped" (a pass failed), "rejected" (by the verifier)
  pass,      \* the pass of this compilation that runs, or ran last
  sub,       \* index of the sweep in the pass
  todo, at,  \* topoOrder() as the sweep began, and the position in it
  edited,    \* this round of sweeps has changed the graph
  changed,   \* the pass has
  rounds,    \* rounds finished
  passes,    \* passes begun
  interrupted,  \* history: the passes that have been stopped in their middle
  wanted     \* history: what the frontend's graph evaluates to

\* The variables that a pass begins with and that do not outlive it.
locals == <<sub, todo, at, edited, changed, rounds>>

vars == <<graph, phase, pass, locals, passes, interrupted, wanted>>

LeafGraph ==
  FoldLeft(LAMBDA g, l : AllocateValue(g, Value(l.kind, l.payload, 0)), EmptyGraph, Leaves)

Meaning(g) == [x \in TestInputs |-> InterpretGraph(g, x)]

Pure(g, n) == ~Effectful(g.nodes[n].op)
Operand(g, n, k) == g.nodes[n].inputs[k]
IsConstant(g, v) == g.values[v].kind = "constant"
IsPayload(g, v, c) == IsConstant(g, v) /\ g.values[v].payload = c

-----------------------------------------------------------------------------
(***************************************************************************)
(* The rewrites. Each operator gives the set of [graph, value] that a node *)
(* may be replaced by: the graph with what was appended to it and the      *)
(* value that takes over. But for cse there is at most one.                *)
(***************************************************************************)
Keep(g, v) == {[graph |-> g, value |-> v]}
Appended(g) == {[graph |-> g, value |-> NewestValue(g)]}

\* pow(x, 2) -> mul(x, x).
NormalizeOps(g, n) ==
  IF g.nodes[n].op = "pow" /\ IsPayload(g, Operand(g, n, 2), 2)
  THEN Appended(AddNode(g, "mul", <<Operand(g, n, 1), Operand(g, n, 1)>>, 0))
  ELSE {}

\* Of these operations five are folded, and a division by zero is not.
FoldsTo(g, n) ==
  LET c(k) == g.values[Operand(g, n, k)].payload
      op == g.nodes[n].op
  IN IF op \in {"add", "sub", "mul", "neg"} \/ (op = "div" /\ c(2) # 0)
     THEN {EvalScalar(op, c(1), IF Binary(op) THEN c(2) ELSE 0)} ELSE {}

ConstantFold(g, n) ==
  IF \A k \in DOMAIN g.nodes[n].inputs : IsConstant(g, Operand(g, n, k))
  THEN UNION {Appended(AddConstant(g, c)) : c \in FoldsTo(g, n)}
  ELSE {}

\* x + 0, 0 + x, x * 1, 1 * x -> x.
IdentityElim(g, n) ==
  LET op == g.nodes[n].op
      unit == IF op = "mul" THEN 1 ELSE 0
  IN IF op \notin {"add", "mul"} THEN {}
     ELSE IF IsPayload(g, Operand(g, n, 1), unit) THEN Keep(g, Operand(g, n, 2))
     ELSE IF IsPayload(g, Operand(g, n, 2), unit) THEN Keep(g, Operand(g, n, 1))
     ELSE {}

\* x - 0 -> x, x / 1 -> x, x / -1 -> neg(x), neg(neg(x)) -> x.
AlgebraicSimplify(g, n) ==
  LET op == g.nodes[n].op
      x == Operand(g, n, 1)
  IN CASE op = "sub" /\ IsPayload(g, Operand(g, n, 2), 0) -> Keep(g, x)
       [] op = "div" /\ IsPayload(g, Operand(g, n, 2), 1) -> Keep(g, x)
       [] op = "div" /\ IsPayload(g, Operand(g, n, 2), MinusOne) ->
            Appended(AddNode(g, "neg", <<x>>, 0))
       [] op = "neg" /\ LiveProducer(g, x) /\ g.nodes[g.values[x].producer].op = "neg" ->
            Keep(g, Operand(g, g.values[x].producer, 1))
       [] OTHER -> {}

\* x / c -> x * (1 / c) for a power of two c.
StrengthReduce(g, n) ==
  LET c == Operand(g, n, 2)
      h == AddConstant(g, Inverted(g.values[c].payload))
  IN IF g.nodes[n].op = "div" /\ (\E p \in {1, 2, MinusOne} : IsPayload(g, c, p))
     THEN Appended(AddNode(h, "mul", <<Operand(g, n, 1), NewestValue(h)>>, 0))
     ELSE {}

\* structurallyEqualValues: through the producers, effectful or not, to any
\* depth (the code gives up after 64 levels).
StructurallyEqual(g, v, w) ==
  LET eq[p \in (DOMAIN g.values) \X (DOMAIN g.values)] ==
        LET a == g.values[p[1]]
            b == g.values[p[2]]
            m == g.nodes[a.producer]
            n == g.nodes[b.producer]
        IN \/ p[1] = p[2]
           \/ a.kind = b.kind /\ a.kind # "result" /\ a.payload = b.payload
           \/ /\ a.kind = "result" /\ b.kind = "result"
              /\ m.op = n.op /\ m.attr = n.attr /\ Len(m.inputs) = Len(n.inputs)
              /\ \A k \in DOMAIN m.inputs : eq[<<m.inputs[k], n.inputs[k]>>]
  IN eq[<<v, w>>]

\* Mutant: hash equality on the operation is taken for equality.
EarlierEqualByOperation(g, order, k) ==
  {j \in 1 .. k - 1 : /\ ~g.nodes[order[j]].dead /\ Pure(g, order[j])
                      /\ g.nodes[order[j]].op = g.nodes[order[k]].op}

\* The nodes before position k that the sweep may merge it with. Which of them
\* the table holds under k's key, if any, is left open: keys are hashes, which
\* collide and go stale, and only the first node of a key is stored.
EarlierEqual(g, order, k) ==
  {j \in 1 .. k - 1 : /\ ~g.nodes[order[j]].dead /\ Pure(g, order[j])
                      /\ StructurallyEqual(g, g.nodes[order[j]].result, g.nodes[order[k]].result)}

CommonSubexpression(g, order, k) ==
  UNION {Keep(g, g.nodes[order[j]].result) : j \in EarlierEqual(g, order, k)}

Rewrites(sweep, g, order, k) ==
  LET n == order[k]
  IN IF g.nodes[n].dead \/ ~Pure(g, n) THEN {}
     ELSE CASE sweep = "normalize_ops"      -> NormalizeOps(g, n)
            [] sweep = "constant_fold"      -> ConstantFold(g, n)
            [] sweep = "identity_elim"      -> IdentityElim(g, n)
            [] sweep = "algebraic_simplify" -> AlgebraicSimplify(g, n)
            [] sweep = "strength_reduce"    -> StrengthReduce(g, n)
            [] sweep = "cse"                -> CommonSubexpression(g, order, k)
            [] OTHER                        -> {}

\* replaceResult: consumers are rewired first, then the equivalence is
\* recorded, then the node is killed.
ReplaceResult(g, n, v) ==
  LET r == g.nodes[n].result
  IN KillNode(RecordEquivalent(ReplaceOperandUses(g, r, v), r, v), n)

\* Values reached from the outputs and the effect chain through operands.
ReachedRoots(g) == ToSet(g.outputs) \union {g.nodes[g.chain[k]].result : k \in DOMAIN g.chain}

\* Mutant: the effect chain is not a root.
ReachedFromOutputs(g) ==
  LET OperandsOf(S) == UNION {ToSet(g.nodes[g.values[v].producer].inputs) :
                                v \in {w \in S : g.values[w].kind = "result"}}
      reach[k \in 0 .. Len(g.values)] ==
        IF k = 0 THEN ToSet(g.outputs) ELSE reach[k - 1] \union OperandsOf(reach[k - 1])
  IN reach[Len(g.values)]

Reached(g) ==
  LET OperandsOf(S) == UNION {ToSet(g.nodes[g.values[v].producer].inputs) :
                                v \in {w \in S : g.values[w].kind = "result"}}
      reach[k \in 0 .. Len(g.values)] ==
        IF k = 0 THEN ReachedRoots(g) ELSE reach[k - 1] \union OperandsOf(reach[k - 1])
  IN reach[Len(g.values)]

Unreached(g, n) == ~g.nodes[n].dead /\ Pure(g, n) /\ g.nodes[n].result \notin Reached(g)

\* The graphs that the sweep's visit of position k may leave, if it edits.
Edits(sweep, g, order, k) ==
  IF sweep = "dce"
  THEN IF Unreached(g, order[k]) THEN {KillNode(g, order[k])} ELSE {}
  ELSE {ReplaceResult(r.graph, order[k], r.value) : r \in Rewrites(sweep, g, order, k)}

\* math.canonicalize resolves its sub-passes at run time; the others are one sweep.
Sweeps(p) ==
  IF p = "canonicalize" THEN <<"normalize_ops", "constant_fold", "identity_elim">> ELSE <<p>>

-----------------------------------------------------------------------------
(***************************************************************************)
(* The frontend.                                                           *)
(***************************************************************************)
DropLocals ==
  /\ sub' = 1 /\ todo' = <<>> /\ at' = 1
  /\ edited' = FALSE /\ changed' = FALSE /\ rounds' = 0

Init ==
  /\ graph = LeafGraph /\ phase = "build" /\ pass = "none"
  /\ sub = 1 /\ todo = <<>> /\ at = 1 /\ edited = FALSE /\ changed = FALSE /\ rounds = 0
  /\ passes = 0 /\ interrupted = {}
  /\ wanted = [x \in TestInputs |-> <<>>]

\* Exponents and divisors are constants; a divisor is not 0.
Operands(g, op) ==
  LET constants == {v \in DOMAIN g.values : IsConstant(g, v)}
  IN CASE op = "pow" -> (DOMAIN g.values) \X {v \in constants : g.values[v].payload = 2}
       [] op = "div" -> (DOMAIN g.values) \X {v \in constants : g.values[v].payload # 0}
       [] Binary(op) /\ op \notin {"pow", "div"} -> (DOMAIN g.values) \X (DOMAIN g.values)
       [] OTHER -> {<<v>> : v \in DOMAIN g.values}

BuildNode(op, inputs) ==
  /\ phase = "build" /\ Len(graph.nodes) < MaxOperations /\ graph.outputs = <<>>
  /\ MayAddNode(graph, inputs)
  /\ graph' = AddNode(graph, op, inputs, 0)
  /\ UNCHANGED <<phase, pass, locals, passes, interrupted, wanted>>

\* Bound: outputs are added in the order of their values.
BuildOutput(v) ==
  /\ phase = "build" /\ Len(graph.nodes) > 0 /\ Len(graph.outputs) < MaxOutputs
  /\ graph.values[v].kind = "result" /\ \A k \in DOMAIN graph.outputs : graph.outputs[k] < v
  /\ graph' = AddOutput(graph, v)
  /\ UNCHANGED <<phase, pass, locals, passes, interrupted, wanted>>

\* ir.verify opens every pipeline.
Compile ==
  /\ phase \in {"build", "stopped"} /\ graph.outputs # <<>>
  /\ phase' = IF VerifyGraph(graph) THEN "between" ELSE "rejected"
  /\ wanted' = IF phase = "build" THEN Meaning(graph) ELSE wanted
  /\ pass' = "none"
  /\ UNCHANGED <<graph, locals, passes, interrupted>>

(***************************************************************************)
(* The passes.                                                             *)
(***************************************************************************)
BeginSweep(k) == sub' = k /\ todo' = TopoOrder(graph) /\ at' = 1

BeginPass(p) ==
  /\ phase = "between" /\ passes < MaxPasses
  /\ phase' = "pass" /\ pass' = p /\ passes' = passes + 1
  /\ BeginSweep(1)
  /\ UNCHANGED <<graph, edited, changed, rounds, interrupted, wanted>>

\* Positions from at on whose visit may edit the graph; other visits change
\* nothing.
EditPositions == {k \in at .. Len(todo) : Edits(Sweeps(pass)[sub], graph, todo, k) # {}}

\* A visit that finds something to edit edits, except that the table of cse may
\* not lead to what there is.
Missed == pass = "cse"

PassesOver(k) == Missed \/ \A l \in EditPositions : k <= l

Edit ==
  /\ phase = "pass" /\ pass \notin {"extract", "annotate"}
  /\ \E k \in EditPositions :
       /\ PassesOver(k)
       /\ graph' \in Edits(Sweeps(pass)[sub], graph, todo, k)
       /\ at' = k + 1
  /\ edited' = TRUE /\ changed' = TRUE
  /\ UNCHANGED <<phase, pass, sub, todo, rounds, passes, interrupted, wanted>>

\* The edit budget is consumed right after an edit, and cancellation is
\* polled between nodes: the pass returns an error where it stands.
StopPass ==
  /\ phase = "pass" /\ changed
  /\ phase' = "stopped" /\ interrupted' = interrupted \union {pass}
  /\ DropLocals
  /\ UNCHANGED <<graph, pass, passes, wanted>>

SweepDone ==
  /\ phase = "pass" /\ pass \notin {"extract", "annotate"}
  /\ Missed \/ EditPositions = {}

NextSweep ==
  /\ SweepDone /\ sub < Len(Sweeps(pass))
  /\ BeginSweep(sub + 1)
  /\ UNCHANGED <<graph, phase, pass, edited, changed, rounds, passes, interrupted, wanted>>

\* A round of canonicalize that edited nothing is the last.
Repeats == pass = "canonicalize" /\ edited /\ rounds + 1 < FixpointIterations

NextRound ==
  /\ SweepDone /\ sub = Len(Sweeps(pass)) /\ Repeats
  /\ BeginSweep(1)
  /\ edited' = FALSE
  /\ rounds' = rounds + 1
  /\ UNCHANGED <<graph, phase, pass, changed, passes, interrupted, wanted>>

\* The runner renumbers a graph that the pass changed, then verifies.
Settle(g, isChanged) ==
  LET h == IF isChanged THEN RenumberTopological(g) ELSE g
  IN /\ graph' = h
     /\ phase' = IF VerifyGraph(h) THEN "between" ELSE "rejected"

EndPass ==
  /\ SweepDone /\ sub = Len(Sweeps(pass)) /\ ~Repeats
  /\ Settle(graph, changed) /\ DropLocals
  /\ UNCHANGED <<pass, passes, interrupted, wanted>>

\* Passes that only annotate (property.infer, schedule.*) report a change.
Annotate ==
  /\ phase = "pass" /\ pass = "annotate"
  /\ Settle(graph, TRUE) /\ DropLocals
  /\ UNCHANGED <<pass, passes, interrupted, wanted>>
-----------------------------------------------------------------------------
(***************************************************************************)
(* egraph.extract: the first output is imported, saturated and extracted;  *)
(* the extracted form is appended, its constants anew, its placeholders    *)
(* those of the graph; the output is repointed. An expression that shrinks *)
(* to a leaf is an error.                                                  *)
(***************************************************************************)
ExistingLeaf(g, leaf) ==
  CHOOSE v \in DOMAIN g.values :
    /\ g.values[v].kind = leaf.kind /\ g.values[v].payload = leaf.payload
    /\ \A w \in DOMAIN g.values :
         g.values[w].kind = leaf.kind /\ g.values[w].payload = leaf.payload => v <= w

\* State of the transplant: the graph, and the value each extracted value became.

\* Mutant: a named leaf is created anew, as the pass once did.
TransplantLeafFresh(s, x, v) ==
  LET leaf == x.values[v]
      h == AllocateValue(s.graph, leaf)
  IN IF leaf.kind = "result" THEN s
     ELSE [graph |-> h, map |-> [s.map EXCEPT ![v] = NewestValue(h)]]

TransplantLeaf(s, x, v) ==
  LET leaf == x.values[v]
      h == IF leaf.kind = "constant" THEN AddConstant(s.graph, leaf.payload) ELSE s.graph
  IN CASE leaf.kind = "result"   -> s
       [] leaf.kind = "constant" -> [graph |-> h, map |-> [s.map EXCEPT ![v] = NewestValue(h)]]
       [] OTHER                  -> [graph |-> h, map |-> [s.map EXCEPT ![v] = ExistingLeaf(h, leaf)]]

TransplantNode(s, node) ==
  LET h == AddNode(s.graph, node.op, [k \in DOMAIN node.inputs |-> s.map[node.inputs[k]]], node.attr)
  IN [graph |-> h, map |-> [s.map EXCEPT ![node.result] = NewestValue(h)]]

StopWith(g) ==
  graph' = g /\ phase' = "stopped" /\ interrupted' = interrupted \union {pass}

Transplant(g, x) ==
  LET leaves == FoldLeft(LAMBDA s, v : TransplantLeaf(s, x, v),
                         [graph |-> g, map |-> [v \in DOMAIN x.values |-> 0]],
                         [v \in DOMAIN x.values |-> v])
  IN FoldLeft(LAMBDA s, node : TransplantNode(s, node), leaves, x.nodes)

Repoint(g, new) ==
  LET h == RecordEquivalent(g, g.outputs[1], new) IN [h EXCEPT !.outputs[1] = new]

EgraphExtract(stale) ==
  /\ phase = "pass" /\ pass = "extract" /\ DropLocals
  /\ UNCHANGED <<pass, passes, wanted>>
  /\ \E s \in {ImportGraph(graph, graph.outputs[1])} :
       \/ s.failed /\ StopWith(graph)
       \/ /\ ~s.failed
          /\ \E eg \in {Saturated(s.eg, graph, FixpointIterations, stale)} :
             \E order \in {MaterializeOrder(eg, s.class[graph.outputs[1]])} :
               \/ order.failed /\ StopWith(graph)
               \/ /\ ~order.failed
                  /\ \E best \in {Extract(eg, graph, order.done)} :
                     \E t \in {Transplant(graph, best.graph)} :
                       \/ best.graph.values[best.root].kind # "result" /\ StopWith(t.graph)
                       \/ /\ best.graph.values[best.root].kind = "result"
                          /\ Settle(Repoint(t.graph, t.map[best.root]), TRUE)
                          /\ UNCHANGED interrupted

-----------------------------------------------------------------------------

\* The passes are used up, or the verifier rejects the graph at every compile.
Finished ==
  /\ phase = "rejected" \/ (phase = "between" /\ passes = MaxPasses)
  /\ UNCHANGED vars

Next ==
  \/ \E op \in Operations : \E inputs \in Operands(graph, op) : BuildNode(op, inputs)
  \/ \E v \in DOMAIN graph.values : BuildOutput(v)
  \/ Compile
  \/ \E p \in Passes : BeginPass(p)
  \/ Edit
  \/ NextSweep
  \/ NextRound
  \/ EndPass
  \/ Annotate
  \/ \E stale \in BOOLEAN : EgraphExtract(stale)
  \/ StopPass
  \/ Finished

Spec == Init /\ [][Next]_vars

-----------------------------------------------------------------------------
(***************************************************************************)
(* Properties.                                                             *)
(***************************************************************************)

\* The control state, and ids that point inside the graph's tables.
TypeOK ==
  /\ phase \in {"build", "between", "pass", "stopped", "rejected"}
  /\ sub \in 1 .. 3 /\ at \in Nat /\ edited \in BOOLEAN /\ changed \in BOOLEAN
  /\ rounds \in 0 .. FixpointIterations /\ passes \in 0 .. MaxPasses
  /\ Len(graph.users) = Len(graph.values)
  /\ \A n \in DOMAIN graph.nodes : ToSet(graph.nodes[n].inputs) \subseteq DOMAIN graph.values
  /\ ToSet(graph.outputs) \subseteq DOMAIN graph.values
  /\ ToSet(todo) \subseteq DOMAIN graph.nodes

\* The outputs or the chain reach a value whose producer is dead.
ReadsDeadNode(g) == \E v \in Reached(g) : g.values[v].kind = "result" /\ ~LiveProducer(g, v)

\* Between passes the interpreter, which trusts node ids to be in dataflow
\* order and follows the equivalence map (execution.cpp:101-112), still
\* computes what the frontend's graph computed: no sequence of rewrites,
\* renumberings, failed compilations and new ones changes the answer. There
\* is one way out: a dead-code elimination stopped between two kills leaves a
\* live node over a dead one, and a later cse may pick that node.
MeaningPreserved ==
  phase = "between" =>
    Meaning(graph) = wanted \/ ("dce" \in interrupted /\ ReadsDeadNode(graph))

\* At every point, in the middle of a pass too, the use-def lists hold each
\* live node once per operand and no live node that is not a user.
UsersExact ==
  \A v \in DOMAIN graph.values : \A n \in Live(graph) :
    Cardinality({k \in DOMAIN graph.users[v] : graph.users[v][k] = n})
      = Cardinality(Uses(graph.nodes[n], v))

\* At every point the effect chain holds each live effectful node once and
\* nothing else: no rewrite loses an effect (rule 92) or keeps a dead one.
ChainExact ==
  /\ ToSet(graph.chain) = {n \in Live(graph) : Effectful(graph.nodes[n].op)}
  /\ Len(graph.chain) = Cardinality(ToSet(graph.chain))

\* Every pass that runs to its end leaves a graph the verifier accepts (rule
\* 47), however its edits moved producers behind consumers: the verifier
\* rejects nothing but graphs in which some pass was stopped in its middle.
RejectedOnlyAfterStop == phase = "rejected" => interrupted # {}

-----------------------------------------------------------------------------
(***************************************************************************)
(* Claims of the documents and comments that the code does not keep.       *)
(***************************************************************************)

\* "Value ids are NOT renumbered - only node ids move" (math_graph.h:199): no
\* two nodes, live or dead, are the producer of the same value.
OneNodePerResult ==
  \A m, n \in DOMAIN graph.nodes : graph.nodes[m].result = graph.nodes[n].result => m = n

\* The effect chain is a "program-ordered list of effecting node ids"
\* (effect_chain.h:15): it agrees with the order the nodes are evaluated in.
ChainInProgramOrder ==
  phase = "between" => \A j, k \in DOMAIN graph.chain : j < k => graph.chain[j] < graph.chain[k]

\* Dead nodes are "unreachable from live dataflow" (math_graph.cpp:201), which
\* renumbering relies on to keep producers before consumers.
DeadUnreachable ==
  phase = "between" => \A n \in Live(graph) : \A k \in DOMAIN graph.nodes[n].inputs :
    LET v == Operand(graph, n, k) IN graph.values[v].kind = "result" => LiveProducer(graph, v)

\* The equivalence map is "acyclic by construction" (math_graph.h:178).
EquivalenceAcyclic ==
  \A v \in DOMAIN graph.rep :
    LET walk[k \in 0 .. Len(graph.values)] ==
          IF k = 0 THEN graph.rep[v]
          ELSE LET w == walk[k - 1] IN IF w \in DOMAIN graph.rep THEN graph.rep[w] ELSE w
    IN \A k \in 0 .. Len(graph.values) : walk[k] # v

\* A compilation that fails changes no later answer ("falling back to Tier 0
\* on any kernel failure", docs/runtime_contracts.md:5): MeaningPreserved
\* without the way out.
AnswerAlwaysKept == phase = "between" => Meaning(graph) = wanted

\* A compilation that fails leaves the interpreter, on the same graph, to
\* answer ("compile failure is not a program failure", rule 139).
StoppedGraphInterprets == phase = "stopped" => Meaning(graph) = wanted

\* egraph.extract makes no new effect: the chain never grows after the build.
EffectsNotDuplicated == [][phase # "build" => Len(graph'.chain) <= Len(graph.chain)]_vars

\* What a graph computes when each crossing of the native boundary returns
\* its own value ("opaque unless proven otherwise", effect_inference.cpp:18).
NativeValue(v) == v % Modulus
OpaqueMeaning(g) ==
  LET step(s, n) == IF Effectful(g.nodes[n].op)
                    THEN [v \in DOMAIN s \union {g.nodes[n].result} |->
                           IF v = g.nodes[n].result THEN NativeValue(v) ELSE s[v]]
                    ELSE EvalNode(g, s, g.nodes[n])
      scalars == FoldLeft(step, BoundLeaves(g, [p \in 1 .. 1 |-> 0]), TopoOrder(g))
  IN [k \in DOMAIN g.outputs |-> ReadScalar(g, scalars, g.outputs[k])]

\* "Two distinct values must never merge" (math.cse.cpp:51).
OpaqueMeaningPreserved ==
  [][phase = "pass" /\ pass = "cse" /\ phase' = "pass"
       => OpaqueMeaning(graph') = OpaqueMeaning(graph)]_vars
=============================================================================
