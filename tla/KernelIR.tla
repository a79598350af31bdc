------------------------------- MODULE KernelIR -------------------------------
(***************************************************************************)
(* From a math graph to a kernel and its answer: type.infer,               *)
(* tensor.fusion_find, lower.to_kernel_ir, and the executor of             *)
(* runtime/src/execution for loops of one iteration. A tensor is one of    *)
(* its elements: a fused loop treats every element alike, and a matrix     *)
(* product of one by one matrices is a product.                            *)
(***************************************************************************)
EXTENDS MathGraph

CONSTANTS
  TensorNames,  \* names of the placeholders that are tensors; the others are scalars
  FusionDepth   \* kKernelMaxFusionDepth: nodes gathered before the search stops

ASSUME FusionDepthAssumption == FusionDepth \in Nat

Elementwise(op) == op \in {"add", "sub", "mul", "div", "pow", "neg"}

Placeholders(g) == Within([v \in DOMAIN g.values |-> v],
                          {v \in DOMAIN g.values : g.values[v].kind = "placeholder"})

IsResult(g, v) == g.values[v].kind = "result"
ProducerOf(g, v) == g.nodes[g.values[v].producer]

-----------------------------------------------------------------------------
(***************************************************************************)
(* type.infer: which values are tensors. Nothing is converted implicitly:  *)
(* a scalar must be lifted before it meets a tensor.                       *)
(***************************************************************************)

AcceptsOperands(node, tensors) ==
  LET lifted == {k \in DOMAIN node.inputs : node.inputs[k] \in tensors} IN
  CASE Elementwise(node.op)  -> lifted \in {{}, DOMAIN node.inputs}
    [] node.op = "matmul"    -> lifted = DOMAIN node.inputs
    [] OTHER                 -> TRUE

YieldsTensor(node, tensors) == node.op = "lift" \/ node.inputs[1] \in tensors

InferNode(node, t) ==
  IF ~t.ok \/ ~AcceptsOperands(node, t.tensors) THEN [t EXCEPT !.ok = FALSE]
  ELSE [t EXCEPT !.tensors = IF YieldsTensor(node, @) THEN @ \union {node.result} ELSE @]

InferTypes(g) ==
  LET named == {v \in DOMAIN g.values : g.values[v].kind = "placeholder"
                                        /\ g.values[v].payload \in TensorNames}
  IN FoldLeft(LAMBDA t, n : InferNode(g.nodes[n], t), [ok |-> TRUE, tensors |-> named], TopoOrder(g))

-----------------------------------------------------------------------------
(***************************************************************************)
(* tensor.fusion_find: the groups of the elementwise nodes. The group only *)
(* changes after a node whose result has no user or several uses.          *)
(***************************************************************************)

\* One entry per use.
LiveUses(g, node) == SelectSeq(g.users[node.result], LAMBDA u : ~g.nodes[u].dead)

InGroup(s, n) == [s EXCEPT !.groups = [m \in DOMAIN @ \union {n} |-> IF m = n THEN s.next ELSE @[m]]]

\* Mutant: the group changes after every node.
FindGroupAlone(g, inferred, s, n) ==
  IF n \in DOMAIN s.groups \/ ~Elementwise(g.nodes[n].op) THEN s
  ELSE [InGroup(s, n) EXCEPT !.next = @ + 1]

FusesWithUser(g, node) ==
  LET users == LiveUses(g, node) IN Len(users) = 1 /\ Elementwise(g.nodes[users[1]].op)

\* An elementwise node keeps the group that an earlier compilation gave it.
\* Otherwise it needs a single elementwise user or the fact that its result is
\* pure, which property.infer has established of the first values, as many as
\* inferred says: it had not seen those that a pass appended since.
FindGroup(g, inferred, s, n) ==
  LET node == g.nodes[n]
      grouped == FusesWithUser(g, node) \/ node.result <= inferred
  IN IF n \in DOMAIN s.groups \/ ~Elementwise(node.op) THEN s
     ELSE [(IF grouped THEN InGroup(s, n) ELSE s)
             EXCEPT !.next = IF Len(LiveUses(g, node)) = 1 THEN @ ELSE @ + 1]

FusionFind(g, inferred, groups) ==
  FoldLeft(LAMBDA s, n : FindGroup(g, inferred, s, n), [groups |-> groups, next |-> 0], TopoOrder(g)).groups

\* The groups of a compilation. The profile may lack kernel fusion, and passes
\* may have appended any of the last values after property.infer.
Groupings(g, groups) == {groups} \union {FusionFind(g, k, groups) : k \in 0 .. Len(g.values)}

-----------------------------------------------------------------------------
(***************************************************************************)
(* lower.to_kernel_ir: the region of an output.                            *)
(***************************************************************************)

\* Only two different groups keep a producer out of the region.
SameRegion(groups, root, producer) ==
  root \in DOMAIN groups /\ producer \in DOMAIN groups => groups[root] = groups[producer]

FusibleProducers(g, groups, root, node) ==
  LET producers == [k \in DOMAIN node.inputs |-> Representative(g, node.inputs[k])]
      results   == Within(producers, {v \in DOMAIN g.values : IsResult(g, v)})
  IN Within([k \in DOMAIN results |-> g.values[results[k]].producer],
            {p \in DOMAIN g.nodes : Elementwise(g.nodes[p].op) /\ SameRegion(groups, root, p)})

\* One node off the stack of open nodes. The node that exceeds the depth is
\* kept, its operands are not looked at, and the search stops.
Gather(g, groups, root, s) ==
  IF s.open = <<>> \/ Len(s.chain) > FusionDepth THEN s
  ELSE LET node == Last(s.open)
       IN IF node \in ToSet(s.chain) THEN [s EXCEPT !.open = Front(@)]
          ELSE [open  |-> Front(s.open) \o FusibleProducers(g, groups, root, g.nodes[node]),
                chain |-> Append(s.chain, node)]

\* A node is opened once as the root and once per operand of a gathered node.
Region(g, groups, root) ==
  FoldLeft(LAMBDA s, k : Gather(g, groups, root, s), [open |-> <<root>>, chain |-> <<>>],
           [k \in 1 .. 2 * Len(g.nodes) + 1 |-> k]).chain

\* The nodes are emitted producers first.
RegionOrder(g, groups, root) ==
  LET chain   == Region(g, groups, root)
      ordered == Within(TopoOrder(g), ToSet(chain))
  IN IF Len(ordered) = Len(chain) THEN ordered ELSE chain

-----------------------------------------------------------------------------
(***************************************************************************)
(* lower.to_kernel_ir: the expressions of a region. Slots are given to     *)
(* tensors (two at most) and to scalars at their first use.                *)
(***************************************************************************)

KernelOperand(kind, at) == [kind |-> kind, at |-> at]

Slot(slots, v) == CHOOSE k \in DOMAIN slots : slots[k] = v
WithSlot(slots, v) == IF v \in ToSet(slots) THEN slots ELSE Append(slots, v)

\* A lift is transparent: its operand stands for it.
Unlifted(g, temps, v) ==
  LET walk[k \in 0 .. Len(g.nodes)] ==
        IF k = 0 THEN Representative(g, v)
        ELSE LET w == walk[k - 1]
             IN IF w \in DOMAIN temps \/ ~IsResult(g, w) THEN w
                ELSE IF ProducerOf(g, w).op # "lift" THEN w
                ELSE Representative(g, ProducerOf(g, w).inputs[1])
  IN walk[Len(g.nodes)]

WithOperand(s, kind, at) == [s EXCEPT !.operands = Append(@, KernelOperand(kind, at))]

\* The result of a node outside the region, and a third tensor, are refused.
Resolve(g, tensors, s, input) ==
  LET v == Unlifted(g, s.temps, input) IN
  CASE ~s.ok -> s
    [] v \in DOMAIN s.temps -> WithOperand(s, "temp", s.temps[v])
    [] v \notin DOMAIN s.temps /\ IsResult(g, v) -> [s EXCEPT !.ok = FALSE]
    [] g.values[v].kind = "constant" -> WithOperand(s, "const", g.values[v].payload)
    [] g.values[v].kind = "placeholder" /\ v \in tensors ->
         IF v \notin ToSet(s.elems) /\ Len(s.elems) >= 2 THEN [s EXCEPT !.ok = FALSE]
         ELSE LET elems == WithSlot(s.elems, v)
              IN WithOperand([s EXCEPT !.elems = elems], "elem", Slot(elems, v))
    [] g.values[v].kind = "placeholder" /\ v \notin tensors ->
         LET params == WithSlot(s.params, v)
         IN WithOperand([s EXCEPT !.params = params], "param", Slot(params, v))

\* Mutant: a temporary stands for the expression before.
NextTempOffByOne(s) == Len(s.exprs)

\* The temporary of the expression that is emitted next.
NextTemp(s) == Len(s.exprs) + 1

Emit(g, tensors, s, n) ==
  LET node == g.nodes[n]
      t == FoldLeft(LAMBDA u, input : Resolve(g, tensors, u, input), [s EXCEPT !.operands = <<>>], node.inputs)
      result == Representative(g, node.result)
  IN IF ~t.ok THEN t
     ELSE [t EXCEPT !.exprs = Append(@, [op |-> node.op, operands |-> t.operands]),
                    !.temps = [v \in DOMAIN @ \union {result} |->
                                 IF v \in DOMAIN @ THEN @[v] ELSE NextTemp(t)]]

Expressions(g, tensors, groups, root) ==
  FoldLeft(LAMBDA s, n : Emit(g, tensors, s, n),
           [ok |-> TRUE, exprs |-> <<>>, temps |-> <<>>, elems |-> <<>>, params |-> <<>>, operands |-> <<>>],
           RegionOrder(g, groups, root))

-----------------------------------------------------------------------------
(***************************************************************************)
(* lower.to_kernel_ir: buffers and kernel nodes. A kernel node keeps its   *)
(* root and the values of its slots, for the properties to speak of.       *)
(***************************************************************************)

\* The values that the outputs depend on.
Reachable(g) ==
  LET grow(set) == set \union {Representative(g, v) :
                     v \in UNION {ToSet(ProducerOf(g, w).inputs) : w \in {u \in set : IsResult(g, u)}}}
  IN FoldLeft(LAMBDA set, k : grow(set), {Representative(g, v) : v \in ToSet(g.outputs)},
              [k \in 1 .. Len(g.nodes) |-> k])

\* Inputs first, then the tensors among the outputs.
InputBuffers(g, tensors) ==
  Within(Placeholders(g), tensors \intersect Reachable(g))
OutputBuffers(g, tensors) ==
  Within([k \in DOMAIN g.outputs |-> Representative(g, g.outputs[k])], tensors)

\* The buffer of a tensor: the first one made for it, or 0.
BufferOf(kernel, v) ==
  LET made == {b \in DOMAIN kernel.buffers : kernel.buffers[b] = v} IN
  IF made = {} THEN 0 ELSE CHOOSE b \in made : \A c \in made : b <= c

Output(kernel) == kernel.outs[1]

AddProduct(kernel, root, buffers) ==
  [kernel EXCEPT !.nodes = Append(@, [kind |-> "product", root |-> root, reads |-> buffers,
                                      exprs |-> <<>>, params |-> <<>>, writes |-> Output(kernel)])]

OperandBuffers(g, kernel, root) ==
  [k \in DOMAIN g.nodes[root].inputs |-> BufferOf(kernel, g.nodes[root].inputs[k])]

\* The operands of a matrix product must have buffers, and are not looked up
\* in the equivalence map.
LowerProduct(g, kernel, root) ==
  IF 0 \in ToSet(OperandBuffers(g, kernel, root)) THEN [kernel EXCEPT !.ok = FALSE]
  ELSE AddProduct(kernel, root, OperandBuffers(g, kernel, root))

\* A scalar output gets its buffer when its loop is built. Every loop writes
\* the first output buffer.
LowerLoop(g, tensors, groups, kernel, root) ==
  LET e    == Expressions(g, tensors, groups, root)
      made == [kernel EXCEPT !.buffers = Append(@, g.nodes[root].result),
                             !.outs = Append(@, Len(kernel.buffers) + 1)]
      k    == IF Representative(g, g.nodes[root].result) \in tensors THEN kernel ELSE made
  IN IF ~e.ok THEN [kernel EXCEPT !.ok = FALSE]
     ELSE [k EXCEPT !.nodes = Append(@, [kind |-> "loop", root |-> root,
                                         reads |-> [s \in DOMAIN e.elems |-> BufferOf(kernel, e.elems[s])],
                                         exprs |-> e.exprs, params |-> e.params, writes |-> Output(k)])]

LowerOutput(g, tensors, groups, kernel, out) ==
  LET v    == Representative(g, out)
      root == g.values[v].producer
  IN IF ~kernel.ok \/ ~IsResult(g, v) THEN kernel
     ELSE IF g.nodes[root].op = "matmul" THEN LowerProduct(g, kernel, root)
     ELSE LowerLoop(g, tensors, groups, kernel, root)

ToKernelIr(g, tensors, groups) ==
  LET inputs  == InputBuffers(g, tensors)
      outputs == OutputBuffers(g, tensors)
      empty   == [ok |-> TRUE, inputs |-> Len(inputs), buffers |-> inputs \o outputs,
                  outs |-> [k \in DOMAIN outputs |-> Len(inputs) + k], nodes |-> <<>>]
  IN FoldLeft(LAMBDA kernel, out : LowerOutput(g, tensors, groups, kernel, out), empty, g.outputs)

-----------------------------------------------------------------------------
(***************************************************************************)
(* The executor. An elementwise chain runs over temporaries; an operation  *)
(* it does not know gives 0, and so does a scalar that was not passed.     *)
(***************************************************************************)

\* Mutant: the operands are swapped.
ApplyOpSwapped(op, a, b) == IF Elementwise(op) THEN EvalScalar(op, b, a) ELSE 0

ApplyOp(op, a, b) == IF Elementwise(op) THEN EvalScalar(op, a, b) ELSE 0

\* Mutant: the second tensor is read from the first one's buffer.
ReadOperandOneTensor(operand, temps, elems, scalars) ==
  CASE operand.kind = "const" -> operand.at
    [] operand.kind = "temp"  -> IF operand.at \in DOMAIN temps THEN temps[operand.at] ELSE 0
    [] operand.kind = "elem"  -> elems[1]
    [] operand.kind = "param" -> IF operand.at \in DOMAIN scalars THEN scalars[operand.at] ELSE 0

ReadOperand(operand, temps, elems, scalars) ==
  CASE operand.kind = "const" -> operand.at
    [] operand.kind = "temp"  -> IF operand.at \in DOMAIN temps THEN temps[operand.at] ELSE 0
    [] operand.kind = "elem"  -> elems[operand.at]
    [] operand.kind = "param" -> IF operand.at \in DOMAIN scalars THEN scalars[operand.at] ELSE 0

RunChain(exprs, elems, scalars) ==
  LET run(temps, e) ==
        LET a == ReadOperand(e.operands[1], temps, elems, scalars)
            b == IF Len(e.operands) > 1 THEN ReadOperand(e.operands[2], temps, elems, scalars) ELSE 0
        IN Append(temps, ApplyOp(e.op, a, b))
  IN Last(FoldLeft(run, <<>>, exprs))

\* A loop overwrites its output, a product is added to what is there.
RunNode(storage, node, scalars) ==
  LET reads == [k \in DOMAIN node.reads |-> storage[node.reads[k]]]
  IN [storage EXCEPT ![node.writes] =
        IF node.kind = "loop" THEN RunChain(node.exprs, reads, scalars)
        ELSE (@ + reads[1] * reads[2]) % Modulus]

\* executeKernelOnBuffers on bound inputs; outputs start at 0.
ExecuteOnBuffers(kernel, elems, scalars) ==
  LET bound == [b \in DOMAIN kernel.buffers |-> IF b <= kernel.inputs THEN elems[b] ELSE 0]
      final == FoldLeft(LAMBDA storage, node : RunNode(storage, node, scalars), bound, kernel.nodes)
  IN [k \in DOMAIN kernel.outs |-> final[kernel.outs[k]]]

\* executeKernel: scalars only, and an output buffer for every graph output.
Executable(g, kernel) ==
  /\ kernel.nodes # <<>>
  /\ kernel.inputs = 0
  /\ \A k \in DOMAIN g.outputs : IsResult(g, Representative(g, g.outputs[k]))
  /\ Len(kernel.outs) >= Len(g.outputs)

Execute(g, kernel, scalars) ==
  SubSeq(ExecuteOnBuffers(kernel, <<>>, scalars), 1, Len(g.outputs))
=============================================================================
