---------------------------- MODULE KernelLowering ----------------------------
(***************************************************************************)
(* A frontend builds a graph, and the engine compiles it to a kernel, as   *)
(* often as it is asked to: type.infer, tensor.fusion_find when the        *)
(* profile has kernel fusion, lower.to_kernel_ir. The passes that rewrite  *)
(* the graph before are those of GraphRewriting. The group of a node stays *)
(* on the node from one compilation to the next.                           *)
(***************************************************************************)
EXTENDS KernelIR

CONSTANTS
  StartGraphs,    \* the graphs the frontend starts from
  Operations,     \* the operations it adds
  MaxNodes,       \* bound on the nodes
  MaxOutputs,     \* bound on the outputs
  Bindings        \* the inputs to compare answers on, one per placeholder

VARIABLES
  graph,
  stage,    \* "build", "untyped", "typed", "grouped", "lowered", "refused"
  tensors,  \* the values that type.infer found to be tensors
  groups,   \* fusion_group of the nodes that have one
  kernel

vars == <<graph, stage, tensors, groups, kernel>>

NoKernel == [ok |-> FALSE, inputs |-> 0, buffers |-> <<>>, outs |-> <<>>, nodes |-> <<>>]

Init ==
  /\ graph \in StartGraphs
  /\ stage = "build"
  /\ tensors = {} /\ groups = <<>> /\ kernel = NoKernel

-----------------------------------------------------------------------------
(***************************************************************************)
(* The frontend.                                                           *)
(***************************************************************************)

Unary(op) == op \in {"neg", "lift"}
OperandsOf(op) == [1 .. IF Unary(op) THEN 1 ELSE 2 -> DOMAIN graph.values]

Operation(op) ==
  /\ stage = "build" /\ Len(graph.nodes) < MaxNodes
  /\ \E inputs \in OperandsOf(op) : graph' = AddNode(graph, op, inputs, 0)
  /\ UNCHANGED <<stage, tensors, groups, kernel>>

NewOutput ==
  /\ stage = "build" /\ Len(graph.outputs) < MaxOutputs
  /\ \E v \in DOMAIN graph.values \ ToSet(graph.outputs) : graph' = AddOutput(graph, v)
  /\ UNCHANGED <<stage, tensors, groups, kernel>>

-----------------------------------------------------------------------------
(***************************************************************************)
(* A compilation.                                                          *)
(***************************************************************************)

Infer ==
  /\ stage = "build" /\ graph.outputs # <<>>
  /\ LET t == InferTypes(graph)
     IN tensors' = t.tensors /\ stage' = IF t.ok THEN "typed" ELSE "untyped"
  /\ UNCHANGED <<graph, groups, kernel>>

FindFusion ==
  /\ stage = "typed" /\ stage' = "grouped"
  /\ groups' \in Groupings(graph, groups)
  /\ UNCHANGED <<graph, tensors, kernel>>

Lower ==
  /\ stage = "grouped"
  /\ kernel' = ToKernelIr(graph, tensors, groups)
  /\ stage' = IF kernel'.ok THEN "lowered" ELSE "refused"
  /\ UNCHANGED <<graph, tensors, groups>>

\* The call that compiled returns, and the caller may go on with its graph.
Return ==
  /\ stage \in {"untyped", "lowered", "refused"} /\ stage' = "build"
  /\ tensors' = {} /\ kernel' = NoKernel
  /\ UNCHANGED <<graph, groups>>

Next ==
  \/ \E op \in Operations : Operation(op)
  \/ NewOutput
  \/ Infer
  \/ FindFusion
  \/ Lower
  \/ Return

Spec == Init /\ [][Next]_vars

-----------------------------------------------------------------------------
(***************************************************************************)
(* Properties.                                                             *)
(***************************************************************************)

TypeOK ==
  /\ stage \in {"build", "untyped", "typed", "grouped", "lowered", "refused"}
  /\ tensors \subseteq DOMAIN graph.values
  /\ DOMAIN groups \subseteq DOMAIN graph.nodes
  /\ stage = "lowered" =>
       \A k \in DOMAIN kernel.nodes :
         /\ kernel.nodes[k].writes \in kernel.inputs + 1 .. Len(kernel.buffers)
         /\ ToSet(kernel.nodes[k].reads) \subseteq DOMAIN kernel.buffers

\* What the values of the graph are when its leaves are bound: the reference,
\* in which a matrix product is a product.
Denoted(inputs) ==
  LET element(s, n) ==
        IF n.op = "matmul"
        THEN [v \in DOMAIN s \union {n.result} |->
               IF v = n.result THEN (s[n.inputs[1]] * s[n.inputs[2]]) % Modulus ELSE s[v]]
        ELSE EvalNode(graph, s, n)
  IN FoldLeft(element, BoundLeaves(graph, inputs), graph.nodes)

\* The loop of a region computes the value of its root from the values its
\* slots were given to: every operand is the temporary, slot or constant that
\* stands for it, and a temporary is read after it is written
\* (lower.to_kernel_ir.cpp:217-218, kernel_buffers.cpp:160-178).
RegionComputesRoot ==
  stage = "lowered" => \A k \in DOMAIN kernel.nodes :
    LET node == kernel.nodes[k] IN
    (node.kind = "loop" /\ Elementwise(graph.nodes[node.root].op)) =>
      \A inputs \in Bindings : LET s == Denoted(inputs) IN
        RunChain(node.exprs, [e \in DOMAIN node.reads |-> s[kernel.buffers[node.reads[e]]]],
                 [p \in DOMAIN node.params |-> s[node.params[p]]])
          = s[graph.nodes[node.root].result]

\* A graph that the executor computes as meant: one output, by an operation it
\* knows, and scalars that are first used in the order they are passed in.
Predicted ==
  /\ Len(graph.outputs) = 1 /\ Len(kernel.nodes) = 1
  /\ graph.nodes[kernel.nodes[1].root].op # "lift"
  /\ IsPrefix(kernel.nodes[1].params, Placeholders(graph))

\* Whatever tier runs, a call of the engine has the interpreter's answer
\* (rule 43, tests/differential/differential_test.cpp:1).
TiersAgree ==
  (stage = "lowered" /\ Executable(graph, kernel) /\ Predicted) =>
    \A inputs \in Bindings : Execute(graph, kernel, inputs) = InterpretGraph(graph, inputs)

\* Bound to buffers in the order of value ids (docs/kernel_abi.md, "Input
\* binding order"), a kernel computes each element of its output.
BuffersAgree ==
  (stage = "lowered" /\ Predicted) =>
    \A inputs \in Bindings : LET s == Denoted(inputs) IN
      LET Bound(set) == LET order == SelectSeq(Placeholders(graph), LAMBDA v : v \in set)
                        IN [k \in DOMAIN order |-> s[order[k]]]
      IN ExecuteOnBuffers(kernel, Bound(tensors \intersect Reachable(graph)), Bound(DOMAIN graph.values \ tensors))
           = <<s[graph.outputs[1]]>>

Lifts == {n \in DOMAIN graph.nodes : graph.nodes[n].op = "lift" /\ graph.nodes[n].result \in Reachable(graph)}

\* The nodes an output depends on, lifts left out.
Computed == {n \in DOMAIN graph.nodes : graph.nodes[n].result \in Reachable(graph)
                                        /\ graph.nodes[n].op # "lift"}

\* Elementwise throughout, within the depth and the tensor slots, and, once
\* there are groups, a single tree.
WithinLimits ==
  /\ Len(graph.outputs) = 1 /\ Computed # {} /\ Cardinality(Computed) <= FusionDepth
  /\ \A n \in Computed : Elementwise(graph.nodes[n].op)
  /\ Cardinality(Reachable(graph) \intersect tensors \intersect ToSet(Placeholders(graph))) <= 2
  /\ groups # <<>> =>
       /\ \A n \in DOMAIN graph.nodes : n \in Computed
       /\ \A n \in Computed : Len(graph.users[graph.nodes[n].result]) <= 1

NoComputedScalarLifted == \A n \in Lifts, m \in Computed : graph.nodes[m].result # graph.nodes[n].inputs[1]

\* A graph within the limits that lifts no computed scalar is lowered: the
\* gathering looks through every input of every node, not only the first
\* (lower.to_kernel_ir.cpp:179-203).
LoweringComplete == stage = "refused" => ~(WithinLimits /\ NoComputedScalarLifted)

-----------------------------------------------------------------------------
(***************************************************************************)
(* Claims of the documents and comments that the code does not keep.       *)
(***************************************************************************)

\* "scalar params in first-touch order == placeholder/variable value-id order"
\* (execution.cpp:222), so that a graph that runs on a tier runs alike on all.
SameAnswerOnEveryTier ==
  (stage = "lowered" /\ Executable(graph, kernel)) =>
    \A inputs \in Bindings : Execute(graph, kernel, inputs) = InterpretGraph(graph, inputs)

\* "Producer-consumer edges between elementwise ops with single users fuse"
\* (tensor.fusion_find.cpp:20): a node whose result has several uses, or none,
\* is in no group.
GroupsOfSingleUsers ==
  stage = "grouped" => \A n \in DOMAIN groups : Len(LiveUses(graph, graph.nodes[n])) = 1

\* "Non-realizable ops are rejected at lowering time" (kernel_buffers.cpp:155).
RootsRealizable ==
  stage = "lowered" => \A k \in DOMAIN kernel.nodes :
    kernel.nodes[k].kind = "loop" => Elementwise(graph.nodes[kernel.nodes[k].root].op)

\* "Rule 39 conversions are transparent at the kernel boundary"
\* (lower.to_kernel_ir.cpp:251): a lift never makes a graph refused.
LiftsTransparent == stage = "refused" => ~WithinLimits
=============================================================================
