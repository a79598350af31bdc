---------------------------- MODULE CompilePipeline ----------------------------
(***************************************************************************)
(* The rewriting passes of GraphRewriting followed by the lowering and the *)
(* executor of KernelIR: what a compilation of tier 1 or more answers.     *)
(***************************************************************************)
EXTENDS GraphRewriting, KernelIR

CompiledKernel(g, groups) == ToKernelIr(g, InferTypes(g).tensors, groups)

\* A kernel that the executor computes as meant: one output, by an operation
\* that it knows.
OneKnownRegion(g, kernel) ==
  /\ Len(g.outputs) = 1 /\ Len(kernel.nodes) = 1
  /\ Elementwise(g.nodes[kernel.nodes[1].root].op)

\* Whatever passes a compilation has gone through, with nodes appended out of
\* order, killed, renumbered and represented by others, the kernel that it
\* would make answers as the graph that the frontend wrote (rule 43,
\* tests/differential/differential_test.cpp:1).
KernelAnswersAsWritten ==
  phase = "between" => \A groups \in Groupings(graph, <<>>) :
    LET kernel == CompiledKernel(graph, groups) IN
    (kernel.ok /\ Executable(graph, kernel) /\ OneKnownRegion(graph, kernel)) =>
      [inputs \in TestInputs |-> Execute(graph, kernel, inputs)] = wanted
=============================================================================
