--------------------------- MODULE MCKernelLowering ---------------------------
(* Instances of KernelLowering for TLC: two placeholders, scalars or tensors  *)
(* (3 and 4), and a graph with a node already.                                *)
EXTENDS KernelLowering

Two(a, b) == AddPlaceholder(AddPlaceholder(EmptyGraph, a), b)
OneNegated == AddNode(AddPlaceholder(EmptyGraph, 1), "neg", <<1>>, 0)

MCStartGraphs == {Two(1, 2), Two(3, 2), Two(3, 4), OneNegated}
MCScalars     == {Two(1, 2)}
MCLifted      == {OneNegated}
MCBindings    == {<<2, 3>>, <<4, 1>>}
=============================================================================
