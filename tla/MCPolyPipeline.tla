----------------------------- MODULE MCPolyPipeline -----------------------------
(* Instances of PolyPipeline for TLC: one small kernel of every class.        *)
EXTENDS PolyPipeline

Kernel(dims, root, inputs, outputs) ==
  [dims |-> dims, roots |-> <<root>>, inputs |-> inputs, outputs |-> outputs, temps |-> {}]

Legacy(trip, body, out, operands) ==
  Count(trip, <<Pair("legacy", body, "none", Access(out, <<1>>, 0),
                     [n \in DOMAIN operands |-> Access(operands[n], <<1>>, 0)])>>)

Matmul(m, k, n) ==
  Kernel([A |-> <<m, k>>, B |-> <<k, n>>, C |-> <<m, n>>], Call("matmul", "C", <<"A", "B">>), {"A", "B"}, {"C"})
ReduceSum(m, k) ==
  Kernel([X |-> <<m, k>>, Y |-> <<m>>], Call("reducesum", "Y", <<"X">>), {"X"}, {"Y"})
Softmax(m, k) ==
  Kernel([X |-> <<m, k>>, Y |-> <<m, k>>], Call("softmax", "Y", <<"X">>), {"X"}, {"Y"})
Matrices(m, n) ==
  Kernel([A |-> <<m, n>>, B |-> <<m, n>>, Y |-> <<m, n>>], Legacy(m * n, "add", "Y", <<"A", "B">>), {"A", "B"}, {"Y"})
Vectors(n) ==
  Kernel([A |-> <<n>>, B |-> <<n>>, Y |-> <<n>>], Legacy(n, "add", "Y", <<"A", "B">>), {"A", "B"}, {"Y"})

MCKernels == {Matmul(3, 4, 2), ReduceSum(3, 3), Softmax(2, 2), Matrices(2, 3)}
MCVectors == {Vectors(2)}
MCScaled == MCKernels \ {Matmul(3, 4, 2)}
=============================================================================
