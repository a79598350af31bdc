------------------------------- MODULE PolySynth -------------------------------
(***************************************************************************)
(* poly.synth (compiler/src/passes/poly/poly.synth.cpp): a baseline kernel *)
(* of one root becomes a nest of loops with affine accesses, when the root *)
(* is a MatMul, ReduceSum or Softmax call or an elementwise loop over a    *)
(* buffer of rank two or more.                                             *)
(***************************************************************************)
EXTENDS KernelTree

\* The distance in elements between neighbours along dimension d.
StrideOf(dims, d) == FoldLeft(LAMBDA stride, e : stride * Greater(e, 1), 1, SubSeq(dims, d + 1, Len(dims)))

Zero(access) == Pair("affine", "zero", "none", access, <<>>)
Load(accum, access, from) == Pair("affine", "load", accum, access, <<from>>)

GemmNest(dims, node) ==
  LET a == node.operands[1]
      b == node.operands[2]
      k == dims[a][2]
      n == dims[b][2]
      zero  == Zero(Access(node.out, <<n, 1>>, 0))
      accum == Pair("affine", "mul", "add", Access(node.out, <<n, 1, 0>>, 0),
                    <<Access(a, <<k, 0, 1>>, 0), Access(b, <<0, 1, n>>, 0)>>)
  IN Count(dims[a][1], <<Count(n, <<zero, Count(k, <<accum>>)>>)>>)

ReduceSumNest(dims, node) ==
  LET a == node.operands[1]
      k == dims[a][2]
  IN Count(dims[a][1],
           <<Zero(Access(node.out, <<1>>, 0)),
             Count(k, <<Load("add", Access(node.out, <<1, 0>>, 0), Access(a, <<k, 1>>, 0))>>)>>)

\* The row maxima, the exponentials and the row sums get buffers of their own.
SoftmaxTemps == {"RM", "E", "S"}

SoftmaxNest(dims, node) ==
  LET x == Access(node.operands[1], <<dims[node.out][2], 1>>, 0)
      y == Access(node.out, <<dims[node.out][2], 1>>, 0)
      e == Access("E", <<dims[node.out][2], 1>>, 0)
      max == Access("RM", <<1, 0>>, 0)
      sum == Access("S", <<1, 0>>, 0)
      Band(pair) == Count(dims[node.out][2], <<pair>>)
  IN Count(dims[node.out][1],
           <<Pair("affine", "lowest", "none", Access("RM", <<1>>, 0), <<>>),
             Band(Load("max", max, x)),
             Band(Pair("affine", "exp", "none", e, <<x, max>>)),
             Zero(Access("S", <<1>>, 0)),
             Band(Load("add", sum, e)),
             Band(Pair("affine", "div", "none", y, <<e, sum>>))>>)

\* The coefficient of output dimension d in an operand: trailing dimensions
\* are aligned; a missing one and one of size one are broadcast.
BroadcastCoeff(from, to, d) ==
  LET aligned == d - (Len(to) - Len(from))
  IN IF aligned < 1 THEN 0
     ELSE IF from[aligned] = 1 THEN 0
     ELSE StrideOf(from, aligned)

ElementwiseNest(dims, pair) ==
  LET out == dims[pair.write.buf]
      Operand(read) == Access(read.buf, [d \in DOMAIN out |-> BroadcastCoeff(dims[read.buf], out, d)], 0)
      inner == Pair("affine", pair.body, pair.accum,
                    Access(pair.write.buf, [d \in DOMAIN out |-> StrideOf(out, d)], 0),
                    [n \in DOMAIN pair.reads |-> Operand(pair.reads[n])])
  IN FoldRight(LAMBDA trip, body : Count(trip, <<body>>), out, inner)

RowsAgree(dims, node) == dims[node.operands[1]][1] = dims[node.out][1]

\* A kernel that no class describes stays as it is.
Synthesizable(kernel) ==
  /\ Len(kernel.roots) = 1
  /\ LET root == kernel.roots[1]
     IN \/ root.op = "call" /\ root.math = "matmul"
        \/ root.op = "call" /\ root.math # "matmul" /\ RowsAgree(kernel.dims, root)
        \/ root.op = "loop" /\ root.children[1].op = "pair"
           /\ Len(kernel.dims[root.children[1].write.buf]) >= 2

Nest(dims, root) ==
  CASE root.op = "loop"                             -> ElementwiseNest(dims, root.children[1])
    [] root.op = "call" /\ root.math = "matmul"     -> GemmNest(dims, root)
    [] root.op = "call" /\ root.math = "reducesum"  -> ReduceSumNest(dims, root)
    [] root.op = "call" /\ root.math = "softmax"    -> SoftmaxNest(dims, root)

Synthesize(kernel) ==
  LET root == kernel.roots[1]
  IN [kernel EXCEPT !.roots = <<Nest(kernel.dims, root)>>,
                    !.temps = IF root.op = "call" /\ root.math = "softmax"
                              THEN @ \union SoftmaxTemps ELSE @]

=============================================================================
