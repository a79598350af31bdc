----------------------------- MODULE MCKernelArtifact -----------------------------
(* Instances of KernelArtifact for TLC: kernels with the shapes that the      *)
(* emitters tell apart, each with the targets and settings that concern it.   *)
EXTENDS KernelArtifact

Kernel(dims, roots, inputs, outputs, temps) ==
  [dims |-> dims, table |-> <<"B", "A", "T", "C">>, roots |-> roots,
   inputs |-> inputs, outputs |-> outputs, temps |-> temps]

Affine(body, accum, write, reads) == Pair("affine", body, accum, write, reads)
InParallel(loop) == [loop EXCEPT !.parallel = TRUE]

\* for i (parallel), for j <= i (parallel): C[2i + j] = A[2i + j] * B[j]
Triangle ==
  Kernel([A |-> <<2, 2>>, B |-> <<2>>, C |-> <<2, 2>>],
         <<InParallel(Count(2, <<InParallel(Loop(Literal(0), Form(<<1>>, 0),
             <<Affine("mul", "none", Access("C", <<2, 1>>, 0),
                      <<Access("A", <<2, 1>>, 0), Access("B", <<0, 1>>, 0)>>)>>))>>))>>,
         {"A", "B"}, {"C"}, {})

\* for i (parallel), for k: C[i] += A[2i + k] * B[k]
RowTimes ==
  Kernel([A |-> <<2, 2>>, B |-> <<2>>, C |-> <<2>>],
         <<InParallel(Count(2, <<Count(2, <<Affine("mul", "add", Access("C", <<1>>, 0),
             <<Access("A", <<2, 1>>, 0), Access("B", <<0, 1>>, 0)>>)>>)>>))>>,
         {"A", "B"}, {"C"}, {})

\* for i, j (parallel), for k: C[2i + j] += A[2i + k] * B[2k + j]
Product2 ==
  Kernel([A |-> <<2, 2>>, B |-> <<2, 2>>, C |-> <<2, 2>>],
         <<InParallel(Count(2, <<InParallel(Count(2, <<Count(2,
             <<Affine("mul", "add", Access("C", <<2, 1>>, 0),
                      <<Access("A", <<2, 0, 1>>, 0), Access("B", <<0, 1, 2>>, 0)>>)>>)>>))>>))>>,
         {"A", "B"}, {"C"}, {})

\* Two roots; the second reads the temporary that the first leaves.
TwoRoots(n, body) ==
  Kernel([A |-> <<n>>, T |-> <<n>>, C |-> <<n>>],
         <<InParallel(Count(n, <<Affine(body, "none", Access("T", <<1>>, 0), <<Access("A", <<1>>, 0)>>)>>)),
           InParallel(Count(n, <<Affine("add", "none", Access("C", <<1>>, 0),
                                        <<Access("T", <<-1>>, n - 1), Access("A", <<-1>>, n - 1)>>)>>))>>,
         {"A"}, {"C"}, {"T"})

\* for i: for j (parallel): C[j] max= A[2i + j], then for i = 1 only: C[1] += A[0]
SerialOverParallel ==
  Kernel([A |-> <<2, 2>>, C |-> <<2>>],
         <<Count(2, <<InParallel(Count(2, <<Affine("load", "max", Access("C", <<0, 1>>, 0),
                                                   <<Access("A", <<2, 1>>, 0)>>)>>)),
                      Guard(Form(<<1>>, -1), <<Affine("load", "add", Access("C", <<>>, 1),
                                                      <<Access("A", <<>>, 0)>>)>>)>>)>>,
         {"A"}, {"C"}, {})

\* for i (parallel): C[i - 1] = A[i]
Negative ==
  Kernel([A |-> <<2>>, C |-> <<2>>],
         <<InParallel(Count(2, <<Affine("load", "none", Access("C", <<1>>, -1), <<Access("A", <<1>>, 0)>>)>>))>>,
         {"A"}, {"C"}, {})

\* for i (parallel) over the extent of A: C[i] = A[i]
OverExtent ==
  Kernel([A |-> <<2>>, C |-> <<2>>],
         <<InParallel(Loop(Literal(0), Extent("A", 1),
             <<Affine("load", "none", Access("C", <<1>>, 0), <<Access("A", <<1>>, 0)>>)>>))>>,
         {"A"}, {"C"}, {})

\* for i (parallel): for j in 1 .. 0 over B: C[i] += A[i] * B[-j]; then C[i] += A[i]
EmptyHull ==
  Kernel([B |-> <<2>>, A |-> <<2>>, C |-> <<2>>],
         <<InParallel(Count(2, <<Loop(Literal(2), Literal(0),
               <<Affine("mul", "add", Access("C", <<1>>, 0), <<Access("B", <<0, 1>>, 0)>>)>>),
             Affine("load", "add", Access("C", <<1>>, 0), <<Access("A", <<1>>, 0)>>)>>))>>,
         {"A", "B"}, {"C"}, {})

Vector(n) ==
  Kernel([A |-> <<n>>, B |-> <<n>>, C |-> <<n>>],
         <<Count(n, <<Pair("legacy", "add", "none", Access("C", <<1>>, 0),
                           <<Access("A", <<1>>, 0), Access("B", <<1>>, 0)>>)>>)>>,
         {"A", "B"}, {"C"}, {})

Uncalled ==
  Kernel([A |-> <<2, 2>>, B |-> <<2, 2>>, C |-> <<2, 2>>], <<Call("matmul", "C", <<"A", "B">>)>>,
         {"A", "B"}, {"C"}, {})
Mixed ==
  Kernel([A |-> <<2>>, C |-> <<2>>],
         <<Count(2, <<Pair("mixed", "load", "none", Access("C", <<1>>, 0), <<Access("A", <<1>>, 0)>>)>>)>>,
         {"A"}, {"C"}, {})

Job(kernel, target, slabs, budget, faulty) ==
  [kernel |-> kernel, target |-> target, slabs |-> slabs, budget |-> budget, faulty |-> faulty,
   elements |-> 3]

On(kernel, targets) == {Job(kernel, target, FALSE, 0, FALSE) : target \in targets}
Slabbed(kernel, targets, budget) == {Job(kernel, target, TRUE, budget, TRUE) : target \in targets}

MCJobs ==
  UNION {
    On(Triangle, {"asm"}), Slabbed(Triangle, {"cpp", "cuda"}, 6), Slabbed(Triangle, {"cuda"}, 5),
    On(Product2, {"asm", "cpp", "cuda"}), Slabbed(Product2, {"cpp", "cuda"}, 8),
    On(RowTimes, {"asm", "cuda"}), Slabbed(RowTimes, {"cpp", "cuda"}, 8),
    On(TwoRoots(3, "sqrt"), {"cpp", "asm"}), Slabbed(TwoRoots(3, "sqrt"), {"cpp", "cuda"}, 3),
    Slabbed(TwoRoots(4, "sqrt"), {"cuda"}, 4),
    On(TwoRoots(3, "exp"), {"cuda", "asm"}),
    On(SerialOverParallel, {"cpp", "asm", "cuda"}), Slabbed(SerialOverParallel, {"cpp", "cuda"}, 4),
    On(Negative, {"asm", "cuda"}), On(OverExtent, {"cpp", "cuda"}),
    On(Vector(3), {"cpp", "asm", "cuda"}), On(Vector(2), {"cuda"}),
    On(Uncalled, {"cpp"}), On(Mixed, {"asm"})}

MCExtent == On(OverExtent, {"asm"})
MCStray == On(Negative, {"cpp"})
MCEmptyHull == Slabbed(EmptyHull, {"cuda"}, 4)
MCLostCode == {Job(Vector(3), "cuda", FALSE, 0, TRUE)}
MCGridCaps == <<2, 2, 2>>
=============================================================================
