------------------------------ MODULE KernelTree ------------------------------
(***************************************************************************)
(* Multi-dimensional kernels and the tree walker that executes them        *)
(* (runtime/src/execution/kernel_buffers.cpp, MultiDimWalker).             *)
(*                                                                         *)
(* A kernel is a table of buffers and a sequence of trees (the nodes no    *)
(* other node refers to, in the order of the node table). A Compute node   *)
(* and the Store that follows it are one node "pair": the expression chain *)
(* is named by a body and loads a sequence of elements. Running a kernel   *)
(* yields events, one per executed pair; the contents of an element are    *)
(* the contributions it was built from, in order, so that two kernels      *)
(* leave equal contents exactly when they perform the same floating-point  *)
(* operations on the same operands in the same order.                      *)
(***************************************************************************)
EXTENDS Integers, Sequences, FiniteSets, SequencesExt

CONSTANT GemmTile  \* tile_m = tile_n = tile_k of the blocked GEMM

ASSUME GemmTileAssumption == GemmTile \in Nat \ {0}

\* An affine form over the enclosing loop variables, outermost first.
Form(coeffs, constant) == [c |-> coeffs, k |-> constant]
Literal(constant) == Form(<<>>, constant)

Lesser(a, b) == IF a <= b THEN a ELSE b
Greater(a, b) == IF a >= b THEN a ELSE b

SumUpTo(n, term(_)) ==
  LET sum[p \in 0 .. n] == IF p = 0 THEN 0 ELSE sum[p - 1] + term(p) IN sum[n]

\* A coefficient without a variable is dropped, and so is the reverse.
At(form, point) ==
  form.k + SumUpTo(Lesser(Len(form.c), Len(point)), LAMBDA p : form.c[p] * point[p])

Access(buffer, coeffs, constant) == [buf |-> buffer, at |-> Form(coeffs, constant)]
Cell(access, point) == <<access.buf, At(access.at, point)>>

Loop(lo, hi, children) ==
  [op |-> "loop", lo |-> lo, hi |-> hi, parallel |-> FALSE, children |-> children]
\* The last iteration may be given by the extent of a buffer instead.
Extent(buffer, d) == [buf |-> buffer, dim |-> d]
LastOf(dims, hi, vars) == IF "buf" \in DOMAIN hi THEN dims[hi.buf][hi.dim] - 1 ELSE At(hi, vars)
Count(trip, children) == Loop(Literal(0), Literal(trip - 1), children)
Guard(form, children) == [op |-> "guard", test |-> form, children |-> children]

\* "legacy": every operand and the target is the element at the innermost
\* variable (ElemA, ElemB, a Store without coefficients); "affine": ElemIdx
\* operands and an affine Store; "mixed": legacy operands, affine Store.
Pair(form, body, accum, write, reads) ==
  [op |-> "pair", form |-> form, body |-> body, accum |-> accum, write |-> write, reads |-> reads]
Call(target, out, operands) == [op |-> "call", math |-> target, out |-> out, operands |-> operands]

Event(body, accum, write, reads) ==
  [body |-> body, accum |-> accum, write |-> write, reads |-> reads]
Fault == Event("fault", "none", <<"none", 0>>, <<>>)

\* The events of f[lo], ..., f[hi].
InTurn(lo, hi, f(_)) ==
  LET first[n \in 0 .. Greater(0, hi - lo + 1)] == IF n = 0 THEN <<>> ELSE first[n - 1] \o f(lo + n - 1)
  IN first[Greater(0, hi - lo + 1)]

-----------------------------------------------------------------------------
(***************************************************************************)
(* The reference kernels of Call nodes.                                    *)
(***************************************************************************)

Clear(cell) == Event("zero", "none", cell, <<>>)
Lowest(cell) == Event("lowest", "none", cell, <<>>)

\* C += A * B: the product is added to what the caller left in C. (A zero of A
\* is skipped: the same for finite elements of B.)
GemmCall(dims, node) ==
  LET a == node.operands[1]
      b == node.operands[2]
      m == dims[a][1]
      k == dims[a][2]
      n == dims[node.out][2]
      Block(from, to, f(_)) ==
        InTurn(0, (to - from - 1) \div GemmTile,
               LAMBDA t : f(<<from + t * GemmTile, Lesser(from + (t + 1) * GemmTile, to) - 1>>))
      Inner(rows, cols, deep) ==
        InTurn(rows[1], rows[2], LAMBDA i : InTurn(deep[1], deep[2], LAMBDA p :
          InTurn(cols[1], cols[2], LAMBDA j :
            <<Event("mul", "add", <<node.out, i * n + j>>, << <<a, i * k + p>>, <<b, p * n + j>> >>)>>)))
  IN Block(0, m, LAMBDA rows : Block(0, n, LAMBDA cols : Block(0, k, LAMBDA deep :
       Inner(rows, cols, deep))))

\* The sums and the maximum of a row live in local variables; here they are
\* elements of scratch buffers that nothing else reads.
ReduceSumCall(dims, node) ==
  LET a == node.operands[1]
      k == dims[a][2]
  IN InTurn(0, dims[a][1] - 1, LAMBDA i :
       <<Clear(<<node.out, i>>)>>
       \o InTurn(0, k - 1, LAMBDA p :
            <<Event("load", "add", <<node.out, i>>, << <<a, i * k + p>> >>)>>))

SoftmaxCall(dims, node) ==
  LET a == node.operands[1]
      y == node.out
      k == dims[a][2]
      r(i) == <<"rowmax", i>>
      s(i) == <<"rowsum", i>>
  IN InTurn(0, dims[a][1] - 1, LAMBDA i :
       LET Row(f(_)) == InTurn(i * k, i * k + k - 1, LAMBDA e : <<f(e)>>)
       IN <<Lowest(r(i))>>
          \o Row(LAMBDA e : Event("load", "max", r(i), << <<a, e>> >>))
          \o Row(LAMBDA e : Event("exp", "none", <<y, e>>, << <<a, e>>, r(i) >>))
          \o <<Clear(s(i))>>
          \o Row(LAMBDA e : Event("load", "add", s(i), << <<y, e>> >>))
          \o Row(LAMBDA e : Event("div", "none", <<y, e>>, << <<y, e>>, s(i) >>)))

CallEvents(dims, node) ==
  CASE node.math = "matmul"    -> GemmCall(dims, node)
    [] node.math = "reducesum" -> ReduceSumCall(dims, node)
    [] node.math = "softmax"   -> SoftmaxCall(dims, node)

-----------------------------------------------------------------------------
(***************************************************************************)
(* The walker.                                                             *)
(***************************************************************************)

\* The walker refuses legacy operands.
PairEvents(node, vars) ==
  IF node.form = "mixed" \/ At(node.write.at, vars) < 0 THEN <<Fault>>
  ELSE <<Event(node.body, node.accum, Cell(node.write, vars),
               [n \in DOMAIN node.reads |-> Cell(node.reads[n], vars)])>>

\* A guard may not name a variable that is not bound.
Unbound(form, vars) == \E p \in DOMAIN form.c : p > Len(vars) /\ form.c[p] # 0

RECURSIVE Walk(_, _, _)
Walk(dims, node, vars) ==
  LET Children(v) == InTurn(1, Len(node.children), LAMBDA n : Walk(dims, node.children[n], v))
  IN CASE node.op = "loop"  -> InTurn(At(node.lo, vars), LastOf(dims, node.hi, vars),
                                      LAMBDA v : Children(Append(vars, v)))
       [] node.op = "guard" -> IF Unbound(node.test, vars) THEN <<Fault>>
                               ELSE IF At(node.test, vars) = 0 THEN Children(vars) ELSE <<>>
       [] node.op = "pair"  -> PairEvents(node, vars)
       [] node.op = "call"  -> CallEvents(dims, node)

Run(kernel) ==
  InTurn(1, Len(kernel.roots), LAMBDA r : Walk(kernel.dims, kernel.roots[r], <<>>))

-----------------------------------------------------------------------------
(***************************************************************************)
(* What a run leaves in memory.                                            *)
(***************************************************************************)

\* An input starts with contents of its own, every other element with zero.
Initial(inputs, cell) ==
  IF cell[1] \in inputs THEN <<[body |-> cell[1], at |-> cell[2], args |-> <<>>]>> ELSE <<>>

Contents(inputs, memory, cell) ==
  IF cell \in DOMAIN memory THEN memory[cell] ELSE Initial(inputs, cell)

Contribution(inputs, memory, event) ==
  IF event.body = "zero" THEN <<>>
  ELSE <<[body |-> event.body, at |-> IF event.accum = "max" THEN 1 ELSE 0,
          args |-> [n \in DOMAIN event.reads |-> Contents(inputs, memory, event.reads[n])]]>>

\* Add and Max combine the value with what the element holds.
Perform(inputs, memory, event) ==
  LET value == Contribution(inputs, memory, event)
      kept  == IF event.accum = "none" THEN <<>> ELSE Contents(inputs, memory, event.write)
  IN (event.write :> kept \o value) @@ memory

MemoryAfter(inputs, events) ==
  FoldLeft(LAMBDA memory, event : Perform(inputs, memory, event), << >>, events)

\* What the caller sees: the elements of the outputs.
Answer(kernel) ==
  LET memory == MemoryAfter(kernel.inputs, Run(kernel))
  IN [cell \in {c \in DOMAIN memory : c[1] \in kernel.outputs} |-> memory[cell]]

-----------------------------------------------------------------------------
(***************************************************************************)
(* A loop marked parallel runs its iterations on threads without locks.    *)
(***************************************************************************)

Writes(events) == {events[n].write : n \in DOMAIN events}
Touches(events) == Writes(events) \union UNION {ToSet(events[n].reads) : n \in DOMAIN events}

\* No iteration of a parallel loop writes what another one touches.
RECURSIVE RaceFree(_, _, _)
RaceFree(dims, node, vars) ==
  CASE node.op = "loop" ->
         LET range == At(node.lo, vars) .. LastOf(dims, node.hi, vars)
             events == [v \in range |-> InTurn(1, Len(node.children),
                          LAMBDA n : Walk(dims, node.children[n], Append(vars, v)))]
         IN /\ node.parallel =>
                 \A v, w \in range : v # w => Writes(events[v]) \intersect Touches(events[w]) = {}
            /\ \A v \in range : \A n \in DOMAIN node.children :
                 RaceFree(dims, node.children[n], Append(vars, v))
    [] node.op = "guard" -> \A n \in DOMAIN node.children : RaceFree(dims, node.children[n], vars)
    [] node.op \in {"pair", "call"} -> TRUE

=============================================================================
