--------------------------------- MODULE Scop ---------------------------------
(***************************************************************************)
(* The statements of a kernel and their dependences                        *)
(* (polyhedral/src/scop.cpp, polyhedral/src/dependence.cpp).               *)
(*                                                                         *)
(* Domains and relations are held as the integer points that satisfy the   *)
(* rows the code builds: a relation is a set of pairs of instances.        *)
(***************************************************************************)
EXTENDS KernelTree

CONSTANTS
  MaxDims,        \* kPolyMaxDims: loops around a statement
  MaxStatements,  \* kPolyMaxStatements
  MaxExtent       \* the largest upper bound of a loop in the checked kernels

ASSUME ScopBoundsAssumption == {MaxDims, MaxStatements, MaxExtent} \subseteq Nat

\* An operand without affine coefficients follows the innermost variable.
Padded(form, pair, depth, rank) ==
  LET c == IF pair.form = "legacy" THEN [d \in 1 .. depth |-> IF d = depth THEN 1 ELSE 0] ELSE form.c
  IN Form([d \in 1 .. rank |-> IF d <= Lesser(depth, Len(c)) THEN c[d] ELSE 0], form.k)

PaddedAccess(access, pair, depth, rank) == [access EXCEPT !.at = Padded(@, pair, depth, rank)]

\* One entry per pair under the root, in textual order, with its loops' bounds.
RECURSIVE PairsUnder(_, _, _)
PairsUnder(node, lower, upper) ==
  CASE node.op = "pair" -> <<[pair |-> node, lower |-> lower, upper |-> upper]>>
    [] node.op = "loop" ->
         InTurn(1, Len(node.children), LAMBDA n :
           PairsUnder(node.children[n], Append(lower, node.lo.k), Append(upper, node.hi.k)))
    [] node.op \in {"guard", "call"} -> <<>>

RECURSIVE Eligible(_, _)
Eligible(node, depth) ==
  CASE node.op = "pair" -> depth > 0
    [] node.op = "loop" -> /\ depth < MaxDims
                           /\ node.lo.c = <<>> /\ node.hi.c = <<>>
                           /\ node.lo.k >= 0 /\ node.hi.k >= node.lo.k - 1
                           /\ \A n \in DOMAIN node.children : Eligible(node.children[n], depth + 1)
    [] node.op \in {"guard", "call"} -> FALSE

AllPairs(kernel) ==
  InTurn(1, Len(kernel.roots), LAMBDA r : PairsUnder(kernel.roots[r], <<>>, <<>>))

HasScop(kernel) ==
  /\ \A r \in DOMAIN kernel.roots : Eligible(kernel.roots[r], 0)
  /\ Len(AllPairs(kernel)) \in 1 .. MaxStatements

\* The statements have the rank of the deepest one; their own bounds cover
\* only the loops around them.
ExtractScop(kernel) ==
  LET found == AllPairs(kernel)
      rank == Max({Len(found[s].lower) : s \in DOMAIN found})
      Statement(s) ==
        LET pair == found[s].pair
            depth == Len(found[s].lower)
        IN [pair |-> [pair EXCEPT
                        !.write = PaddedAccess(@, pair, depth, rank),
                        !.reads = [n \in DOMAIN @ |-> PaddedAccess(@[n], pair, depth, rank)]],
            lower |-> found[s].lower, upper |-> found[s].upper]
  IN [rank |-> rank, stmts |-> [s \in DOMAIN found |-> Statement(s)]]

OwnDepth(stmt) == Len(stmt.lower)

\* The dimensions below the statement's own loops are pinned to zero.
LowerBound(stmt, d) == IF d <= OwnDepth(stmt) THEN stmt.lower[d] ELSE 0
UpperBound(stmt, d) == IF d <= OwnDepth(stmt) THEN stmt.upper[d] ELSE 0

Domain(scop, s) ==
  {v \in [1 .. scop.rank -> 0 .. MaxExtent] :
     \A d \in 1 .. scop.rank : v[d] \in LowerBound(scop.stmts[s], d) .. UpperBound(scop.stmts[s], d)}

-----------------------------------------------------------------------------
(***************************************************************************)
(* Dependences: pairs of a source and a sink instance.                     *)
(***************************************************************************)

MemoryAccess(access, isWrite) == [buf |-> access.buf, at |-> access.at, isWrite |-> isWrite]

\* A store that accumulates reads its target too.
Accesses(stmt) ==
  LET pair == stmt.pair
  IN {MemoryAccess(pair.reads[n], FALSE) : n \in DOMAIN pair.reads}
     \union {MemoryAccess(pair.write, TRUE)}
     \union IF pair.accum = "none" THEN {} ELSE {MemoryAccess(pair.write, FALSE)}

\* The tie row: src.c * i - dst.c * j - (src.k - dst.k) = 0.
Tied(src, dst, i, j) ==
  (At(src.at, i) - src.at.k) - (At(dst.at, j) - dst.at.k) - (src.at.k - dst.at.k) = 0

LexGreater(j, i) ==
  \E pivot \in DOMAIN i : j[pivot] > i[pivot] /\ \A d \in 1 .. pivot - 1 : j[d] = i[d]

Kind(a, b) == CASE a.isWrite /\ b.isWrite   -> "waw"
                [] a.isWrite /\ ~b.isWrite  -> "raw"
                [] ~a.isWrite /\ b.isWrite  -> "war"
                [] ~a.isWrite /\ ~b.isWrite -> "rar"

\* Mutant: a reader of a reduction is tied to the iterations up to its own.
OrderedNarrow(scop, s, t, kind, i, j) ==
  IF s = t THEN LexGreater(j, i) ELSE j = i \/ LexGreater(j, i)

\* A plain reader of an accumulated value depends on the whole chain.
Ordered(scop, s, t, kind, i, j) ==
  \/ s # t /\ kind = "raw" /\ scop.stmts[s].pair.accum # "none"
  \/ s # t /\ i = j
  \/ LexGreater(j, i)

Relation(scop, s, t, a, b) ==
  {ij \in Domain(scop, s) \X Domain(scop, t) :
     Tied(a, b, ij[1], ij[2]) /\ Ordered(scop, s, t, Kind(a, b), ij[1], ij[2])}

DependencesBetween(scop, s, t) ==
  LET conflicts == {ab \in Accesses(scop.stmts[s]) \X Accesses(scop.stmts[t]) :
                      ab[1].buf = ab[2].buf /\ (ab[1].isWrite \/ ab[2].isWrite)}
  IN {[src |-> s, dst |-> t, pairs |-> Relation(scop, s, t, ab[1], ab[2])] : ab \in conflicts}

\* The sink is the source statement or a later one.
ComputeDependences(scop) ==
  LET n == Len(scop.stmts)
  IN {dep \in UNION {DependencesBetween(scop, s, t) : s \in 1 .. n, t \in 1 .. n} :
        dep.src <= dep.dst /\ dep.pairs # {}}

=============================================================================
