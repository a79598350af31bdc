------------------------------ MODULE PolyCodegen ------------------------------
(***************************************************************************)
(* From a schedule to a kernel (polyhedral/src/codegen.cpp).               *)
(*                                                                         *)
(* The emitter walks the rows outermost first. Its state is the nodes of   *)
(* the body under construction, the statements that are emitted, the       *)
(* guards that wait for a statement's payload, the number of copies the    *)
(* splits made so far, and whether it gave up. A stack names the dimension *)
(* of every enclosing loop, zero for a loop over tiles.                    *)
(***************************************************************************)
EXTENDS PolySchedule

CONSTANT MaxCopies  \* kPolyMaxCodegenCopies

ASSUME MaxCopiesAssumption == MaxCopies \in Nat \ {0}

Fail(e) == [e EXCEPT !.ok = FALSE]
WithNode(e, node) == [e EXCEPT !.nodes = Append(@, node)]
NoTiles == 0
OnStack(stack, d) == d \in ToSet(stack)
PositionOf(stack, d) == Min({q \in DOMAIN stack : stack[q] = d})

-----------------------------------------------------------------------------
(***************************************************************************)
(* Payloads.                                                               *)
(***************************************************************************)

\* Every dimension with a coefficient is a loop here or pinned.
Addressable(stmt, stack, form) ==
  \A d \in DOMAIN form.c : form.c[d] # 0 => OnStack(stack, d) \/ Pinned(stmt, d)

StackForm(stmt, stack, form) ==
  Form([q \in DOMAIN stack |-> IF stack[q] \in DOMAIN form.c THEN form.c[stack[q]] ELSE 0],
       form.k + SumUpTo(Len(form.c), LAMBDA d :
                          IF OnStack(stack, d) THEN 0 ELSE form.c[d] * Pin(stmt, d)))

\* Legacy operands are copied as they are; the target becomes affine.
Payload(stmt, stack) ==
  LET pair == stmt.pair
      Mapped(access) == [access EXCEPT !.at = StackForm(stmt, stack, @)]
  IN [pair EXCEPT !.form = IF @ = "legacy" /\ pair.reads # <<>> THEN "mixed" ELSE "affine",
                  !.write = Mapped(@),
                  !.reads = [n \in DOMAIN @ |-> Mapped(@[n])]]

\* guard: <<dimension, value>>
GuardForm(stack, guard) ==
  LET position == PositionOf(stack, guard[1])
  IN Form([q \in 1 .. position |-> IF q = position THEN 1 ELSE 0], -guard[2])

EmitPayload(plan, e, stack, s) ==
  LET stmt   == plan.scop.stmts[s]
      forms  == {stmt.pair.write.at} \union {stmt.pair.reads[n].at : n \in DOMAIN stmt.pair.reads}
      guards == e.guards[s]
      node   == FoldRight(LAMBDA guard, inner : Guard(GuardForm(stack, guard), <<inner>>),
                          guards, Payload(stmt, stack))
  IN IF \/ \E form \in forms : ~Addressable(stmt, stack, form)
        \/ \E g \in DOMAIN guards : ~OnStack(stack, guards[g][1])
     THEN Fail(e)
     ELSE [WithNode(e, node) EXCEPT !.emitted = @ \union {s}]

EmitPayloads(plan, e, stack, order) ==
  FoldLeft(LAMBDA at, s : EmitPayload(plan, at, stack, s), e, order)

\* items: pairs of a row value and a statement, by value and then by statement.
EmitConstItems(plan, e, stack, items) ==
  LET order == SetToSortSeq(items, LAMBDA a, b : a[1] < b[1] \/ (a[1] = b[1] /\ a[2] < b[2]))
  IN EmitPayloads(plan, e, stack, [n \in DOMAIN order |-> order[n][2]])

\* The smallest value of a row over the box of a statement.
RowMinimum(stmt, form) ==
  At(form, [d \in DOMAIN form.c |-> IF form.c[d] > 0 THEN LowerBound(stmt, d) ELSE UpperBound(stmt, d)])

\* The rest of the statement's schedule is constant and comes first.
CanEmitBefore(plan, s, r) ==
  LET stmts == plan.scop.stmts
  IN \A q \in r + 1 .. Len(plan.schedule.rows) :
       LET row == plan.schedule.rows[q]
       IN /\ RowConstant(stmts[s], row[s])
          /\ \A t \in DOMAIN stmts \ {s} : FoldedValue(stmts[s], row[s]) <= RowMinimum(stmts[t], row[t])

-----------------------------------------------------------------------------
(***************************************************************************)
(* Parts of a range. A part has the statements of its body; a part of a    *)
(* loop over tiles has the end of a partial tile, or none, and the parts   *)
(* of its single tile when statements join inside that tile.               *)
(***************************************************************************)

NoEnd == -1
Part(lo, hi, stmts) == [lo |-> lo, hi |-> hi, stmts |-> stmts, last |-> NoEnd, inside |-> <<>>]

Joining(reentry, v) == {item[2] : item \in {i \in reentry : i[1] = v}}

\* The parts of lo..hi: the statements of reentry join at their values.
CutAt(stmts, reentry, lo, hi) ==
  LET cuts   == {item[1] : item \in reentry} \intersect lo .. hi
      starts == SetToSortSeq(({lo} \union cuts \union {v + 1 : v \in cuts}) \intersect lo .. hi, <)
      End(n) == IF n = Len(starts) THEN hi ELSE starts[n + 1] - 1
  IN [n \in DOMAIN starts |-> Part(starts[n], End(n), stmts \union Joining(reentry, starts[n]))]

\* The full tiles of lo..hi and the partial one after them.
TileParts(size, lo, hi) ==
  LET full == (hi + 1) \div size - 1
  IN (IF full >= lo \div size THEN <<Part(lo \div size, full, {})>> ELSE <<>>)
     \o IF (hi + 1) % size # 0 THEN <<[Part(hi \div size, hi \div size, {}) EXCEPT !.last = hi]>> ELSE <<>>

\* A tile where statements join is alone in its part, and cut.
CutTiles(part, stmts, reentry, size) ==
  LET tiles == {<<item[1] \div size, item[2]>> : item \in reentry}
      Cut(piece) ==
        IF Joining(tiles, piece.lo) = {} THEN [piece EXCEPT !.last = part.last]
        ELSE [piece EXCEPT !.inside =
                CutAt(stmts, reentry, piece.lo * size,
                      IF part.last # NoEnd THEN part.last ELSE piece.lo * size + size - 1)]
      pieces == CutAt(stmts, tiles, part.lo, part.hi)
  IN [n \in DOMAIN pieces |-> Cut(pieces[n])]

\* Mutant: a part starts from the marks the part before it left.
ReplayedKeeping(e, start, stmts) == e

\* The marks of the statements a part replays, and the guards, are again
\* what they were before the first part.
Replayed(e, start, stmts) ==
  [e EXCEPT !.emitted = (@ \ stmts) \union (start.emitted \intersect stmts), !.guards = start.guards]

InParts(e, parts, EmitPart(_, _)) ==
  FoldLeft(LAMBDA at, part : EmitPart(Replayed(at, e, part.stmts), part), e, parts)

-----------------------------------------------------------------------------
(***************************************************************************)
(* Loops.                                                                  *)
(***************************************************************************)

RECURSIVE EmitLevel(_, _, _, _, _)

TiledRow(plan, r) == r <= plan.tiling.band

\* A loop of row r around what Emit makes of an empty body.
Around(plan, e, r, lo, hi, Emit(_)) ==
  LET inner == Emit([e EXCEPT !.nodes = <<>>])
      loop  == [Loop(lo, hi, inner.nodes) EXCEPT !.parallel = plan.schedule.parallel[r]]
  IN [inner EXCEPT !.nodes = Append(e.nodes, loop)]

EmitPlainLoop(plan, e, stack, part, r) ==
  Around(plan, e, r, Literal(part.lo), Literal(part.hi),
         LAMBDA inner : EmitLevel(plan, inner, Append(stack, plan.schedule.pivots[r]), part.stmts, r + 1))

TilePoint(position, size, offset) ==
  Form([q \in 1 .. position |-> IF q = position THEN size ELSE 0], offset)

EmitPointBody(plan, e, stack, part, r) ==
  LET size == plan.tiling.size
  IN Around(plan, e, r, TilePoint(Len(stack), size, 0),
            IF part.last # NoEnd THEN Literal(part.last) ELSE TilePoint(Len(stack), size, size - 1),
            LAMBDA inner : EmitLevel(plan, inner, Append(stack, plan.schedule.pivots[r]), part.stmts, r + 1))

EmitTiles(plan, e, stack, part, r) ==
  LET within == Append(stack, NoTiles)
  IN Around(plan, e, r, Literal(part.lo), Literal(part.hi),
            LAMBDA inner :
              IF part.inside = <<>> THEN EmitPointBody(plan, inner, within, part, r)
              ELSE InParts(inner, part.inside, LAMBDA at, p : EmitPlainLoop(plan, at, within, p, r)))

EmitLoop(plan, e, stack, stmts, lo, hi, r) ==
  LET size   == plan.tiling.size
      parts  == TileParts(size, lo, hi)
      copies == IF (hi + 1) % size = 0 THEN e.copies ELSE 2 * e.copies
  IN IF ~TiledRow(plan, r) THEN EmitPlainLoop(plan, e, stack, Part(lo, hi, stmts), r)
     ELSE IF lo % size # 0 \/ copies > Greater(MaxCopies, e.copies) THEN Fail(e)
     ELSE InParts([e EXCEPT !.copies = copies],
                  [n \in DOMAIN parts |-> [parts[n] EXCEPT !.stmts = stmts]],
                  LAMBDA at, part : EmitTiles(plan, at, stack, part, r))

SplitParts(plan, stmts, reentry, lo, hi, r) ==
  LET size == plan.tiling.size
      parts == TileParts(size, lo, hi)
  IN IF TiledRow(plan, r)
     THEN FlattenSeq([n \in DOMAIN parts |-> CutTiles(parts[n], stmts, reentry, size)])
     ELSE CutAt(stmts, reentry, lo, hi)

\* Past the budget the statements that join are guarded in one loop.
EmitSplitNest(plan, e, stack, stmts, reentry, lo, hi, r) ==
  LET parts == SplitParts(plan, stmts, reentry, lo, hi, r)
      value(s) == CHOOSE v \in lo .. hi : <<v, s>> \in reentry
      joining == {item[2] : item \in reentry}
      Guarded(s) == IF s \in joining THEN Append(e.guards[s], <<plan.schedule.pivots[r], value(s)>>)
                    ELSE e.guards[s]
  IN IF TiledRow(plan, r) /\ lo % plan.tiling.size # 0 THEN Fail(e)
     ELSE IF Len(parts) > 1 /\ e.copies * Len(parts) > MaxCopies
     THEN EmitLoop(plan, [e EXCEPT !.guards = [s \in DOMAIN e.guards |-> Guarded(s)]],
                   stack, stmts \union joining, lo, hi, r)
     ELSE InParts([e EXCEPT !.copies = @ * Len(parts)], parts,
                  LAMBDA at, part : IF TiledRow(plan, r) THEN EmitTiles(plan, at, stack, part, r)
                                    ELSE EmitPlainLoop(plan, at, stack, part, r))

-----------------------------------------------------------------------------
(***************************************************************************)
(* One row: what comes before its loop, the loop, and what comes after it. *)
(***************************************************************************)

\* stmts vary on the pivot, items are constant: pairs of a value and a statement.
EmitRow(plan, e, stack, stmts, items, r) ==
  LET pivot == plan.schedule.pivots[r]
      \* The bounds of all the statements at once: their intersection.
      lo == Max({LowerBound(plan.scop.stmts[s], pivot) : s \in stmts})
      hi == Min({UpperBound(plan.scop.stmts[s], pivot) : s \in stmts})
      before == {item \in items : item[1] < lo \/ (item[1] = lo /\ CanEmitBefore(plan, item[2], r))}
      after  == {item \in items : item[1] > hi} \ before
      reentry == items \ (before \union after)
      hoisted == EmitConstItems(plan, e, stack, before)
      looped  == IF reentry = {} THEN EmitLoop(plan, hoisted, stack, stmts, lo, hi, r)
                 ELSE EmitSplitNest(plan, hoisted, stack, stmts, reentry, lo, hi, r)
  IN IF lo > hi \/ \E s \in stmts : pivot > OwnDepth(plan.scop.stmts[s]) THEN Fail(e)
     ELSE IF ~looped.ok THEN looped
     ELSE EmitConstItems(plan, looped, stack, after)

EmitLevel(plan, e, stack, stmts, r) ==
  LET alive == stmts \ e.emitted
      row   == plan.schedule.rows[r]
      constant == {s \in alive : RowConstant(plan.scop.stmts[s], row[s])}
      varying  == {s \in alive \ constant : row[s].c[plan.schedule.pivots[r]] >= 1}
      items == {<<FoldedValue(plan.scop.stmts[s], row[s]), s>> : s \in constant}
  IN IF ~e.ok \/ alive = {} THEN e
     ELSE IF r > Len(plan.schedule.rows) THEN EmitPayloads(plan, e, stack, SetToSortSeq(alive, <))
     ELSE IF alive # constant \union varying THEN Fail(e)
     ELSE IF varying = {} THEN EmitConstItems(plan, e, stack, items)
     ELSE EmitRow(plan, e, stack, varying, items, r)

EmitScheduledKernel(scop, schedule, tiling) ==
  EmitLevel([scop |-> scop, schedule |-> schedule, tiling |-> tiling],
            [nodes |-> <<>>, emitted |-> {}, guards |-> [s \in Statements(scop) |-> <<>>],
             copies |-> 1, ok |-> TRUE],
            <<>>, Statements(scop), 1)

\* An emission that leaves a statement out is an internal error.
Complete(scop, e) == e.ok /\ e.emitted = Statements(scop)

RECURSIVE Payloads(_)
Payloads(node) ==
  CASE node.op = "pair" -> 1
    [] node.op = "call" -> 0
    [] node.op \in {"loop", "guard"} -> SumUpTo(Len(node.children), LAMBDA n : Payloads(node.children[n]))

PayloadCount(roots) == SumUpTo(Len(roots), LAMBDA r : Payloads(roots[r]))

=============================================================================
