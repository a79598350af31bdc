----------------------------- MODULE PolySchedule -----------------------------
(***************************************************************************)
(* Schedules: the rows polyhedral/src/pluto.cpp may emit, the legality     *)
(* test that poly.verify runs, and the tiling of tile.cpp.                 *)
(*                                                                         *)
(* A row gives every statement a coefficient per dimension and a constant, *)
(* as a Form over the dimensions. The simplex solver is left open: it may  *)
(* return any row that satisfies the constraints it is given (with         *)
(* coefficients up to RowCoeff), or none, since a candidate that trips a   *)
(* budget is skipped and the next stage is tried. The score only chooses   *)
(* between orders, so every order may win.                                 *)
(***************************************************************************)
EXTENDS Scop

CONSTANT RowCoeff  \* kPolyMaxScheduleCoeff: the largest coefficient of a scaled row

ASSUME RowCoeffAssumption == RowCoeff \in Nat \ {0}

Pinned(stmt, d) == LowerBound(stmt, d) = UpperBound(stmt, d)
Pin(stmt, d) == LowerBound(stmt, d)

Statements(scop) == DOMAIN scop.stmts
VaryingDims(scop) == {d \in 1 .. scop.rank : \E s \in Statements(scop) : ~Pinned(scop.stmts[s], d)}

\* The statement sits at one value of the row: what its pinned dimensions give.
RowConstant(stmt, form) == \A d \in DOMAIN form.c : form.c[d] # 0 => Pinned(stmt, d)
FoldedValue(stmt, form) == At(form, [d \in DOMAIN form.c |-> Pin(stmt, d)])

DistanceConstant(row, dep) == row[dep.dst].k - row[dep.src].k
Distance(row, dep, ij) == At(row[dep.dst], ij[2]) - At(row[dep.src], ij[1])

\* The pairs the row leaves in order: the row of the slice is
\* coefficients * v - constant = 0, where the distance is
\* coefficients * v + constant.
Tie(row, dep, slice) == {ij \in slice : Distance(row, dep, ij) = 2 * DistanceConstant(row, dep)}

-----------------------------------------------------------------------------
(***************************************************************************)
(* The rows a stage of the search may return.                              *)
(***************************************************************************)

IdentityRow(scop, pivot) ==
  [s \in Statements(scop) |-> Form([d \in 1 .. scop.rank |-> IF d = pivot THEN 1 ELSE 0], 0)]

\* Dimensions that have no row yet do not occur; a statement that varies on
\* the pivot has no constant; the values start at zero.
StatementForms(scop, s, pivot, spent) ==
  LET stmt == scop.stmts[s]
  IN {form \in [c : [1 .. scop.rank -> -RowCoeff .. RowCoeff], k : -RowCoeff .. RowCoeff] :
        /\ \A d \in 1 .. scop.rank : d \notin spent \union {pivot} => form.c[d] = 0
        /\ form.c[pivot] >= 0
        /\ ~Pinned(stmt, pivot) => form.k = 0
        /\ \A v \in Domain(scop, s) : At(form, v) >= 0}

\* Either constant at a dimension where it is pinned, or moving with the pivot.
FormCodegenCompatible(stmt, pivot, form) ==
  IF RowConstant(stmt, form) THEN Pinned(stmt, pivot)
  ELSE form.c[pivot] >= 1 /\ ~Pinned(stmt, pivot)

CompatibleForms(scop, s, pivot, spent) ==
  {form \in StatementForms(scop, s, pivot, spent) :
     FormCodegenCompatible(scop.stmts[s], pivot, form)}

\* The rational solution gives one statement that varies on the pivot the
\* coefficient one; scaled by the denominators it may be larger.
Anchored(scop, row, pivot) ==
  \E a \in Statements(scop) : ~Pinned(scop.stmts[a], pivot) /\ row[a].c[pivot] >= 1

\* The scaled row is divided by what all its coefficients have in common.
Normalized(scop, row) ==
  \A q \in 2 .. RowCoeff : \E s \in Statements(scop) :
    row[s].k % q # 0 \/ \E d \in 1 .. scop.rank : row[s].c[d] % q # 0

\* Where the generated nest places an instance at the row of a pivot.
PivotCoordinate(stmt, pivot, v) == IF Pinned(stmt, pivot) THEN Pin(stmt, pivot) ELSE v[pivot]

Realizable(scop, dep, slice, pivot) ==
  \A ij \in slice : PivotCoordinate(scop.stmts[dep.dst], pivot, ij[2])
                    >= PivotCoordinate(scop.stmts[dep.src], pivot, ij[1])

NeverBackward(row, dep, slice) == \A ij \in slice : Distance(row, dep, ij) >= 0
AtOnce(row, dep, slice) == \A ij \in slice : Distance(row, dep, ij) = 0

\* The rows of the parallel and of the sequential stage. slices maps every
\* dependence that no row has ordered yet to the pairs left of it.
SearchedRows(scop, pivot, spent, slices) ==
  LET forms == [s \in Statements(scop) |-> CompatibleForms(scop, s, pivot, spent)]
      rows  == {row \in [Statements(scop) -> UNION {forms[s] : s \in Statements(scop)}] :
                  /\ \A s \in Statements(scop) : row[s] \in forms[s]
                  /\ Anchored(scop, row, pivot) /\ Normalized(scop, row)}
  IN IF \A dep \in DOMAIN slices : Realizable(scop, dep, slices[dep], pivot)
     THEN {row \in rows : \A dep \in DOMAIN slices : NeverBackward(row, dep, slices[dep])}
     ELSE {}

CandidateRows(scop, pivot, spent, slices) ==
  {IdentityRow(scop, pivot)}
  \union IF DOMAIN slices = {} THEN {} ELSE SearchedRows(scop, pivot, spent, slices)

-----------------------------------------------------------------------------
(***************************************************************************)
(* What a row does to the dependences (processRow).                        *)
(***************************************************************************)

OrdersStrictly(row, dep, slice) == \A ij \in slice : Distance(row, dep, ij) >= 1

\* The dependences that are left, each with the pairs that are left.
SlicesAfter(row, slices) ==
  LET left == {dep \in DOMAIN slices : ~OrdersStrictly(row, dep, slices[dep])
                                       /\ Tie(row, dep, slices[dep]) # {}}
  IN [dep \in left |-> Tie(row, dep, slices[dep])]

\* Mutant: the mark is taken from the slices that the row leaves.
ParallelAfterwards(row, slices) ==
  LET left == SlicesAfter(row, slices) IN \A dep \in DOMAIN left : AtOnce(row, dep, left[dep])

ParallelRow(row, slices) == \A dep \in DOMAIN slices : AtOnce(row, dep, slices[dep])

\* The whole schedule: no statement that is constant at a row spans its pivot.
CodegenShape(scop, schedule) ==
  \A r \in DOMAIN schedule.rows : \A s \in Statements(scop) :
    RowConstant(scop.stmts[s], schedule.rows[r][s]) => Pinned(scop.stmts[s], schedule.pivots[r])

-----------------------------------------------------------------------------
(***************************************************************************)
(* verifyScheduleLegality.                                                 *)
(***************************************************************************)

\* Row by row: strictly ordered, out of order, or what is left of the slice.
LegalityOfSlice(schedule, dep) ==
  FoldLeft(LAMBDA at, row :
             IF at.decided \/ at.slice = {} THEN at
             ELSE IF OrdersStrictly(row, dep, at.slice) THEN [at EXCEPT !.slice = {}]
             ELSE IF ~NeverBackward(row, dep, at.slice) THEN [at EXCEPT !.decided = TRUE]
             ELSE [at EXCEPT !.slice = Tie(row, dep, at.slice)],
           [decided |-> FALSE, slice |-> dep.pairs], schedule.rows)

\* Pairs that the schedule leaves tied run in the order of the statements.
Legal(deps, schedule) ==
  \A dep \in deps : LET at == LegalityOfSlice(schedule, dep)
                    IN ~at.decided /\ (at.slice # {} => dep.src < dep.dst)

-----------------------------------------------------------------------------
(***************************************************************************)
(* computeTiling: the band of rows that rectangular tiles may cover.       *)
(***************************************************************************)

RowVaries(scop, row) ==
  \E s \in Statements(scop) : \E v, w \in Domain(scop, s) : At(row[s], v) - At(row[s], w) >= 1

CoordinateStep(pivot, ij) == ij[2][pivot] - ij[1][pivot]

TiedOnPivot(pivot, slice) == {ij \in slice : CoordinateStep(pivot, ij) = 0}

BandRow(pivot, slices) ==
  \A dep \in DOMAIN slices : \A ij \in slices[dep] : CoordinateStep(pivot, ij) >= 0

LeftOnPivot(pivot, slices) ==
  LET left == {dep \in DOMAIN slices : TiedOnPivot(pivot, slices[dep]) # {}}
  IN [dep \in left |-> TiedOnPivot(pivot, slices[dep])]

\* The band ends where nothing is left to order or no statement varies, and
\* is given up altogether where a dependence goes backward.
ComputeTiling(scop, deps, schedule, tileSize) ==
  LET Row(at, r) ==
        IF at.ended THEN at
        ELSE IF DOMAIN at.slices = {} \/ ~RowVaries(scop, schedule.rows[r])
        THEN [at EXCEPT !.ended = TRUE, !.tiled = at.band > 0]
        ELSE IF ~BandRow(schedule.pivots[r], at.slices) THEN [at EXCEPT !.ended = TRUE]
        ELSE [at EXCEPT !.band = r, !.slices = LeftOnPivot(schedule.pivots[r], @)]
      last == FoldLeft(Row, [ended |-> FALSE, tiled |-> FALSE, band |-> 0,
                             slices |-> [dep \in deps |-> dep.pairs]],
                       [r \in DOMAIN schedule.rows |-> r])
  IN [band |-> IF last.tiled \/ ~last.ended THEN last.band ELSE 0, size |-> tileSize]

=============================================================================
