----------------------------- MODULE PolyPipeline -----------------------------
(***************************************************************************)
(* The polyhedral passes of a tier 3 compilation, in the order of          *)
(* compiler/src/pipeline/pipeline_runner.cpp, on the kernel that the       *)
(* lowering left (compiler/src/passes/poly/*.cpp). Every pass may be       *)
(* killed, and one that does not apply is skipped. The search of a         *)
(* schedule takes a step per row.                                          *)
(***************************************************************************)
EXTENDS PolySynth, PolyCodegen

CONSTANTS
  Kernels,    \* the kernels the lowering may leave
  TileSizes,  \* the values of the knob poly_tile_size
  Killable    \* the passes that a kill switch may name

VARIABLES
  kernel,
  baseline,  \* what the lowering left
  pass,      \* the next pass
  valid,     \* the results in the workspace that are valid
  scop,
  deps,
  search,    \* the dimensions without a row, and the rows so far
  tiling,
  saved      \* the kernel before codegen, for poly.verify

vars == <<kernel, baseline, pass, valid, scop, deps, search, tiling, saved>>

NoScop == [rank |-> 0, stmts |-> <<>>]
NoRows == [rows |-> <<>>, pivots |-> <<>>, parallel |-> <<>>]
NoSearch == [order |-> <<>>, schedule |-> NoRows]

Passes == <<"synth", "scop_detect", "dependence", "schedule", "tile", "codegen", "verify", "emit">>
After(p) == LET n == CHOOSE n \in DOMAIN Passes : Passes[n] = p IN Passes[n + 1]

Init ==
  /\ kernel \in Kernels /\ baseline = kernel /\ saved = kernel
  /\ pass = "synth" /\ valid = {}
  /\ scop = NoScop /\ deps = {} /\ search = NoSearch
  /\ tiling = [band |-> 0, size |-> 1]

\* A pass that is killed, or finds that what it needs is not valid.
Needs == [synth |-> {}, scop_detect |-> {}, dependence |-> {"scop"}, schedule |-> {"scop", "deps"},
          tile |-> {"scop", "deps", "schedule"}, codegen |-> {"scop", "deps", "schedule", "tile"},
          verify |-> {"codegen"}]

Runs(p) == pass = p /\ pass' = After(p) /\ Needs[p] \subseteq valid
Keeps(results) == valid' = valid \intersect results

Skip ==
  /\ pass \in DOMAIN Needs /\ pass' = After(pass)
  /\ \/ pass \in Killable
     \/ ~(Needs[pass] \subseteq valid)
     \/ pass = "synth" /\ ~Synthesizable(kernel)
  /\ UNCHANGED <<kernel, baseline, valid, scop, deps, search, tiling, saved>>

-----------------------------------------------------------------------------
Synth ==
  /\ Runs("synth") /\ Synthesizable(kernel)
  /\ kernel' = Synthesize(kernel) /\ Keeps({})
  /\ UNCHANGED <<baseline, scop, deps, search, tiling, saved>>

ScopDetect ==
  /\ Runs("scop_detect")
  /\ valid' = IF HasScop(kernel) THEN {"scop"} ELSE {}
  /\ scop' = IF HasScop(kernel) THEN ExtractScop(kernel) ELSE scop
  /\ UNCHANGED <<kernel, baseline, deps, search, tiling, saved>>

Dependence ==
  /\ Runs("dependence")
  /\ deps' = ComputeDependences(scop) /\ valid' = {"scop", "deps"}
  /\ UNCHANGED <<kernel, baseline, scop, search, tiling, saved>>

-----------------------------------------------------------------------------
(***************************************************************************)
(* computePlutoSchedule: every order of the varying dimensions is tried    *)
(* and any of them may win.                                                *)
(***************************************************************************)

Slices(rows) ==
  FoldLeft(LAMBDA slices, row : SlicesAfter(row, slices), [dep \in deps |-> dep.pairs], rows)

\* The tries before the one that wins leave nothing behind.
TryOrder ==
  /\ pass = "schedule" /\ Needs[pass] \subseteq valid /\ search = NoSearch
  /\ \E order \in SetToSeqs(VaryingDims(scop)) :
       order # <<>> /\ search' = [search EXCEPT !.order = order]
  /\ pass' = "row" /\ Keeps({"scop", "deps"})
  /\ UNCHANGED <<kernel, baseline, scop, deps, tiling, saved>>

\* A row that puts a dependence out of order rejects the order.
AddRow ==
  /\ pass = "row" /\ search.order # <<>>
  /\ LET sched == search.schedule
         pivot == Head(search.order)
         left  == Slices(sched.rows)
     IN \E row \in CandidateRows(scop, pivot, ToSet(sched.pivots), left) :
          /\ \A dep \in DOMAIN left : NeverBackward(row, dep, left[dep])
          /\ search' = [order |-> Tail(search.order),
                        schedule |-> [rows |-> Append(sched.rows, row),
                                      pivots |-> Append(sched.pivots, pivot),
                                      parallel |-> Append(sched.parallel, ParallelRow(row, left))]]
  /\ UNCHANGED <<kernel, baseline, pass, valid, scop, deps, tiling, saved>>

\* Mutant: the schedule is taken before every dimension has a row.
TakeScheduleEarly ==
  /\ pass = "row" /\ CodegenShape(scop, search.schedule)
  /\ pass' = "tile" /\ valid' = valid \union {"schedule"}
  /\ UNCHANGED <<kernel, baseline, scop, deps, search, tiling, saved>>

TakeSchedule ==
  /\ pass = "row" /\ search.order = <<>> /\ CodegenShape(scop, search.schedule)
  /\ pass' = "tile" /\ valid' = valid \union {"schedule"}
  /\ UNCHANGED <<kernel, baseline, scop, deps, search, tiling, saved>>

\* No order, or not this one, or not within the budget: the kernel stays.
NoSchedule ==
  /\ pass \in {"schedule", "row"} /\ Needs["schedule"] \subseteq valid
  /\ pass' = "tile" /\ Keeps({"scop", "deps"}) /\ search' = NoSearch
  /\ UNCHANGED <<kernel, baseline, scop, deps, tiling, saved>>

-----------------------------------------------------------------------------
Tile ==
  /\ Runs("tile")
  /\ \E size \in TileSizes : tiling' = ComputeTiling(scop, deps, search.schedule, size)
  /\ valid' = {"scop", "deps", "schedule", "tile"}
  /\ UNCHANGED <<kernel, baseline, scop, deps, search, saved>>

\* Codegen that gives up leaves the kernel as it is; one that leaves a
\* statement out fails the compilation.
Codegen ==
  /\ pass = "codegen" /\ Needs[pass] \subseteq valid
  /\ LET emission == EmitScheduledKernel(scop, search.schedule, tiling)
     IN IF Complete(scop, emission)
        THEN /\ pass' = "verify" /\ saved' = kernel /\ valid' = valid \union {"codegen"}
             /\ kernel' = [kernel EXCEPT !.roots = emission.nodes]
        ELSE /\ pass' = IF emission.ok THEN "failed" ELSE "verify"
             /\ UNCHANGED <<kernel, saved, valid>>
  /\ UNCHANGED <<baseline, scop, deps, search, tiling>>

\* After an illegal schedule the saved kernel is back; with too few or too
\* many payloads the compilation fails.
Verify ==
  /\ pass = "verify" /\ Needs[pass] \subseteq valid
  /\ LET legal == Legal(deps, search.schedule)
         n == Len(scop.stmts)
     IN IF legal /\ PayloadCount(kernel.roots) \in n .. n * MaxCopies
        THEN pass' = After(pass) /\ UNCHANGED <<kernel, valid>>
        ELSE /\ kernel' = saved
             /\ pass' = IF legal THEN "failed" ELSE After(pass)
             /\ valid' = valid \ IF legal THEN {"codegen"} ELSE {"codegen", "schedule", "tile"}
  /\ UNCHANGED <<baseline, scop, deps, search, tiling, saved>>

\* The backend takes the kernel, or there is none.
Done == pass \in {"emit", "failed"} /\ UNCHANGED vars

Next ==
  \/ Skip \/ Synth \/ ScopDetect \/ Dependence
  \/ TryOrder \/ AddRow \/ TakeSchedule \/ NoSchedule
  \/ Tile \/ Codegen \/ Verify \/ Done

Spec == Init /\ [][Next]_vars

-----------------------------------------------------------------------------
(***************************************************************************)
(* Properties.                                                             *)
(***************************************************************************)

\* The results in the workspace rest on one another, a schedule has a pivot
\* and a mark per row and no pivot twice, and a band covers rows there are.
TypeOK ==
  /\ pass \in ToSet(Passes) \union {"row", "failed"}
  /\ \E n \in 0 .. 5 : valid = ToSet(SubSeq(<<"scop", "deps", "schedule", "tile", "codegen">>, 1, n))
  /\ LET sched == search.schedule
     IN /\ Len(sched.rows) = Len(sched.pivots) /\ Len(sched.rows) = Len(sched.parallel)
        /\ IsInjective(search.order \o sched.pivots)
        /\ "schedule" \in valid => ToSet(sched.pivots) = VaryingDims(scop)
        /\ "tile" \in valid => tiling.band \in 0 .. Len(sched.rows)

\* Whatever passes run or are killed, whatever schedule is found and whatever
\* the tile size: the kernel performs the operations of the one the lowering
\* left, on the same operands and in the same order at every element
\* (docs/polyhedral_spec.md:36: every failure keeps the baseline kernel; :264:
\* bit-exact by construction). A kernel that the walker refuses does not answer.
AnswerKept == Answer(kernel) = Answer(baseline)

\* A loop that carries the parallel mark may be split over threads at any
\* time: no iteration writes an element another one touches
\* (kernel_buffers.cpp:536, codegen.cpp:305).
LoopsRaceFree == \A r \in DOMAIN kernel.roots : RaceFree(kernel.dims, kernel.roots[r], <<>>)

RECURSIVE Instances(_, _)
Instances(node, point) ==
  CASE node.op = "pair" -> << <<node, point>> >>
    [] node.op = "loop" ->
         InTurn(node.lo.k, node.hi.k, LAMBDA v :
           InTurn(1, Len(node.children), LAMBDA n : Instances(node.children[n], Append(point, v))))

\* The instances of the statements in the order the kernel runs them.
Execution ==
  LET run == InTurn(1, Len(kernel.roots), LAMBDA r : Instances(kernel.roots[r], <<>>))
      pairs == AllPairs(kernel)
      Index(node) == CHOOSE s \in DOMAIN pairs : pairs[s].pair = node
      Extended(point) == [d \in 1 .. scop.rank |-> IF d <= Len(point) THEN point[d] ELSE 0]
  IN [n \in DOMAIN run |-> <<Index(run[n][1]), Extended(run[n][2])>>]

Conflict(x, y) ==
  \E a \in Accesses(scop.stmts[x[1]]), b \in Accesses(scop.stmts[y[1]]) :
    /\ a.isWrite \/ b.isWrite
    /\ a.buf = b.buf /\ At(a.at, x[2]) = At(b.at, y[2])

\* Two instances that conflict are a pair of some dependence, in the order in
\* which they run (include/mlk/poly/dependence.h:4: exactly the pairs that
\* reference the same element and execute in the original order).
DependencesCover ==
  pass = "schedule" /\ "deps" \in valid =>
    LET run == Execution
    IN \A p, q \in DOMAIN run :
         p < q /\ Conflict(run[p], run[q]) =>
           \E dep \in deps : /\ dep.src = run[p][1] /\ dep.dst = run[q][1]
                             /\ <<run[p][2], run[q][2]>> \in dep.pairs

=============================================================================
