------------------------------ MODULE KernelArtifact ------------------------------
(***************************************************************************)
(* The artifacts that the backends make of a kernel (backends/cpu/src):    *)
(* C++ with OpenMP pragmas, x86-64 assembly, and CUDA. Each is a program   *)
(* of its own that must do what the tree walker of KernelTree does. Here   *)
(* an artifact is the regions it runs one after the other, and a region    *)
(* the threads it runs in any interleaving, with what is left of the       *)
(* program of each. A block of threads has shared memory of its own, which *)
(* may hold slabs: copies of the buffers that the kernel only reads        *)
(* (slab_plan.cpp).                                                        *)
(*                                                                         *)
(* Names, text and the toolchain are left out, and so are the lanes of a   *)
(* vector; an operation of a fused chain is the body of its pair.          *)
(***************************************************************************)
EXTENDS KernelTree

CONSTANTS
  Jobs,        \* a kernel with its table of buffers, a target and how to run it
  DataWords,   \* what the bits of a word of data may be, taken as an extent
  MaxThreads,  \* threads of a device block (1024)
  GridCaps,    \* blocks per axis of a grid (2^31 - 1, 65535, 65535)
  MaxRoots,    \* kCudaMaxDeviceKernels
  MaxBuffers   \* kDriverMaxBindableBuffers

VARIABLES
  job,
  stage,
  code,     \* what the artifact returns
  work,     \* the regions still to run
  running,  \* what is left of the program of each thread of the region
  arrived,  \* the threads that wait at the barrier
  memory,
  shared    \* the slabs of each block

vars == <<job, stage, code, work, running, arrived, memory, shared>>

Product(s) == FoldLeft(LAMBDA a, b : a * b, 1, s)

-----------------------------------------------------------------------------
(***************************************************************************)
(* What the emitters and the driver refuse.                                *)
(***************************************************************************)

RECURSIVE Nodes(_)
Nodes(node) ==
  {node} \union IF node.op \in {"loop", "guard"}
                THEN UNION {Nodes(node.children[n]) : n \in DOMAIN node.children} ELSE {}

AllNodes(kernel) == UNION {Nodes(kernel.roots[r]) : r \in DOMAIN kernel.roots}
Pairs(kernel) == {node \in AllNodes(kernel) : node.op = "pair"}
Stored(kernel) == {pair.write.buf : pair \in Pairs(kernel)}
Bindable(kernel) == kernel.inputs \union kernel.outputs \union kernel.temps

\* The one decision on which ABI a kernel has.
MultiDim(kernel) ==
  \E node \in AllNodes(kernel) :
    \/ node.op = "guard"
    \/ node.op = "pair" /\ (node.form # "legacy" \/ node.accum # "none")
    \/ node.op = "loop" /\ (node.lo.c # <<>> \/ "buf" \in DOMAIN node.hi \/ node.hi.c # <<>>)

Named(access, depth) == \A p \in DOMAIN access.c : access.c[p] # 0 => p <= depth

\* Every form of a node is over the variables of the loops around it, and an
\* operand is an element of a bound buffer.
RECURSIVE WellBound(_, _, _)
WellBound(kernel, node, depth) ==
  LET Children(d) == \A n \in DOMAIN node.children : WellBound(kernel, node.children[n], d)
  IN CASE node.op = "loop"  -> /\ Named(node.lo, depth)
                               /\ "buf" \in DOMAIN node.hi \/ Named(node.hi, depth)
                               /\ Children(depth + 1)
       [] node.op = "guard" -> Named(node.test, depth) /\ Children(depth)
       [] node.op = "pair"  ->
            \A access \in {node.write} \union ToSet(node.reads) :
              access.buf \in Bindable(kernel) /\ Named(access.at, depth)
       [] node.op = "call"  -> FALSE

AcceptedByAll(kernel) ==
  /\ \A r \in DOMAIN kernel.roots : WellBound(kernel, kernel.roots[r], 0)
  /\ MultiDim(kernel) => \A pair \in Pairs(kernel) : pair.form = "affine"

CudaAccepts(kernel) ==
  /\ Len(kernel.roots) <= IF MultiDim(kernel) THEN MaxRoots ELSE 1
  /\ MultiDim(kernel) => \A b \in Bindable(kernel) : kernel.dims[b] # <<>>

\* The driver calls the artifact with at most so many buffers, and passes
\* temporaries only to kernels of the multi-dimensional form.
Runnable(kernel, target) ==
  /\ AcceptedByAll(kernel)
  /\ target = "cuda" => CudaAccepts(kernel)
  /\ MultiDim(kernel) \/ kernel.temps = {}
  /\ Cardinality(Bindable(kernel)) <= MaxBuffers

-----------------------------------------------------------------------------
(***************************************************************************)
(* Slabs. A hull holds the values of a loop variable, an interval those of *)
(* a form over the hulls of the loops around it.                           *)
(***************************************************************************)

Corners(form, hulls) ==
  LET Extreme(up) == form.k + SumUpTo(Lesser(Len(form.c), Len(hulls)), LAMBDA p :
        form.c[p] * IF (form.c[p] > 0) = up THEN hulls[p].hi ELSE hulls[p].lo)
  IN [lo |-> Extreme(FALSE), hi |-> Extreme(TRUE)]

Hull(dims, loop, hulls) ==
  [lo |-> Corners(loop.lo, hulls).lo,
   hi |-> IF "buf" \in DOMAIN loop.hi THEN LastOf(dims, loop.hi, <<>>) ELSE Corners(loop.hi, hulls).hi]

\* The reads below a node with their intervals; a guard narrows nothing.
RECURSIVE ReadForms(_, _, _)
ReadForms(dims, node, hulls) ==
  LET Children(h) == UNION {ReadForms(dims, node.children[n], h) : n \in DOMAIN node.children}
  IN CASE node.op = "loop"  -> Children(Append(hulls, Hull(dims, node, hulls)))
       [] node.op = "guard" -> Children(hulls)
       [] node.op = "pair"  ->
            {[buf |-> read.buf, over |-> Corners(read.at, hulls)] : read \in ToSet(node.reads)}

\* One slab per buffer that the root reads and the kernel never stores to, in the
\* order of the buffer table, one after the other in shared memory.
RootSlabs(kernel, dims, root) ==
  LET forms == ReadForms(dims, root, <<>>)
      planned == {form.buf : form \in forms} \ Stored(kernel)
      Over(b) == {form.over : form \in {f \in forms : f.buf = b}}
      Slab(b) == LET lo == Min({over.lo : over \in Over(b)})
                 IN [buf |-> b, min |-> lo, span |-> Max({over.hi : over \in Over(b)}) - lo + 1,
                     elems |-> IF dims[b] = <<>> THEN 0 ELSE Product(dims[b])]
      order == SelectSeq(kernel.table, LAMBDA b : b \in planned)
      slabs == [n \in DOMAIN order |-> Slab(order[n])]
  IN [n \in DOMAIN slabs |->
        slabs[n] @@ [off |-> SumFunction([m \in 1 .. n - 1 |-> slabs[m].span])]]

Spans(slabs) == SumFunction([n \in DOMAIN slabs |-> slabs[n].span])

\* The reads of a buffer with a slab go to the slab.
Redirected(slabs, events) ==
  LET Of(read) == SelectSeq(slabs, LAMBDA slab : slab.buf = read[1])
      Place(read) == IF Of(read) = <<>> THEN read
                     ELSE <<"slab", Of(read)[1].off + read[2] - Of(read)[1].min>>
  IN [n \in DOMAIN events |->
        [events[n] EXCEPT !.reads = [r \in DOMAIN events[n].reads |-> Place(events[n].reads[r])]]]

\* What a thread copies of a slab: every stride-th position from its rank on
\* that is an element of the buffer.
Copies(slabs, rank, stride) ==
  FlattenSeq([n \in DOMAIN slabs |->
    LET slab == slabs[n]
    IN InTurn(0, (slab.span - 1 - rank) \div stride, LAMBDA step :
         LET u == rank + step * stride
         IN IF slab.min + u \in 0 .. slab.elems - 1
            THEN <<Event("copy", "none", <<"slab", slab.off + u>>, << <<slab.buf, slab.min + u>> >>)>>
            ELSE <<>>)])

Region(fresh, width, threads) == [fresh |-> fresh, width |-> width, threads |-> threads]
Alone(fresh, events) == Region(fresh, 1, <<events>>)

-----------------------------------------------------------------------------
(***************************************************************************)
(* C++: the outermost parallel loop is shared among threads, here one per  *)
(* iteration; the marks below it are ignored.                              *)
(***************************************************************************)

\* A store is not checked: a negative position is one before the buffer.
CppPair(node, vs) ==
  Event(node.body, node.accum, Cell(node.write, vs), [n \in DOMAIN node.reads |-> Cell(node.reads[n], vs)])

\* Inside a parallel loop.
RECURSIVE CppSerial(_, _, _)
CppSerial(dims, node, vs) ==
  LET Children(v) == InTurn(1, Len(node.children), LAMBDA n : CppSerial(dims, node.children[n], v))
  IN CASE node.op = "loop"  -> InTurn(At(node.lo, vs), LastOf(dims, node.hi, vs),
                                      LAMBDA v : Children(Append(vs, v)))
       [] node.op = "guard" -> IF At(node.test, vs) = 0 THEN Children(vs) ELSE <<>>
       [] node.op = "pair"  -> <<CppPair(node, vs)>>

RECURSIVE CppRegions(_, _, _)
CppRegions(dims, node, vs) ==
  LET Children(v) == InTurn(1, Len(node.children), LAMBDA n : CppRegions(dims, node.children[n], v))
      first == At(node.lo, vs)
      last == LastOf(dims, node.hi, vs)
      Iteration(v) == InTurn(1, Len(node.children),
                             LAMBDA n : CppSerial(dims, node.children[n], Append(vs, v)))
  IN CASE node.op = "loop" /\ node.parallel ->
            <<Region(FALSE, Greater(1, last - first + 1),
                     [n \in 1 .. last - first + 1 |-> Iteration(first + n - 1)])>>
       [] node.op = "loop" /\ ~node.parallel -> InTurn(first, last, LAMBDA v : Children(Append(vs, v)))
       [] node.op = "guard" -> IF At(node.test, vs) = 0 THEN Children(vs) ELSE <<>>
       [] node.op = "pair"  -> <<Alone(FALSE, <<CppPair(node, vs)>>)>>

CppProgram(kernel, slabbed) ==
  InTurn(1, Len(kernel.roots), LAMBDA r :
    LET slabs == IF slabbed THEN RootSlabs(kernel, kernel.dims, kernel.roots[r]) ELSE <<>>
        regions == CppRegions(kernel.dims, kernel.roots[r], <<>>)
    IN (IF slabs = <<>> THEN <<>> ELSE <<Alone(TRUE, Copies(slabs, 0, 1))>>)
       \o [n \in DOMAIN regions |-> [regions[n] EXCEPT !.threads =
             [t \in DOMAIN regions[n].threads |-> Redirected(slabs, regions[n].threads[t])]]])

-----------------------------------------------------------------------------
(***************************************************************************)
(* Assembly: one thread, with the loop variables in slots of the frame by  *)
(* depth. A bound that is the extent of a buffer is loaded through the     *)
(* argument slot of the data pointer, so it is whatever word is there.     *)
(***************************************************************************)

AsmAffine(form, slots) ==
  form.k + SumUpTo(Len(form.c), LAMBDA p : IF form.c[p] = 0 THEN 0 ELSE form.c[p] * slots[p])

AsmElement(access, slots) == <<access.buf, AsmAffine(access.at, slots)>>

AsmPair(node, slots) ==
  IF AsmAffine(node.write.at, slots) < 0 THEN <<Fault>>
  ELSE <<Event(node.body, node.accum, AsmElement(node.write, slots),
               [n \in DOMAIN node.reads |-> AsmElement(node.reads[n], slots)])>>

AsmLast(loop, slots, word) ==
  IF "buf" \in DOMAIN loop.hi THEN word - 1 ELSE AsmAffine(loop.hi, slots)

RECURSIVE AsmNode(_, _, _)
AsmNode(node, slots, word) ==
  LET Children(s) == InTurn(1, Len(node.children), LAMBDA n : AsmNode(node.children[n], s, word))
  IN CASE node.op = "loop"  -> InTurn(AsmAffine(node.lo, slots), AsmLast(node, slots, word),
                                      LAMBDA v : Children(Append(slots, v)))
       [] node.op = "guard" -> IF AsmAffine(node.test, slots) = 0 THEN Children(slots) ELSE <<>>
       [] node.op = "pair"  -> AsmPair(node, slots)

AsmProgram(kernel, word) ==
  <<Alone(FALSE, InTurn(1, Len(kernel.roots), LAMBDA r : AsmNode(kernel.roots[r], <<>>, word)))>>

-----------------------------------------------------------------------------
(***************************************************************************)
(* CUDA: a kernel launch per root. The chain of parallel loops at the top  *)
(* is the grid, a thread per tuple; a level whose bounds depend on the     *)
(* levels above is padded to its longest range, and the threads of the     *)
(* padding are holes.                                                      *)
(***************************************************************************)

RECURSIVE CollapseChain(_)
CollapseChain(node) ==
  IF node.op # "loop" \/ ~node.parallel THEN <<>>
  ELSE <<node>> \o IF Len(node.children) = 1 THEN CollapseChain(node.children[1]) ELSE <<>>

\* The hulls of the levels, and how many values each has.
LevelHulls(dims, chain) ==
  FoldLeft(LAMBDA hulls, level : Append(hulls, Hull(dims, level, hulls)), <<>>, chain)
PaddedTrips(dims, chain) ==
  LET hulls == LevelHulls(dims, chain)
  IN [l \in DOMAIN chain |-> Greater(0, hulls[l].hi - hulls[l].lo + 1)]

\* The levels that are left once the innermost ones, as many as fit, are
\* threads of a block. (What does not fit the first axis fits no other.)
RECURSIVE BlockSweep(_, _)
BlockSweep(trips, width) ==
  IF trips # <<>> /\ Last(trips) * width <= MaxThreads
  THEN BlockSweep(Front(trips), Last(trips) * width)
  ELSE [left |-> trips, width |-> width]

RECURSIVE GridSweep(_, _, _)
GridSweep(trips, axis, blocks) ==
  \/ trips = <<>>
  \/ /\ axis <= Len(GridCaps)
     /\ IF Last(trips) * blocks <= GridCaps[axis]
        THEN GridSweep(Front(trips), axis, Last(trips) * blocks)
        ELSE GridSweep(trips, axis + 1, 1)

\* Threads per block and blocks; the fallback has one axis of either.
Geometry(trips) ==
  LET total == Product(trips)
      swept == BlockSweep(trips, 1)
      width == Lesser(total, MaxThreads)
  IN IF GridSweep(swept.left, 1, 1)
     THEN [width |-> swept.width, blocks |-> Product(swept.left)]
     ELSE [width |-> width, blocks |-> (total + MaxThreads - 1) \div MaxThreads]

\* Which value of its range a thread has at a level: the digits of its number.
Digit(trips, flat, l) ==
  LET rest == flat \div Product(SubSeq(trips, l + 1, Len(trips)))
  IN IF l = 1 THEN rest ELSE rest % trips[l]

\* Mutant: only the excess of the last block counts as holes.
TupleUnchecked(dims, chain, trips, flat) ==
  LET Level(at, l) == [at EXCEPT !.vs = Append(@, At(chain[l].lo, @) + Digit(trips, flat, l))]
  IN FoldLeft(Level, [vs |-> <<>>, live |-> flat < Product(trips)], [l \in DOMAIN chain |-> l])

\* The variables of the levels for a thread, outermost first, and whether it is
\* not a hole.
Tuple(dims, chain, trips, flat) ==
  LET Level(at, l) ==
        LET v == At(chain[l].lo, at.vs) + Digit(trips, flat, l)
        IN [vs |-> Append(at.vs, v), live |-> at.live /\ v <= LastOf(dims, chain[l].hi, at.vs)]
  IN FoldLeft(Level, [vs |-> <<>>, live |-> flat < Product(trips)], [l \in DOMAIN chain |-> l])

\* The functions that the device library computes in its own way.
OnDevice(body) ==
  IF body \in {"pow", "exp", "log", "sin", "cos", "tan", "tanh", "erf", "gelu"}
  THEN "device " \o body ELSE body

BitExactPolicy(kernel) ==
  \A pair \in Pairs(kernel) :
    pair.body \in {"add", "sub", "mul", "div", "neg", "sqrt", "rsqrt", "load", "zero"}

Barrier == Event("barrier", "none", <<"none", 0>>, <<>>)

DevicePair(node, vs) ==
  IF At(node.write.at, vs) < 0 THEN <<Fault>>
  ELSE <<Event(OnDevice(node.body), node.accum, Cell(node.write, vs),
               [n \in DOMAIN node.reads |-> Cell(node.reads[n], vs)])>>

\* Below the grid every loop is serial.
RECURSIVE DeviceNode(_, _, _)
DeviceNode(dims, node, vs) ==
  LET Children(v) == InTurn(1, Len(node.children), LAMBDA n : DeviceNode(dims, node.children[n], v))
  IN CASE node.op = "loop"  -> InTurn(At(node.lo, vs), LastOf(dims, node.hi, vs),
                                      LAMBDA v : Children(Append(vs, v)))
       [] node.op = "guard" -> IF At(node.test, vs) = 0 THEN Children(vs) ELSE <<>>
       [] node.op = "pair"  -> DevicePair(node, vs)

DeviceBody(dims, root, tuple) ==
  LET chain == CollapseChain(root)
      inner == IF chain = <<>> THEN <<root>> ELSE Last(chain).children
  IN IF tuple.live THEN InTurn(1, Len(inner), LAMBDA n : DeviceNode(dims, inner[n], tuple.vs)) ELSE <<>>

\* Mutant: a hole of the slab twin returns before the barrier.
TwinThreadHolesLeave(slabs, rank, width, live, body) ==
  IF live THEN Copies(slabs, rank, width) \o <<Barrier>> \o Redirected(slabs, body) ELSE <<>>

\* Every thread of a block takes part in the copying, holes as well.
TwinThread(slabs, rank, width, live, body) ==
  Copies(slabs, rank, width) \o <<Barrier>> \o Redirected(slabs, body)

\* Mutant: the twin is launched whatever its slabs need.
ChosenSlabsUnbounded(slabs, budget) == slabs

\* The twin with slabs is launched when they fit the budget.
ChosenSlabs(slabs, budget) == IF Spans(slabs) \in 0 .. budget THEN slabs ELSE <<>>

Launch(kernel, dims, root, slabbed, budget) ==
  LET chain == CollapseChain(root)
      trips == PaddedTrips(dims, chain)
      shape == Geometry(trips)
      slabs == IF slabbed THEN ChosenSlabs(RootSlabs(kernel, dims, root), budget) ELSE <<>>
      Thread(flat) ==
        LET tuple == Tuple(dims, chain, trips, flat)
            body == DeviceBody(dims, root, tuple)
        IN IF slabs = <<>> THEN body
           ELSE TwinThread(slabs, flat % shape.width, shape.width, tuple.live, body)
  IN IF Product(trips) = 0 THEN <<>>
     ELSE <<Region(TRUE, shape.width,
                   [t \in 1 .. shape.width * shape.blocks |-> Thread(t - 1)])>>

\* The device has no extents of the temporaries: a zero, then other data.
DeviceDims(kernel, word) ==
  [b \in DOMAIN kernel.dims |->
     IF b \in kernel.temps THEN [d \in DOMAIN kernel.dims[b] |-> IF d = 1 THEN 0 ELSE word]
     ELSE kernel.dims[b]]

\* The elementwise form: a thread per element of the caller's count.
ElementwiseLaunch(kernel, elements) ==
  LET loop == kernel.roots[1]
      Thread(v) ==
        IF v \in loop.lo.k .. loop.hi.k
        THEN InTurn(1, Len(loop.children), LAMBDA n : DeviceNode(kernel.dims, loop.children[n], <<v>>))
        ELSE <<>>
      width == Lesser(elements, MaxThreads)
  IN IF elements = 0 THEN <<>>
     ELSE <<Region(FALSE, width, [t \in 1 .. ((elements + width - 1) \div width) * width |-> Thread(t - 1)])>>

CudaProgram(kernel, slabbed, budget, elements, word) ==
  IF MultiDim(kernel)
  THEN InTurn(1, Len(kernel.roots), LAMBDA r :
         Launch(kernel, DeviceDims(kernel, word), kernel.roots[r], slabbed, budget))
  ELSE ElementwiseLaunch(kernel, elements)

Program(word) ==
  CASE job.target = "cpp"  -> CppProgram(job.kernel, job.slabs /\ MultiDim(job.kernel))
    [] job.target = "asm"  -> AsmProgram(job.kernel, word)
    [] job.target = "cuda" -> CudaProgram(job.kernel, job.slabs, job.budget, job.elements, word)

-----------------------------------------------------------------------------
(***************************************************************************)
(* Running an artifact (LoadedKernel::run).                                *)
(***************************************************************************)

Init ==
  /\ job \in Jobs
  /\ stage = "emit" /\ code = 0
  /\ work = <<>> /\ running = <<>> /\ arrived = {}
  /\ memory = << >> /\ shared = 0 :> << >>

Emit ==
  /\ stage = "emit"
  /\ IF Runnable(job.kernel, job.target)
     THEN stage' = "run" /\ \E word \in DataWords : work' = Program(word)
     ELSE stage' = "refused" /\ UNCHANGED work
  /\ UNCHANGED <<job, code, running, arrived, memory, shared>>

\* Shared memory holds anything until it is written.
Unwritten ==
  LET region == Head(work)
      cells == UNION {UNION {Touches(part.threads[t]) : t \in DOMAIN part.threads} : part \in ToSet(work)}
      slab == {cell \in cells : cell[1] = "slab"}
  IN [b \in {(t - 1) \div region.width : t \in DOMAIN region.threads} |->
        [cell \in slab |-> <<[body |-> "unwritten", at |-> 0, args |-> <<>>]>>]]

BeginRegion ==
  /\ stage = "run" /\ work # <<>>
  /\ stage' = "region" /\ running' = Head(work).threads
  /\ shared' = IF Head(work).fresh THEN Unwritten ELSE shared
  /\ UNCHANGED <<job, code, work, arrived, memory>>

Threads == DOMAIN running
Block(t) == (t - 1) \div Head(work).width
Mates(t) == {u \in Threads : Block(u) = Block(t)}
Turn(t) == stage = "region" /\ running[t] # <<>>

Step(t) ==
  /\ Turn(t) /\ Head(running[t]) \notin {Barrier, Fault}
  /\ LET event == Head(running[t])
         seen == memory @@ shared[Block(t)]
         value == IF event.body = "copy" THEN Contents(job.kernel.inputs, seen, event.reads[1])
                  ELSE Perform(job.kernel.inputs, seen, event)[event.write]
     IN IF event.write[1] = "slab"
        THEN /\ shared' = [shared EXCEPT ![Block(t)] = (event.write :> value) @@ @]
             /\ UNCHANGED memory
        ELSE memory' = (event.write :> value) @@ memory /\ UNCHANGED shared
  /\ running' = [running EXCEPT ![t] = Tail(@)]
  /\ UNCHANGED <<job, stage, code, work, arrived>>

\* Assembly and CUDA check for a negative store: the thread is over, and the
\* code is 1 in the end.
NegativeStore(t) ==
  /\ Turn(t) /\ Head(running[t]) = Fault
  /\ running' = [running EXCEPT ![t] = <<>>] /\ code' = 1
  /\ UNCHANGED <<job, stage, work, arrived, memory, shared>>

\* The last thread of a block to arrive lets all of them go on.
Arrive(t) ==
  /\ Turn(t) /\ Head(running[t]) = Barrier /\ t \notin arrived
  /\ IF Mates(t) \subseteq arrived \union {t}
     THEN /\ arrived' = arrived \ Mates(t)
          /\ running' = [u \in Threads |-> IF u \in Mates(t) THEN Tail(running[u]) ELSE running[u]]
     ELSE arrived' = arrived \union {t} /\ UNCHANGED running
  /\ UNCHANGED <<job, stage, code, work, memory, shared>>

EndRegion ==
  /\ stage = "region" /\ \A t \in Threads : running[t] = <<>>
  /\ stage' = "run" /\ work' = Tail(work) /\ running' = <<>>
  /\ UNCHANGED <<job, code, arrived, memory, shared>>

Return ==
  /\ stage = "run" /\ work = <<>> /\ stage' = "returned"
  /\ UNCHANGED <<job, code, work, running, arrived, memory, shared>>

\* An allocation, a copy or a launch fails: 2, 3, or 4 when there is no device;
\* 5 for the slabs of C++. What was stored on a device does not reach the
\* caller. The elementwise form returns nothing, so its code is lost.
Fail ==
  /\ stage = "run" /\ job.faulty
  /\ \/ job.target = "cuda" /\ code' \in IF MultiDim(job.kernel) THEN {2, 3, 4} ELSE {0}
     \/ job.target = "cpp" /\ work # <<>> /\ Head(work).fresh /\ code' = 5
  /\ stage' = "returned" /\ work' = <<>>
  /\ memory' = IF job.target = "cuda" THEN << >> ELSE memory
  /\ UNCHANGED <<job, running, arrived, shared>>

Done == stage \in {"returned", "refused"} /\ UNCHANGED vars

Next ==
  \/ Emit \/ BeginRegion \/ EndRegion \/ Return \/ Fail \/ Done
  \/ \E t \in Threads : Step(t)
  \/ \E t \in Threads : NegativeStore(t)
  \/ \E t \in Threads : Arrive(t)

Spec == Init /\ [][Next]_vars

-----------------------------------------------------------------------------
(***************************************************************************)
(* Properties.                                                             *)
(***************************************************************************)

Pending == UNION {Touches(running[t]) : t \in Threads}

\* A device block holds at most MaxThreads threads; what is left to run touches
\* elements of buffers only, and of a slab only what the launch made room for.
TypeOK ==
  /\ stage \in {"emit", "run", "region", "returned", "refused"}
  /\ code \in 0 .. 5 /\ arrived \subseteq Threads
  /\ stage = "region" /\ job.target = "cuda" => Head(work).width \in 1 .. MaxThreads
  /\ \A cell \in Pending :
       \/ cell[1] \in Bindable(job.kernel) /\ cell[2] \in 0 .. Product(job.kernel.dims[cell[1]]) - 1
       \/ cell[1] = "slab" /\ cell[2] >= 0 /\ (job.target = "cuda" => cell[2] < job.budget)
       \/ cell[1] = "none"

Refuses(kernel) == Fault \in ToSet(Run(kernel))
Produced == [cell \in {c \in DOMAIN memory : c[1] \in job.kernel.outputs} |-> memory[cell]]

\* The artifact reports a negative store exactly when the walker meets one, and
\* with code 0 every element of an output was computed by the operations of the
\* walker, in its order, in whatever order the threads ran and whether through
\* slabs or not (cpp_emitter.h:1, cuda_emitter.h:60, slab_plan.h:20). On a device
\* this is claimed only of kernels that are bit-exact by the policy.
AnswersAsTheWalker ==
  stage = "returned" =>
    /\ code \in {0, 1} => (code = 1) = Refuses(job.kernel)
    /\ code = 0 /\ (job.target = "cuda" => BitExactPolicy(job.kernel)) => Produced = Answer(job.kernel)

\* While a thread waits at the barrier, every thread of its block waits there or
\* is on its way to it: no hole has left (cuda_emitter.cpp:747, "a divergent
\* __syncthreads is UB").
BarrierUniform ==
  \A t \in arrived : \A u \in Mates(t) : Barrier \in ToSet(running[u])

=============================================================================
