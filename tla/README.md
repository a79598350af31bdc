# A TLA+ verification of MLK+

MLK+ compiles mathematical graphs to kernels in tiers and always keeps an
interpreter to fall back to. This directory models the parts of it that keep
state and can go wrong over several steps, checks them with TLC on small
instances, and proves the central facts about the engine, the hash map, the
threaded loops, the kernel search, the e-graph and the graph that the rewriting
passes edit for all instances with TLAPS. Sources are named relative to the
repository's root.

## 1. Inventory

| component | state it keeps | operations | talks to |
|---|---|---|---|
| Execution engine (`runtime/src/execution/execution.cpp`) | published realization, worker thread and its flag, cancellation token, telemetry, fallback counts | `execute`, `compile`, `install`, `requestAsyncCompile`, `joinPending`, destructor | pipeline runner, interpreter, kernel executor, telemetry |
| Kernel executor (`runtime/src/execution/kernel_buffers.cpp`) | buffers of one call, worker threads of a parallel loop | `executeKernel`, element ranges | engine, superoptimizer |
| Interpreter (`interpretGraph`) | scalars of one run | evaluation in node-id order | math graph |
| Math graph (`compiler/src/ir`) | values, nodes, use-def lists, outputs, effect chain, equivalence map | construction, rewiring, kill, renumber, verify | every pass |
| Pipeline runner and passes (`compiler/src/pipeline`, `compiler/src/passes`) | per-pass budget, the caller's graph | tier pipelines, rewriting, scheduling, lowering | math graph, e-graph, polyhedral library |
| E-graph (`compiler/src/passes/egraph`) | e-nodes, union-find, member lists, lookup table | import, saturate, rebuild, extract | math graph |
| Core containers (`compiler/include/mlk/core`) | hash maps, small vectors, symbol table, arena | insert, find, remove | everything |
| Runtime stores (`runtime/src/runtime_core.cpp`) | telemetry ring, graph states, realization cache, fallback counts | record, capture and reconstruct, store and look up, serialize | engine, tools |
| Fast-kernel search (`fastkernel/src/fast_kernel.cpp`) | outcomes of its candidates, a directory of libraries shared with other processes | build or reuse, verify, certify, measure, choose | backend driver, kernel executor, external compilers |
| Autotuner, superoptimizer | candidate tables, search state | search, verify, run | engine, tools |
| Polyhedral library (`polyhedral/src`) and `poly.*` passes | the static control part, dependences, schedule and tiling of one compilation | synthesis, dependences, scheduling, tiling, code generation, verification | pipeline runner, kernel IR |
| CPU backend (`backends/cpu/src`) | slab plans, emitted programs, files of a build | planning, emission, build and load | lowering passes, fast-kernel search |
| Tools, benchmarks | command-line state | run, dump, replay | engine, compiler |

What is hard in it: a host and a worker that publish through one pointer;
passes that rewrite one graph in place, may stop anywhere, and hand the same
object to the next compilation and to the interpreter; several redundant
representations of one fact (use-def lists, effect chain and node order; the
union-find, member lists, owner table and lookup table of the e-graph; the
table and the entries of the hash map) that must agree after every sequence of
operations; budgets that may run out between any two edits; loops that are
reordered, tiled, split into copies and marked parallel, and four programs (the
walker, C++, assembly, CUDA) that must mean the same by one tree; processes that
share files without a lock, die, and leave their compilers running.

`PROJECT.json` lists each component with what is modelled of it, and each
hazard at its source line with the properties that watch it.

## 2. Modules and the code

| module | models | state |
|---|---|---|
| `TieredService` | what the engine promises a caller | phase, request, answer, available kernels |
| `ExecutionEngine` | `runtime/src/execution/execution.cpp` | the engine's members, the host's and the worker's control points, the telemetry and fallback counts |
| `MathGraph` | `compiler/src/ir/math_graph.cpp`, the effect chain, the structural part of `ir.verify`, `interpretGraph` | none: operators on a graph record |
| `EGraph` | `compiler/src/passes/egraph/egraph.cpp` | none: operators on an e-graph record |
| `EGraphSaturation` | the life of one e-graph: import, saturation visit by visit, rebuild, extraction | graph, e-graph, place in the iteration |
| `GraphRewriting` | `compiler/src/pipeline`, `passes/math`, `egraph.extract` on a graph that is compiled again and again | graph, running pass and its place, edits |
| `KernelIR` | `type.infer`, `tensor.fusion_find`, `lower.to_kernel_ir`, the executor on loops of one iteration, the engine's read-back | none: operators on a graph, groups and a kernel |
| `KernelLowering` | a graph built, compiled and built on, as often as the caller likes | graph, stage, tensors, fusion groups, kernel |
| `CompilePipeline` | the rewriting passes followed by lowering and execution | that of `GraphRewriting` |
| `KeyedStore` | what a user of a hash map relies on | a function from keys to values |
| `OpenHashMap` | `compiler/include/mlk/core/hash_map.h` | entries, slots, the rehash in progress |
| `ParallelLoop` | the threaded loops of `runtime/src/execution/kernel_buffers.cpp`; the launch certificate of `fastkernel/src/fast_kernel.cpp` | caller, threads, their positions and slots, the token |
| `KernelTree` | the tree walker of `kernel_buffers.cpp` on a kernel with affine bounds, guards, pairs, accumulation, products and temporaries | none: a tree and the sequence of operations it performs |
| `PolySynth` | `passes/poly/poly.synth.cpp` | none: loop nests for products, reductions and elementwise loops |
| `Scop` | `polyhedral/src/scop.cpp`, `dependence.cpp` | none: statements, instances, dependences |
| `PolySchedule` | `polyhedral/src/pluto.cpp`, `tile.cpp`, `schedule_common.h` | none: legality, parallel marks, bands, tiles |
| `PolyCodegen` | `polyhedral/src/codegen.cpp` | none: the tree made of a schedule |
| `PolyPipeline` | the seven `poly.*` passes in the order of the runner | kernel, valid results, rows found so far |
| `KernelArtifact` | `slab_plan.cpp` and the programs that `cpp_emitter.cpp`, `asm_emitter.cpp` and `cuda_emitter.cpp` print | the regions left to run, the threads of the running one, memory, shared memory, the return code |
| `KernelSearch` | `runFastKernelSearch` and `obtainNativeKernel` of `fast_kernel.cpp`, the build of `backend_driver.cpp` | place of each process, its compilers, the files, outcomes and report |
| `MC...` | the instances TLC checks | |
| `ExecutionEngineProofs`, `OpenHashMapProofs`, `ParallelLoopProofs`, `KernelSearchProofs`, `EGraphProofs`, `GraphRewritingProofs`, `RewritingMeaningProofs` | theorems and proofs; `GraphRewritingProofs` extends `CompilePipeline` (its variables are those of `GraphRewriting`) and ends with what a graph at rest denotes; `RewritingMeaningProofs` extends it with what the passes, the frontend and the kernel keep of that | |
| `InductionRules` | what a function defined by recursion, or a fold over a list, is and how to prove by induction along it; instantiated once per definition | |

`MathGraph` is used by `EGraph` and `KernelIR`, `EGraph` by `EGraphSaturation` and
`GraphRewriting`, and `CompilePipeline` puts `GraphRewriting` and `KernelIR`
together. `KernelTree` is the common ground of the polyhedral passes (`PolySynth`,
`Scop`, `PolySchedule`, `PolyCodegen`, `PolyPipeline`, each on the one before) and of
`KernelArtifact`; `ExecutionEngine` and `OpenHashMap` instantiate their abstract
specifications with a refinement mapping.

**Engine.** The host thread calls `execute`, `requestAsyncCompile` and the
destructor; `compile` runs on either thread. One action is one access to shared
state: the load of `current_`, the beginning and the end of a compilation, the
install, the second load of `current_` after it (`Reload`), the run of the kernel
or of the interpreter; the worker has its own compilation, install, event and
exit. `workerActive_` and the joinable thread are two variables because the code
lets them differ. Editing a graph between calls and cancelling are actions of
the environment. A kernel is what it was compiled from (graph, edition, tier);
numbers are not computed here.

**Graph and passes.** A graph is a record of values, nodes, use-def lists,
outputs, effect chain and equivalence map, and the editing operations keep
their order of writes. Values are residues of a prime field: the rewrites are
exact in a field, so "the answer of the interpreter is the same" is decidable
and a wrong rewrite shows; a test input where a rewrite is undefined (division
by zero) is handled as the interpreter does. A pass visits the nodes it saw when
it began; each visit is a step, and the budget may stop the pass before any of
them. The runner's renumbering and verification follow a pass within one step, as
in `PipelineRunner::run`.

**E-graph.** Import, interning through the lookup table, union with the member
lists, visits of saturation, rebuild and extraction are the code's operations; the
lookup table is keyed by the e-node itself, which stands for its hash. An extraction that
meets a class past the depth limit fails as a whole. The
analysis the properties need (what a class means on an input) is not in the
state.

**Lowering.** A frontend step adds a node or an output; a compilation is type
inference, fusion (which the profile may lack) and lowering, then the call
returns and the frontend may go on: the group attribute stays on the node
(`tensor.fusion_find.cpp:28`), so the next compilation meets groups it did not
make. Fusion groups an elementwise node with a single elementwise user, and any other
whose result `property.infer` has found pure; how many of the values it had seen is left
open, since passes append values after it (`Groupings`). A region is gathered backwards from a root, resolved operand by operand
into temporaries, tensor slots, parameters and constants, and given buffers, in the
order of `lower.to_kernel_ir.cpp`. A tensor is one of its elements: every
element of a fused loop is treated alike, and the product of one by one
matrices is a product. The kernel then runs as in `kernel_buffers.cpp`, either
over a caller's buffers or as the engine calls it with scalars, and both are
compared with the interpreter and with what the graph denotes.

**Hash map.** A lookup or an insertion without growth is a step; a growth places
one entry a step, so its intermediate tables are visible to the invariant.
Capacities are the code's (doubling at seven tenths), the first one is a constant.

**Threaded loops.** The elementwise range, the row blocks of a product and the
parallel-marked loop of a nest are one module with a `kind`: they share the
thread decision, the chunking and the join, and differ in whether they poll the
token, whether an iteration can fail, and how a thread says what became of it.
A step is one iteration with the poll before it. `runs` counts how often each
iteration was executed.

**Kernel trees.** A kernel's meaning is the sequence of operations it performs,
each a name with the elements it reads and writes: two trees agree when at every
element of an output the same operations happen in the same order, which is what
`poly.verify` and the words "bit-exact" are about, and needs no arithmetic.

**Polyhedral passes.** A pass is a step, and the search of a schedule is a step per
row. Which row the linear program of `pluto.cpp` returns is left open among
those its constraints and the tests after it admit, so the properties hold for
every pivot order and every solution, up to coefficients of `RowCoeff`. The rows are those
that realization makes of rational solutions: scaled to integers, so that the statement held
at one may have a larger coefficient, and divided by what all coefficients share. Sets of
instances are enumerated: integer points stand for the rational hulls of the code,
which tests integer points again where the two differ (`pluto.cpp:524`).
A killed pass leaves the results of the ones before it valid or not as the
workspace does.

**Artifacts.** The emitted program is modelled by what it executes, not by its text:
regions (a parallel loop, a device launch, a serial stretch) run in turn, the
threads of a region in any order, one element operation or slab copy a step.
The three targets differ as the emitters do: which bounds are checked, which
code is returned, which form a loop takes over the thread cap, what a slab
holds and who copies it, where a barrier stands. An extent that is read from
the wrong argument is whatever word lies there.

**Search.** A run is a process. A step is one access to a file: reading the
fingerprint, truncating and writing the source, the compiler's read, unlink and
link, loading the library, writing the fingerprint. A process may die before
any of them, its compiler goes on, and a later life of the same run begins anew. A
process that has reported may search again: what it has loaded stays mapped
(`backend_driver.cpp:502` closes nothing), and loading a path again gives the mapping.
What a benchmark shows and how long a build takes are any of a small set. The gates
(limit, identity, budget, justification) follow the order of the code, the winner is
the first of the best under the mode's objective, and the report is one step.

## 3. Runs

| run | instance | what it shows |
|---|---|---|
| `engine` | 1 graph edited once, 3 tiers, 3 calls, throttle threshold 2; 306 thousand states | every interleaving of the host, one worker, a cancellation and the destructor: what is published or reported is the complete product of a successful compilation at the tier claimed (`HonestTier`), the host leaves out a join only when the worker is done with the engine (`JoinSkippedOnlyWhenDone`), silent fallbacks are bounded by the worker's installs, the engine implements `TieredService`, and every call returns (`CallReturns`) |
| `rewrite_safety` | graphs of 3 operations out of sum, power and native call over one input; two of canonicalize, cse, dce and an annotating pass; 830 thousand states | use-def lists and effect chain are exact at every point, and meaning survives any pass stopped anywhere and any recompilation, but for the one case that `AnswerAlwaysKept` below shows; verification rejects only what a stopped pass left |
| `rewrite_extract` | 3 operations out of division, negation and power, two outputs; two of algebraic simplification, strength reduction, extraction and cse; 245 thousand states | meaning survives passes that append and repoint outputs too; and the kernel lowered after any of them, with or without fusion, answers as the graph the frontend wrote whatever groups its fusion formed (`KernelAnswersAsWritten`) |
| `lowering_safety` | graphs of 3 nodes out of subtraction, lift and matrix product over two scalars, two tensors or one of each, 2 outputs, fusion depth 2; 3.8 million states | a region computes its root from its slots (`RegionComputesRoot`); a kernel answers as the interpreter where one is compared with the other, and as the graph on caller's buffers; what is within the limits is lowered; buffers are read and written within bounds |
| `egraph_safety` | 3 operations, 7 e-nodes, 3 iterations, extraction depth 2; 548 thousand states | the four representations of the partition agree, every union is right for every input, extraction keeps the meaning and does not raise the cost, within the node budget and the depth of the extraction, and at them |
| `hash_map` | 5 keys with colliding hashes, capacity from 4 through two growths; 111 thousand states | probes end, size and iteration are exact, the table implements `KeyedStore` |
| `parallel_loop` | loops of 0 to 5 iterations on 1 to 4 threads, amortization at 3 elements, up to two faulty iterations; 40 thousand states | nothing is run twice, success means all was run, the error is the sequential one, the loop returns |
| `poly_passes` | a product of 3 x 4 and 4 x 2, a row sum, a softmax, an elementwise loop; tiles of 2 and 3, 2 copies, every pass but the synthesis may be killed; 7.8 thousand states | the kernel after the seven passes performs the operations of the one before them, in the same order at every element (`AnswerKept`), no two iterations of a parallel loop conflict (`LoopsRaceFree`), and every pair of instances that conflict is ordered by a dependence (`DependencesCover`) |
| `kernel_artifact` | 13 kernels, each with the targets and slab budgets that tell it apart; blocks of 3 threads, grids of 2 per axis, 2 device kernels; 6.5 thousand states | an artifact that returns 0 has computed what the walker computes (`AnswersAsTheWalker`) in every order of its threads, and all threads of a block meet the barrier (`BarrierUniform`) |
| `kernel_search` | 2 processes, one of them started twice, 3 candidates each over 2 fingerprints, bounded and amortized budgets; 4.5 million states | a candidate is judged by a library of its own fingerprint, whatever the other process or a dead one does to the files (`OutcomesAreOfTheirCandidates`); a run that nothing disturbs gets whole libraries whatever torn files it finds (`LoneSearchRebuilds`); the winner passed every gate, is the first of the best and worth its compile time (`WinnerJustified`) |

Why the bounds are enough for the cases that matter: three engine calls are the
least in which an install by the worker falls between two calls or into one,
and one edit of a graph the least by which a kernel can be the wrong one.
Three
operations give a producer shared by two consumers with one of them rewritten,
and two passes give one that is stopped and one that works on what is left. An
e-graph of seven e-nodes meets its node budget within the second iteration, and three
operations in a chain are deeper than an extraction of depth two goes.
A fusion depth of two makes a chain of three nodes exceed the limit, which the code
tests after adding a node (`lower.to_kernel_ir.cpp:176`), so that regions of
three still form. Five keys force two growths with a full cluster of collisions before and after.
Trips and threads of the loops are on both sides of every boundary of the
rounding: more threads than iterations, an exact multiple, a short last chunk,
and chunks that leave threads without work.
The matrix product has three extents of which none is a multiple of both tile sizes,
so that every loop has partial tiles; two copies are exceeded by its splits, so that
guarded and split levels both occur. Coefficients stay at one in this run; with
`Kernels <- MCScaled` (the other three kernels) and `RowCoeff = 3`, started by hand, `PolySafety`
holds too, in 18 thousand states. Blocks of three threads over trips of 2 to 4
give idle threads and a second block. Two
processes with one restart give a compiler that outlives its process while another
one works in its directory; three candidates give a reuse, a build and
a rejection in one search.

**Fairness.** `engine` assumes weak fairness of the host's steps inside
a call and of the worker's steps: both are plain threads, and no step of theirs
waits for anything but the join, whose guard stays true once the worker has
returned. New calls, edits and cancellations are not fair. `parallel_loop` assumes weak fairness of the caller
and of its threads together; a thread that can move stays able to until it has
returned and a loop has finitely many steps. Deadlock checking is off where the
system may stop: after the destructor, after the loop, and after the last search.
The properties of the passes, the artifacts and the search are safety properties
and assume no fairness.

Two runs are expected violations, each a claim of the repository that the code
does not keep:

- `engine_stale_kernel`: a matching kernel is one of the same tier, whatever
  graph it was compiled from. A graph is compiled in the background and its kernel
  installed; one `execute` of another graph at that tier then runs it.
- `artifact_extent`: the assembly emitter reads the extent of a buffer from the
  buffer's data, since it loads the argument before the one with its extents.

Other disagreements between the code and what is said of it belong to no listed
run and are checked by hand with `tlc -config <name>.cfg <MC module>`. These
have a configuration of their own:

| configuration | claim that fails | why |
|---|---|---|
| `EngineAborts` | compile failure is no crash (execution.cpp:325) | `joinPending` joins only while `workerActive_` is set, which the worker clears before it returns; the next `requestAsyncCompile` or the destructor then meets a joinable thread and the process terminates |
| `EngineSharedGraph` | compilation runs on a frozen snapshot (docs/runtime_contracts.md:11) | the pipeline rewrites the caller's graph |
| `EGraphEmptiedClass` | member lists are canonical after `find` (egraph.h:126) | a lookup within an iteration finds a class that a union has emptied, and element 0 of an empty vector is read |
| `EGraphSignedZero` | rules are numerically sound (docs/compliance_matrix.md:211) | x + 0 is united with x in every profile |
| `RewriteStopped` | producers have lower ids than consumers (docs/math_ir_spec.md:34) | a pass stopped by its budget leaves a graph that is not in evaluation order; the interpreter, the fallback for everything, reads zeros |
| `RewriteOpaque` | the native boundary is opaque (docs/effect_system.md:17) | cse looks through it |
| `KernelParamOrder` | scalar parameters are numbered in the order they are passed (execution.cpp:222) | a kernel numbers them by first use, the engine passes them by value id: b - a is computed as a - b from tier 1 on |
| `LoopCertificate` | the certified launch is the one that runs (fast_kernel.cpp:421) | the certificate decides the number of threads by the elements of the output, the executor by the trip of the loop |
| `PolyVectors` | every failure keeps the baseline kernel (docs/polyhedral_spec.md:36) | a loop over a vector of known length keeps its legacy operands but gets an affine store, which the walker refuses |

The others are definitions of the modules; the configuration to start from and
what to change in it are given, the definition named is the only one to check:

| definition | start from, change | claim that fails, and why |
|---|---|---|
| `EveryFallbackRecorded` | `EngineAborts` with three tiers and calls | every fallback is a telemetry event (docs/runtime_contracts.md:17): the worker may replace the kernel between install and reload |
| `EveryCompileFailureRecorded` | `EngineAborts` | compile failures are recorded (docs/runtime_contracts.md:22): an early return precedes the event |
| `ThrottledSiteNotRetried` | `EngineAborts` with three calls | repeated failures throttle a site (docs/runtime_contracts.md:17): no code asks `siteThrottled` |
| `AnswerAlwaysKept` | `RewriteOpaque`, `neg`, `cse` and `dce`, one output, 2 passes | a failed compilation falls back to an interpreter that still answers (docs/runtime_contracts.md:5): `dce` stopped between two kills leaves a live node over a dead one, the next `cse` picks it, and the interpreter reads 0 |
| `GrowthKeepsKeys` | `HashMapSafety` with `SpecWithRemove`, `CONSTRAINT FewEntries`, one value, no deadlock check | a removed key stays removed: a rehash places it again; only a unit test calls `remove` |
| `Congruent` | `EGraphSafety`, leaves `MCOne`, products, 4 operations, 8 e-nodes | congruence emerges from dedup (egraph.h:7): e-nodes are never re-keyed with their roots |
| `GrewMeansMerged` | `EGraphSafety`, leaves `MCUnits`, sums and products, 2 operations | `saturateOnce` returns whether anything merged (egraph.h:89): a match counts even when nothing is merged |
| `CostIsBudgeted` | `EGraphSafety`, leaves `MCZero`, sums and products, 16 e-nodes | recursion is bounded (docs/compliance_matrix.md:120): the cost recursion has no memo and a class may contain itself |
| `ExtractionKeepsAttributes` | `EGraphSafety`, leaves `MCZero`, `add` and `reduce` | extraction gives an equivalent form: attributes are not carried over |
| `OneNodePerResult` | `RewriteOpaque`, products, `annotate` and `cse`, 2 passes | renumbering permutes nodes (math_graph.h:199): dead nodes are pushed twice |
| `ChainInProgramOrder` | `RewriteOpaque`, `mul` and `ffi`, `annotate` | the effect chain is in program order (effect_chain.h:15): renumbering ignores effects |
| `EquivalenceAcyclic` | `RewriteStopped`, `extract` and `cse`, 3 passes | the equivalence map is acyclic (math_graph.h:178): extraction, then cse, close a cycle of two |
| `DeadUnreachable` | `RewriteOpaque`, products, `dce` | dead nodes are unreachable (math_graph.cpp:201): dce may stop between a producer and its consumer |
| `EffectsNotDuplicated` | `RewriteOpaque`, `mul` and `ffi`, `extract` | effects are not duplicated (docs/compliance_matrix.md:97): extraction adds the boundary call again |
| `GroupsOfSingleUsers` | `LoweringSafety`, graphs `MCScalars`, 2 nodes | single users fuse (tensor.fusion_find.cpp:20): after property inference every elementwise node gets a group, and the group changes after a shared one, so regions split there and the graph is refused |
| `RootsRealizable` | `LoweringSafety`, graphs `MCLifted`, 2 nodes | operations that cannot be realized are rejected at lowering (kernel_buffers.cpp:155): a region whose root is a lift lowers to a loop that answers 0 |
| `LiftsTransparent` | `LoweringSafety`, graphs `MCLifted` | a lift is transparent (lower.to_kernel_ir.cpp:251): the gathering stops at it, and the scalar behind it is outside the region |
| `UnboundReported` | `LoopSafety` with `Bound = {TRUE, FALSE}` | success means that the loop ran: an elementwise range without buffers is skipped |
| `ThreadCap` | `LoopSafety`, trips to 6, thread parameters 0 and 6 | hard cap on worker threads (constants.h:135): the "threads" parameter is not capped |
| `AnswersAsTheWalker` | `ArtifactExtent` with jobs `MCStray` | a store outside its buffer is refused (cpp_emitter.cpp:998): the C++ form checks one side only, and a negative store lands before the buffer |
| `TypeOK` | `ArtifactExtent` with jobs `MCEmptyHull` | slabs are packed one after the other in the block's memory: the first one of an empty hull has a negative length, and the next begins before the shared memory |
| `AnswersAsTheWalker` | `ArtifactExtent` with jobs `MCLostCode` | an artifact reports its failure: the plain CUDA wrapper discards the code |
| `JudgedByTheirOwn` | `SearchSafety` with `Space <- MCColliding` | the fingerprint binds every component that matters (fast_kernel.cpp:722): `KernelModule::hash` leaves out the nodes' children and buffers, and of two kernels with one fingerprint the second is judged by the library of the first |

Reading and modelling the same code showed further differences that no definition
states. *Common subexpressions*: the hash of a value is stamped once and not
invalidated by rewrites below it (`graph_hash.h:20`), while a graph hash in the middle of a
sweep stamps anew, and the table keeps one node per hash, so two equal nodes may get different
keys, or one that a third holds, and both stay: no property says that the pass finds all
there is to merge. *Polyhedral passes*: the dependences of a pair of statements are
computed in textual order only, so a loop-carried one from a later statement to an
earlier one is missed (`dependence.cpp:148`; no synthesized kernel has one);
`poly.verify` counts the pairs of a kernel and not what they access. *Search*: a
candidate rejected because its library answers wrongly leaves that library, which is
reused and rejected by every later search; two processes that build one entry at a
time may leave a torn library under a whole fingerprint, which the next search
has to fail on before it rebuilds; a candidate over the thread cap does not
lower the claim as docs/polyhedral_spec.md:534 has it. *Backends*: temporaries of
the device have one word of extents but are copied with as many as they have
dimensions (`backend_driver.cpp:845`).

`TiersAgree` and `BuffersAgree` are stated for one output computed by one kernel
node, and `TiersAgree` further for parameters first used in the order they are passed in:
the engine reads every output back from the first output buffer, so with two outputs the second
overwrites the first, and the order of parameters is the subject of
`KernelParamOrder`. `AnswersAsTheWalker` compares a device only for kernels
that the policy of the code calls bit-exact.

Each property of a passing run has a mutant in `PROJECT.json`: a definition
changed the way a plausible bug would change the code, under which TLC finds
that property violated. The mutated forms stand before the definitions they
replace.

## 4. Proofs

| theorem | for every | statement |
|---|---|---|
| `ExecutionEngineProofs!TypeCorrect`, `TierHonesty`, `WorkerContained`, `FallbacksAccounted` | graphs, tiers, thresholds, numbers of calls | the safety properties of `engine`, and its type invariant, which no run repeats |
| `ExecutionEngineProofs!Implementation` | the same | `Spec => TieredService!Spec` |
| `OpenHashMapProofs!TypeCorrect`, `ProbingAlwaysStops`, `SizesExact` | keys, values, hashes, capacities of at least four | the safety properties of `hash_map` |
| `OpenHashMapProofs!Implementation` | the same | `Spec => KeyedStore!Spec` |
| `KernelSearchProofs!OutcomesOwn`, `LoneRunsRebuild`, `WinnersJustified` | processes, candidates, kernels, fingerprints, budgets, times, lives | the properties of `kernel_search` |
| `ParallelLoopProofs!TypeCorrect`, `NothingRunTwice`, `SuccessIsComplete`, `FirstFaultWins` | trips, widths, thread parameters, faults | the safety properties of `parallel_loop` |
| `EGraphProofs!EGraphTypeCorrect`, `PartitionIsConsistent`, `UnionsAreSound` | leaves, operations, fields, node budgets, iterations, depths | the safety properties of `egraph_safety` but `ExtractionPreserves`; `Sound` for every input |
| `GraphRewritingProofs!UseListsExact`, `ChainIsExact`, `RewritingTypeCorrect` | leaves, operations, sets of passes without extraction, fields, numbers of operations, passes and rounds, stops and recompilations | `UsersExact` and `ChainExact` of `rewrite_safety`, and the type invariant, which no run repeats |
| `RewritingMeaningProofs!RewritingPreservesMeaning`, `VerifierRejectsOnlyAfterStop` | the same, if no two inputs have one name | `MeaningPreserved` and `RejectedOnlyAfterStop` of `rewrite_safety`; `AnswerInvariant` is what they follow from |
| `RewritingMeaningProofs!KernelsPreserveMeaning`, `OneInputKernels` | the same; for the second, if there is at most one input | `KernelAnswersAsWritten` of `rewrite_extract` wherever `ScalarsInOrder` holds; with one input it always does |

Assumptions are those the modules name: tiers are naturals with the interpreter
as 0, absent values are no values, a capacity is at least four (the code
starts at 16), only iterations of a nest fail, the candidates of a search are a finite
sequence and its times are naturals. Leaves are placeholders and constants whose
payload is a residue, the e-graph is given operations that `evalScalar` or a
reduction has, the rewriting passes those that `evalScalar` has, inputs
are bound to residues, and every nonzero residue has an inverse
(`FieldAssumption`; TLC evaluates it with the others). Two hypotheses stand in the
theorems themselves: extraction is not among the passes, and `OneInputPerName`. The second is
what the code needs: `math.cse` takes two inputs of one name for one
(`math.cse.cpp:94`), while the interpreter binds inputs by position, and nothing in
`addPlaceholder` refuses a name that is there.
`KernelsPreserveMeaning` has a third, inside the formula: `ScalarsInOrder`, that the scalar
parameters of a kernel, numbered in the order of their first use, are the first placeholders in
order. The code does not see to it: the engine passes scalars to a kernel as it passes them to
the interpreter (`execution.cpp:222`), and `KernelParamOrder` shows a graph where they are
swapped. With one input there is nothing to swap, and `OneInputKernels` does without.
Both theorems about kernels keep the way out of `MeaningPreserved`, a `dce` stopped between two kills.

*Engine.* `HonestTier` is not inductive: the kernel the host holds was published
by either thread some steps ago. `Provenance` adds to it that at every
compile point a tier other than the interpreter's is being compiled, that a
kernel the worker has built comes from a compilation that succeeded, that the host installs a realization of
the tier it was asked for, and that it reloads only when something is published.
`Ownership` says that the thread is joinable exactly while a worker
exists, that a clear `workerActive_` means a worker that has nothing left to do with the
engine, and that the host past its join, or past leaving it out, meets only such a one; `Accounting` bounds degraded calls while one is in progress. The refinement
follows: every step of the engine is a stutter of the service, or the begin, the
new kernel, the answer or the stop.

*Hash map.* `TableInv` says that each entry can be reached from the hash of its
key before any empty slot, that slots and entries are in bijection and the
load factor holds; `GrowInv` says the same of the entries placed so far. That
a probe ends is a pigeonhole argument (`EmptySlot`) and the fact that linear
probing meets every slot (`ProbeMeetsAll`).

*Loops.* The chunks partition the iterations (`CeilingCovers`, `ChunksDisjoint`,
`ChunksCover`, `RestEmpty`). `RunToPosition` says that what has been run of a
chunk is what lies before its thread's position, with no fault in it; `Started`
that the threads started are the first and the others have no work; `Endings` how a thread that
returned can have ended. A success is complete because without a failed slot and a
cancellation every chunk ended at its end; the error is the first because
every thread before the first failed one has ended at its end.

*Search.* What a candidate is judged by came through files that everyone may write.
`Own` says that every text and every library in a directory, every text that a
compiler holds and every library that a process holds was made for that
directory or is torn; it is inductive because a process writes only where its
candidate's fingerprint points, and so does the compiler it left behind. For
`LoneSearchRebuilds` that is not enough: `Lone` adds that while a run that began
with no other process or compiler at work is on its way, nothing else is
(`Undisturbed`), and that from its own write to its own load the text and the library
are whole (`WholeText`). `Fair` says of each outcome that it was rejected by the first
gate it fails or passed them all (`Judged`), and of a report that its winner is
admissible and least (`Won`); that there is a least one is the well-ordering of the
naturals (`NatMinimum`).

*E-graph.* `EGraphInv` says of the tables that they agree edge by edge: a parent
and its child in the forest have one owner and an owner is its own root
(`ForestOK`), so `Find` returns the owner; a member list is what the owner table
gives its class (`MembersOK`); the lookup table leads to an e-node equal to the key, in the
class of the key (`LookupOK`), which unions between rebuilds must not break; a leaf's class is
that leaf (`LeafOK`). `Sound` is part of the invariant, since a rule is
justified only by what the classes already mean: a union keeps it because both
classes denote the same on every input, which the rules owe to the field
(`IdentitySound`, `SquareSound`), and the rebuild
because equal e-nodes denote the same (`EqualENodesAgree`; `DenAppend` says that
later e-nodes do not change what earlier ones denote). What a read of an emptied class returns is
left open by the model, so the proof covers each answer.

*Graph under rewriting.* `UsersExact` and `ChainExact` are not inductive: an
edit finds its nodes through the lists it repairs. `GraphOK` adds that every id in a table
exists, that a live node stands at the place of its id and has as many operands as
its operation takes, and that the chain has no repetition. One lemma per
operation of the graph (`NodeAdded`, `UsesReplaced`, `EquivalentRecorded`, `NodeKilled`, `Renumbered`)
shows that it keeps `GraphOK`, and one per
rewrite of `passes/math` that what it builds is a graph with a value to put in place
of the old (`RewriteOK`). The hard part is the renumbering: it runs after passes
that were stopped as well as after complete ones, over graphs whose order it may not assume.
`TraversalOK` says of its Kahn traversal that the ready list has no repetition and holds the live
nodes with nothing pending; `OrderOK` that the new order holds every node and
the live ones once (a dead one may be in it twice, as `OneNodePerResult` shows); `RemapOK` that
the table of new ids inverts the order on live nodes. From this the rebuilt lists
are exact. That the order is topological needs more than that, and comes from the
meaning of the graph.

*What a graph means.* A value denotes on an input what its operation makes of what
its operands denote (`Denotes`), which says nothing of node ids, so renumbering and
rewiring can be compared. A graph is `WellMade` when it is sound, when some rank falls along
operands (`Ranks`: no value is made of itself, though ids may be in any order)
and when inputs are named once. `AnswerInv` adds that every input has a
denotation under which the outputs are what was wanted (`AnswerKept`): a
rewrite is justified when the value that takes over denotes what the old one did and
ranks below its consumers (`Justified`, one lemma per rule). `LivesOK` says where the
outputs can be read. Without a stopped elimination live nodes stand over live
nodes (`LiveBelow`); inside one that is false between two kills, so
`EliminationOK` says instead that what is reached is alive and that the nodes the sweep
has passed are reached. The interpreter goes by ids: between passes the graph has been verified
(`VerifiedOK`), every node it reads comes earlier, and it computes the
denotation (`VerifiedMeans`). What a stopped elimination leaves is the one
exception in `MeaningPreserved`, and it is not an artifact of the proof:
`AnswerAlwaysKept` above reaches it.

*Order.* For `RejectedOnlyAfterStop` the traversal of `renumberTopological` is
followed node by node (`Advanced`): the pending count of a live node is the
number of its operands whose producers are not done, although the use-def lists
name a user once per place (`UsersCounted`), and every ready node stands behind
the live producers of its operands. When the traversal ends, a live node that
was not reached would wait for another one of lower rank, and so on down
(`KahnTopological`); hence all are placed and the new ids fall along operands
(`NewIdsDescend`), which is what `verifyGraph` asks. `StoppedOK` carries this to
every point where the runner verifies.

*Kernels.* Between two passes the graph has been verified and, but for that way out,
nothing dead is reached (`Compilable`). So what the lowering finds by walking back from the
outputs stands for itself (`ReachedValue`, `ReachableIs`). The region gathered under a root has
live elementwise nodes no later than the root (`RegionNode`); sorted, each of them once,
it ends with the root (`RegionOrderIs`), whichever groups fusion formed. Folding over it,
`EmitIs` says that the i-th expression reads what the i-th node reads: constants,
temporaries of earlier expressions, and scalar parameters (`Fetches`), each of which
has one slot (`ScalarSlots`). The executor's temporaries are then, one after the
other, what the nodes denote (`RunIs`, `ChainComputes`), and the one loop of the kernel writes
the last into the buffer that is answered (`LoopLowered`, `LoopExecuted`). Scalars meet their
placeholders because a placeholder is bound by its position among placeholders
(`PlaceholderPosition`). That with one input no second placeholder ever stands in the graph is
part of the invariant of the answer (`NamesOnce`).

TLC checked each part of these invariants on small instances before it was proved,
`StoppedOK` on that of `rewrite_safety`, and `KernelsPreserveMeaning` on one
without extraction and with two inputs.

`InductionRules` is what makes this possible, and says nothing of this program:
that a function defined by recursion over smaller positions satisfies its
equation, and that a property passes from smaller positions to all, or along
a fold. The prover has no induction over an operator given as a
parameter, but a module with a constant operator can be instantiated for each
definition.

Only model-checked: liveness (`CallReturns`, `LoopReturns`), which the prover does not
reach; `ExtractionPreserves`, and with extraction among the passes
`MeaningPreserved` and `KernelAnswersAsWritten` of `rewrite_extract`: the materialization
recurses over classes that may contain themselves, so no well-founded order is
at hand, and what extraction leaves behind is not always in order; the properties
of `KernelLowering`, whose graphs have tensors and several outputs; the
polyhedral passes and the artifacts, whose operators are recursive over trees;
and the expected violations.

## 5. Not modelled, and what is abstracted

- Floating point. The field keeps what the rewrites claim (exact identities),
  and loses rounding, signed zeros and infinities; signed zeros have a model of
  their own only for `EGraphSignedZero`.
- `math.commutative_sort`, property inference, types, shapes and costs in the
  pass pipeline; the pipelines' fixed order of passes, replaced by any order.
- The linear programs, integer sets and rationals of the polyhedral library: any
  normalized row within the coefficient bound that the constraints admit may be the answer, and
  budgets of the solver that run out show as a refusal.
- In the artifacts: vector lanes, reductions over axes, fused chains operation by
  operation, the text and the toolchain's own failures.
- In the search: the mode without a cache, the time it takes to load, file writes
  smaller than a call; the loader refuses whatever is torn, and a reference that
  cannot be computed ends the search. `superopt.cpp` and the autotuner, which keep no files.
- Several extraction candidates (`extractMany`); collisions of e-node hashes.
- The hashes by which `math.cse` finds candidates, and the 64 levels after which
  it takes two terms for different: it may merge a node with any structurally equal one that
  the sweep has passed, or with none.
- `OpenHashSet` (the same table without values), small vectors, arenas.
- Loops inside loops: a parallel-marked loop inside a chunk is one more loop of
  the same kind, whose threads are joined before the iteration ends.
- Text formats, command lines, benchmarks: no state across calls.

## 6. Plan

The order is by how much of the system each step adds.

1. *Runtime stores*: telemetry ring with drop-oldest, graph state capture and
   reconstruction, realization cache and its keys.
2. *Autotuner*: its gates and the entry it stores; the search of `superopt.cpp`.
3. *Kernel walker*: reductions over axes; `ParallelLoop` composed with
   `KernelTree`, for a nest in a nest.
4. *Graph edits with tensors*: contraction paths, transpose elimination, shapes.
5. *Proofs*: the meaning of a graph through extraction, from an order of the classes
   by the cost at which they were chosen; the type invariant and the order of
   regions of the artifacts, slabs against the elements a nest reads for all coefficients, race
   freedom of a row marked parallel, the agreement of certificate and executor
   when both are given the same count.
