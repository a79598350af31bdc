----------------------------- MODULE ParallelLoop -----------------------------
(***************************************************************************)
(* The threaded loops of runtime/src/execution/kernel_buffers.cpp: ranges  *)
(* of an elementwise kernel, row blocks of a matrix product, and the       *)
(* parallel-marked loop of a multi-dimensional nest. The caller divides    *)
(* the iterations into chunks of equal length, starts a thread for each,   *)
(* joins them all and only then looks at what has become of them, while    *)
(* any other thread may cancel. With one thread the caller runs the only   *)
(* chunk itself, by the same steps. One behaviour is one loop.             *)
(*                                                                         *)
(* An iteration is one element, one row or one pass of the nest's body; it *)
(* is one step, with the poll before it. What it computes is of no         *)
(* account here, only how many times it is run.                            *)
(***************************************************************************)
EXTENDS Integers

CONSTANTS
  Calls,            \* the loops to run
  HardwareThreads,  \* std::thread::hardware_concurrency(), 0 if unknown
  MaxThreads,       \* kKernelExecMaxThreads
  Amortized         \* kParallelChunkElements

Kinds == {"elementwise", "rows", "nest"}

\* Only an iteration of a nest can end in an error.
ASSUME CallsAssumption ==
  /\ Calls \subseteq [kind: Kinds, trip: Nat, width: Nat \ {0}, threads: Int,
                      faulty: SUBSET Nat, bound: BOOLEAN]
  /\ \A c \in Calls : c.kind # "nest" => c.faulty = {}
ASSUME ThreadsAssumption ==
  HardwareThreads \in Nat /\ MaxThreads \in Nat \ {0} /\ Amortized \in Nat \ {0}

VARIABLES
  call,       \* kind, iterations, elements an iteration, "threads" parameter,
              \* iterations that end in an error, whether buffers are bound
  pc,         \* "spawning", "joining", "joined", "done"
  spawned,    \* threads started
  worker,     \* of each thread: "unborn", "running", "returned"
  pos,        \* of each thread: its next iteration
  slot,       \* of each thread: how it ended
  runs,       \* how often each iteration has been run
  cancelled,  \* the token
  result      \* what the caller returns

vars == <<call, pc, spawned, worker, pos, slot, runs, cancelled, result>>

-----------------------------------------------------------------------------
(***************************************************************************)
(* The decomposition.                                                      *)
(***************************************************************************)

Lesser(a, b) == IF a < b THEN a ELSE b

Capped == IF HardwareThreads = 0 THEN 1 ELSE Lesser(HardwareThreads, MaxThreads)

\* The "threads" parameter replaces the capped default, and is not capped.
Asked(c) == IF c.threads >= 1 THEN c.threads ELSE Capped

\* decideThreads is given the elements of the product, or the trip of the loop.
Elements(c) == IF c.kind = "rows" THEN c.trip * c.width ELSE c.trip

Threads(c) == IF Elements(c) < Amortized THEN 1 ELSE Asked(c)

\* Mutant: the length is rounded down.
ChunkRoundedDown(c) == c.trip \div Threads(c)

Chunk(c) == (c.trip + Threads(c) - 1) \div Threads(c)

Begin(c, t) == t * Chunk(c)

\* Mutant: chunks share their borders.
EndInclusive(c, t) == Lesser(Begin(c, t) + Chunk(c) + 1, c.trip)

End(c, t) == Lesser(Begin(c, t) + Chunk(c), c.trip)

Workers(c) == 0 .. Threads(c) - 1
Iterations(c) == 0 .. c.trip - 1

-----------------------------------------------------------------------------
Init ==
  /\ call \in Calls
  /\ pc = "spawning"
  /\ spawned = 0
  /\ worker = [t \in Workers(call) |-> "unborn"]
  /\ pos = [t \in Workers(call) |-> Begin(call, t)]
  /\ slot = [t \in Workers(call) |-> "fine"]
  /\ runs = [i \in Iterations(call) |-> 0]
  /\ cancelled = FALSE
  /\ result = [outcome |-> "none", at |-> 0]

Spawn ==
  /\ pc = "spawning" /\ spawned < Threads(call)
  /\ Begin(call, spawned) < End(call, spawned)
  /\ worker' = [worker EXCEPT ![spawned] = "running"]
  /\ spawned' = spawned + 1
  /\ UNCHANGED <<call, pc, pos, slot, runs, cancelled, result>>

\* The first empty chunk ends the spawning.
EndSpawning ==
  /\ pc = "spawning"
  /\ spawned = Threads(call) \/ Begin(call, spawned) >= End(call, spawned)
  /\ pc' = "joining"
  /\ UNCHANGED <<call, spawned, worker, pos, slot, runs, cancelled, result>>

\* The rows of a product are not interrupted.
Interrupted == cancelled /\ call.kind # "rows"

\* An elementwise range whose buffers are not bound is skipped.
Skipped == call.kind = "elementwise" /\ ~call.bound

Iterate(t) ==
  /\ worker[t] = "running" /\ pos[t] < End(call, t)
  /\ ~Skipped /\ ~Interrupted /\ pos[t] \notin call.faulty
  /\ runs' = [runs EXCEPT ![pos[t]] = @ + 1]
  /\ pos' = [pos EXCEPT ![t] = @ + 1]
  /\ UNCHANGED <<call, pc, spawned, worker, slot, cancelled, result>>

\* Mutant: a thread that fails leaves its slot as it was.
FailUnrecorded(t) ==
  /\ worker[t] = "running" /\ pos[t] < End(call, t)
  /\ ~Skipped /\ ~Interrupted /\ pos[t] \in call.faulty
  /\ worker' = [worker EXCEPT ![t] = "returned"]
  /\ UNCHANGED <<call, pc, spawned, pos, slot, runs, cancelled, result>>

Fail(t) ==
  /\ worker[t] = "running" /\ pos[t] < End(call, t)
  /\ ~Skipped /\ ~Interrupted /\ pos[t] \in call.faulty
  /\ worker' = [worker EXCEPT ![t] = "returned"]
  /\ slot' = [slot EXCEPT ![t] = "fault"]
  /\ UNCHANGED <<call, pc, spawned, pos, runs, cancelled, result>>

\* Only the nest says in its slot that it was cancelled.
Stop(t) ==
  /\ worker[t] = "running" /\ pos[t] < End(call, t)
  /\ ~Skipped /\ Interrupted
  /\ worker' = [worker EXCEPT ![t] = "returned"]
  /\ slot' = [slot EXCEPT ![t] = IF call.kind = "nest" THEN "cancelled" ELSE "fine"]
  /\ UNCHANGED <<call, pc, spawned, pos, runs, cancelled, result>>

Finish(t) ==
  /\ worker[t] = "running" /\ (Skipped \/ pos[t] = End(call, t))
  /\ worker' = [worker EXCEPT ![t] = "returned"]
  /\ UNCHANGED <<call, pc, spawned, pos, slot, runs, cancelled, result>>

\* Mutant: every thread that was asked for is waited for, started or not.
JoinEveryAsked ==
  /\ pc = "joining"
  /\ \A t \in Workers(call) : worker[t] = "returned"
  /\ pc' = "joined"
  /\ UNCHANGED <<call, spawned, worker, pos, slot, runs, cancelled, result>>

Join ==
  /\ pc = "joining"
  /\ \A t \in Workers(call) : worker[t] # "running"
  /\ pc' = "joined"
  /\ UNCHANGED <<call, spawned, worker, pos, slot, runs, cancelled, result>>

Failed == {t \in Workers(call) : slot[t] # "fine"}

\* Mutant: a later failure overwrites an earlier one.
Last(t) == t \in Failed /\ \A u \in Failed : u <= t

First(t) == t \in Failed /\ \A u \in Failed : t <= u

\* The nest reports its first failed slot; then, and for the others, the
\* token is polled once more.
Report(outcome, at) ==
  /\ pc = "joined"
  /\ pc' = "done"
  /\ result' = [outcome |-> outcome, at |-> at]
  /\ UNCHANGED <<call, spawned, worker, pos, slot, runs, cancelled>>

ReportFailure(t) == First(t) /\ Report(slot[t], pos[t])

\* Mutant: the last poll is left out, as if each thread reported for itself.
ReportEndUnpolled == Failed = {} /\ Report("ok", 0)

ReportEnd == Failed = {} /\ Report(IF cancelled THEN "cancelled" ELSE "ok", 0)

Cancel ==
  /\ pc # "done" /\ ~cancelled
  /\ cancelled' = TRUE
  /\ UNCHANGED <<call, pc, spawned, worker, pos, slot, runs, result>>

-----------------------------------------------------------------------------
CallerStep ==
  \/ Spawn \/ EndSpawning \/ Join \/ ReportEnd
  \/ \E t \in Workers(call) : ReportFailure(t)

WorkerStep(t) == Iterate(t) \/ Fail(t) \/ Stop(t) \/ Finish(t)

SomeWorkerStep == \E t \in Workers(call) : WorkerStep(t)

Next == CallerStep \/ SomeWorkerStep \/ Cancel

Spec == Init /\ [][Next]_vars

\* The caller and the threads are scheduled; nothing but the join waits. A
\* thread that can move stays able to, until it has returned, and there are
\* finitely many steps: fairness to the threads together is enough.
FairSpec == Spec /\ WF_vars(CallerStep) /\ WF_vars(SomeWorkerStep)

-----------------------------------------------------------------------------
(***************************************************************************)
(* Properties.                                                             *)
(***************************************************************************)

\* Every variable has its type; a thread stays in its chunk.
TypeOK ==
  /\ call \in Calls
  /\ pc \in {"spawning", "joining", "joined", "done"}
  /\ spawned \in 0 .. Threads(call)
  /\ worker \in [Workers(call) -> {"unborn", "running", "returned"}]
  /\ pos \in [Workers(call) -> Nat]
  /\ \A t \in Workers(call) : pos[t] \in Begin(call, t) .. Begin(call, t) + Chunk(call)
  /\ slot \in [Workers(call) -> {"fine", "cancelled", "fault"}]
  /\ runs \in [Iterations(call) -> Nat]
  /\ cancelled \in BOOLEAN
  /\ result \in [outcome: {"none", "ok", "cancelled", "fault"}, at: Nat]

\* Rows and accumulating stores add to what is there, so chunks of any length
\* must be disjoint ("slabs read/write disjoint locations",
\* kernel_buffers.cpp:449): no iteration is ever run twice.
RunOnce == \A i \in Iterations(call) : runs[i] <= 1

\* A loop that reports success has run every iteration, whatever the trip and
\* the number of threads, and whenever the cancellation came: a thread that
\* saw the token does not say so, the poll after the join has to.
OkMeansComplete ==
  result.outcome = "ok" /\ ~Skipped =>
    /\ \A i \in Iterations(call) : runs[i] = 1
    /\ call.faulty \intersect Iterations(call) = {}

\* "The parent joins and returns the first failure (deterministic
\* diagnostics)" (kernel_buffers.cpp:460): the error is that of the first
\* faulty iteration, the one a sequential loop reports, in whatever order the
\* threads run into theirs and though others may see the token first.
FirstFaultReported ==
  result.outcome = "fault" =>
    /\ result.at \in call.faulty
    /\ \A i \in call.faulty : i < result.at => i \notin Iterations(call)

\* The loop ends, cancelled or not.
LoopReturns == <>(pc = "done")

-----------------------------------------------------------------------------
(***************************************************************************)
(* The launch certificate (fastkernel/src/fast_kernel.cpp): the slabs of   *)
(* the first parallel-marked loop, computed from the kernel's output.      *)
(***************************************************************************)
CertifiedThreads(c) == IF c.trip * c.width < Amortized THEN 1 ELSE Asked(c)

CertifiedSlabs(c) ==
  LET length == (c.trip + CertifiedThreads(c) - 1) \div CertifiedThreads(c)
      slab(t) == [begin |-> t * length, end |-> Lesser((t + 1) * length, c.trip)]
  IN {s \in {slab(t) : t \in 0 .. CertifiedThreads(c) - 1} : s.begin < s.end}

Covers(slabs, c) ==
  \A i \in Iterations(c) : \E s \in slabs : s.begin <= i /\ i < s.end

Certified(c) ==
  /\ c.trip > 0
  /\ CertifiedThreads(c) <= MaxThreads
  /\ IF c.kind = "nest" THEN Covers(CertifiedSlabs(c), c) ELSE CertifiedThreads(c) = 1

RunSlabs == {[begin |-> Begin(call, t), end |-> End(call, t)] : t \in 0 .. spawned - 1}

\* "A passing certificate proves the decomposition the executor will actually
\* run" (fast_kernel.h:129).
CertificateIsRun ==
  pc = "joining" /\ call.kind = "nest" /\ Certified(call) => RunSlabs = CertifiedSlabs(call)

\* "Hard cap on worker threads per parallel-marked loop" (constants.h:135).
ThreadCap == spawned <= MaxThreads

\* Success means that the loop was run: one whose buffers are not bound is
\* skipped (kernel_buffers.cpp:371).
UnboundReported == result.outcome = "ok" => ~Skipped
=============================================================================
