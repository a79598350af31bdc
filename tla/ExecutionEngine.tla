--------------------------- MODULE ExecutionEngine ---------------------------
(***************************************************************************)
(* The tiering engine of runtime/src/execution/execution.cpp: one host     *)
(* thread (the evaluation thread that owns the engine) that calls execute, *)
(* requestAsyncCompile and finally the destructor, the background worker   *)
(* that requestAsyncCompile spawns, and any thread that cancels.           *)
(*                                                                         *)
(* Granularity: a step touches shared state (current_, workerActive_, the  *)
(* cancellation flag, the telemetry sink, the caller's graph) at most once;*)
(* host-local computation is folded into the step that precedes it.        *)
(* A kernel is identified by what it was compiled from: the graph object,  *)
(* the edition of its mathematical content, and the tier.                  *)
(***************************************************************************)
EXTENDS Integers, FiniteSets

CONSTANTS
  Graphs,             \* graph objects the host owns
  Tiers,              \* enum Tier; 0 is the interpreter
  NoRealization,      \* current_ holding a null shared_ptr
  ThrottleThreshold,  \* kFallbackThrottleThreshold
  MaxCalls,           \* bound: execute and requestAsyncCompile calls
  MaxEditions         \* bound: edits of the host's graphs between calls

ASSUME TiersAssumption  == Tiers \subseteq Nat /\ 0 \in Tiers
ASSUME NoneAssumption   == NoRealization \notin [graph: Graphs, tier: Tiers, edition: 0..MaxEditions]
ASSUME BoundsAssumption == MaxCalls \in Nat /\ MaxEditions \in Nat
                           /\ ThrottleThreshold \in Nat

Sites      == {"kernel_compile", "kernel_execution"}
EventKinds == {"CompileAttempt", "CompileFailure", "Fallback", "TierTransition"}
Outcomes   == {"ok", "error", "diagnosed"}
Requests   == [graph: Graphs, tier: Tiers]
Kernels    == [graph: Graphs, tier: Tiers, edition: 0..MaxEditions]

VARIABLES
  engine,        \* "live", "destroyed", or "aborted" (std::terminate)
  pc,            \* control point of the host thread
  request,       \* arguments of the host's last call
  realization,   \* the host's local shared_ptr in execute
  current,       \* current_: the published realization
  worker,        \* the background thread: state, job, and kernel it built
  workerActive,  \* workerActive_
  joinable,      \* worker_.joinable(): a thread not yet joined
  cancelled,     \* cancel_
  edition,       \* mathematical content of each graph, as edited by the host
  telemetry,     \* events recorded, by kind
  fallbackCounts,\* fallback_.fallbackCounts_
  reply,         \* what the last execute returned, and what really ran
  calls,         \* history: calls made
  succeeded,     \* history: kernels of compilations that succeeded
  failed,        \* history: compilations that failed
  degraded,      \* history: tier >= 1 requests answered by the interpreter
  overtakes      \* history: realizations installed by the worker

hostVars    == <<pc, request, realization, reply, calls>>
threadVars  == <<worker, workerActive, joinable>>
sharedVars  == <<current, cancelled, edition, telemetry, fallbackCounts>>
historyVars == <<succeeded, failed, degraded, overtakes>>
vars == <<engine, hostVars, threadVars, sharedVars, historyVars>>

KernelOf(r) == [graph |-> r.graph, tier |-> r.tier, edition |-> edition[r.graph]]

Record(kind) == telemetry' = [telemetry EXCEPT ![kind] = @ + 1]

-----------------------------------------------------------------------------

Init ==
  /\ engine = "live"
  /\ pc = "idle"
  /\ request \in Requests
  /\ realization = NoRealization
  /\ current = NoRealization
  /\ worker = [state |-> "none", job |-> request, kernel |-> NoRealization]
  /\ workerActive = FALSE
  /\ joinable = FALSE
  /\ cancelled = FALSE
  /\ edition = [g \in Graphs |-> 0]
  /\ telemetry = [k \in EventKinds |-> 0]
  /\ fallbackCounts = [s \in Sites |-> 0]
  /\ reply = [asked |-> 0, executed |-> 0, ran |-> NoRealization, wanted |-> NoRealization]
  /\ calls = 0
  /\ succeeded = {}
  /\ failed = 0
  /\ degraded = 0
  /\ overtakes = 0

(***************************************************************************)
(* execute: current_ is loaded once; a tier other than the installed one   *)
(* is compiled synchronously, published, and current_ is loaded again.     *)
(***************************************************************************)
\* Mutant: any installed realization is taken for a match.
NeedCompileOnlyIfNone(r, t) == r = NoRealization

NeedCompile(r, t) == r = NoRealization \/ r.tier # t

Execute(r) ==
  /\ engine = "live" /\ pc = "idle" /\ calls < MaxCalls
  /\ calls' = calls + 1
  /\ request' = r
  /\ realization' = current
  /\ pc' = IF r.tier = 0 THEN "interpret"
           ELSE IF NeedCompile(current, r.tier) THEN "compile" ELSE "run"
  /\ UNCHANGED <<engine, reply, threadVars, sharedVars, historyVars>>

\* compile(): the attempt is recorded, then the pipeline starts on the
\* caller's own graph. It polls the token before its first pass.
CompileBegin ==
  /\ engine = "live" /\ pc = "compile"
  /\ Record("CompileAttempt")
  /\ pc' = IF cancelled THEN "refused" ELSE "compiling"
  /\ UNCHANGED <<engine, request, realization, reply, calls, threadVars,
                 current, cancelled, edition, fallbackCounts, historyVars>>

\* A pass error, a failed verification or a cancellation returns early; only
\* errors left in the diagnostic engine record CompileFailure.
CompileEnd(outcome) ==
  /\ engine = "live"
  /\ pc = "compiling" \/ (pc = "refused" /\ outcome = "error")
  /\ IF outcome = "ok"
     THEN /\ realization' = KernelOf(request)
          /\ succeeded' = succeeded \union {KernelOf(request)}
          /\ pc' = "install"
          /\ UNCHANGED <<telemetry, fallbackCounts, failed>>
     ELSE /\ realization' = NoRealization
          /\ telemetry' = [telemetry EXCEPT
                             !["CompileFailure"] = @ + (IF outcome = "diagnosed" THEN 1 ELSE 0),
                             !["Fallback"] = @ + 1]
          /\ fallbackCounts' = [fallbackCounts EXCEPT !["kernel_compile"] = @ + 1]
          /\ failed' = failed + 1
          /\ pc' = "interpret"
          /\ UNCHANGED succeeded
  /\ UNCHANGED <<engine, request, reply, calls, threadVars, current, cancelled,
                 edition, degraded, overtakes>>

Install ==
  /\ engine = "live" /\ pc = "install"
  /\ current' = realization
  /\ pc' = "reload"
  /\ UNCHANGED <<engine, request, realization, reply, calls, threadVars,
                 cancelled, edition, telemetry, fallbackCounts, historyVars>>

\* Mutant: the reloaded realization is run without a second look at its tier.
ReloadUnchecked ==
  /\ engine = "live" /\ pc = "reload"
  /\ realization' = current
  /\ Record("TierTransition")
  /\ pc' = "run"
  /\ UNCHANGED <<engine, request, reply, calls, threadVars, current, cancelled,
                 edition, fallbackCounts, historyVars>>

\* realization = current(): whatever is published now, which the worker may
\* have replaced since the install; only a matching tier is run.
Reload ==
  /\ engine = "live" /\ pc = "reload"
  /\ realization' = current
  /\ Record("TierTransition")
  /\ pc' = IF NeedCompile(current, request.tier) THEN "interpret" ELSE "run"
  /\ UNCHANGED <<engine, request, reply, calls, threadVars, current, cancelled,
                 edition, fallbackCounts, historyVars>>

Return(executed, ran) ==
  /\ reply' = [asked |-> request.tier, executed |-> executed, ran |-> ran,
               wanted |-> KernelOf(request)]
  /\ realization' = NoRealization
  /\ pc' = "idle"

\* Mutant: a kernel that fails is not recorded.
RunKernelUnrecorded(ok) ==
  /\ engine = "live" /\ pc = "run"
  /\ IF ok
     THEN Return(request.tier, realization)
     ELSE pc' = "interpret" /\ UNCHANGED <<realization, reply>>
  /\ UNCHANGED <<engine, request, calls, threadVars, sharedVars, historyVars>>

\* executeKernel succeeds, or fails (a kernel that does not fit the scalar
\* ABI, a cancelled chunk) and is recorded as a fallback.
RunKernel(ok) ==
  /\ engine = "live" /\ pc = "run"
  /\ IF ok
     THEN /\ Return(request.tier, realization)
          /\ UNCHANGED <<telemetry, fallbackCounts>>
     ELSE /\ Record("Fallback")
          /\ fallbackCounts' = [fallbackCounts EXCEPT !["kernel_execution"] = @ + 1]
          /\ pc' = "interpret"
          /\ UNCHANGED <<realization, reply>>
  /\ UNCHANGED <<engine, request, calls, threadVars, current, cancelled,
                 edition, historyVars>>

\* interpretGraph on the caller's graph: the universal fallback.
Interpret ==
  /\ engine = "live" /\ pc = "interpret"
  /\ Return(0, NoRealization)
  /\ degraded' = degraded + (IF request.tier = 0 THEN 0 ELSE 1)
  /\ UNCHANGED <<engine, request, calls, threadVars, sharedVars, succeeded,
                 failed, overtakes>>

(***************************************************************************)
(* requestAsyncCompile and the destructor both start with joinPending,     *)
(* which joins only while workerActive_ is still set. Assigning to, or     *)
(* destroying, a std::thread that is joinable calls std::terminate.        *)
(***************************************************************************)
RequestAsyncCompile(r) ==
  /\ engine = "live" /\ pc = "idle" /\ calls < MaxCalls
  /\ calls' = calls + 1
  /\ request' = r
  /\ pc' = IF workerActive /\ joinable THEN "join_spawn" ELSE "spawn"
  /\ UNCHANGED <<engine, realization, reply, threadVars, sharedVars, historyVars>>

Destroy ==
  /\ engine = "live" /\ pc = "idle"
  /\ pc' = IF workerActive /\ joinable THEN "join_destroy" ELSE "destroy"
  /\ UNCHANGED <<engine, request, realization, reply, calls, threadVars,
                 sharedVars, historyVars>>

\* worker_.join() returns once the thread function has returned.
JoinPending ==
  /\ engine = "live" /\ pc \in {"join_spawn", "join_destroy"}
  /\ worker.state = "exited"
  /\ worker' = [worker EXCEPT !.state = "none"]
  /\ joinable' = FALSE
  /\ workerActive' = FALSE
  /\ pc' = IF pc = "join_spawn" THEN "spawn" ELSE "destroy"
  /\ UNCHANGED <<engine, request, realization, reply, calls, sharedVars, historyVars>>

Spawn ==
  /\ engine = "live" /\ pc = "spawn"
  /\ workerActive' = TRUE
  /\ IF joinable
     THEN /\ engine' = "aborted"
          /\ UNCHANGED <<worker, joinable>>
     ELSE /\ joinable' = TRUE
          /\ worker' = [state |-> "spawned", job |-> request, kernel |-> NoRealization]
          /\ UNCHANGED engine
  /\ pc' = "idle"
  /\ UNCHANGED <<request, realization, reply, calls, sharedVars, historyVars>>

DestroyEnd ==
  /\ engine = "live" /\ pc = "destroy"
  /\ engine' = IF joinable THEN "aborted" ELSE "destroyed"
  /\ pc' = "idle"
  /\ UNCHANGED <<request, realization, reply, calls, threadVars, sharedVars, historyVars>>

(***************************************************************************)
(* The worker thread: compile, install, record the transition, clear       *)
(* workerActive_ and return.                                               *)
(***************************************************************************)
WorkerBegin ==
  /\ engine # "aborted" /\ worker.state = "spawned"
  /\ Record("CompileAttempt")
  /\ worker' = [worker EXCEPT !.state = IF cancelled THEN "refused" ELSE "compiling"]
  /\ UNCHANGED <<engine, hostVars, workerActive, joinable, current, cancelled,
                 edition, fallbackCounts, historyVars>>

WorkerEnd(outcome) ==
  /\ engine # "aborted"
  /\ worker.state = "compiling" \/ (worker.state = "refused" /\ outcome = "error")
  /\ IF outcome = "ok"
     THEN /\ worker' = [worker EXCEPT !.state = "built", !.kernel = KernelOf(worker.job)]
          /\ succeeded' = succeeded \union {KernelOf(worker.job)}
          /\ UNCHANGED <<telemetry, failed>>
     ELSE /\ worker' = [worker EXCEPT !.state = "leaving"]
          /\ telemetry' = [telemetry EXCEPT
                             !["CompileFailure"] = @ + (IF outcome = "diagnosed" THEN 1 ELSE 0)]
          /\ failed' = failed + 1
          /\ UNCHANGED succeeded
  /\ UNCHANGED <<engine, hostVars, workerActive, joinable, current, cancelled,
                 edition, fallbackCounts, degraded, overtakes>>

\* Mutant: install waits for a lock that the host holds during its calls.
WorkerInstallLocked ==
  /\ engine # "aborted" /\ worker.state = "built" /\ pc = "idle"
  /\ current' = worker.kernel
  /\ overtakes' = overtakes + 1
  /\ worker' = [worker EXCEPT !.state = "installed"]
  /\ UNCHANGED <<engine, hostVars, workerActive, joinable, cancelled, edition,
                 telemetry, fallbackCounts, succeeded, failed, degraded>>

\* Mutant: the flag is cleared with the install, before the transition is
\* recorded.
WorkerInstallCleared ==
  /\ engine # "aborted" /\ worker.state = "built"
  /\ current' = worker.kernel
  /\ workerActive' = FALSE
  /\ overtakes' = overtakes + 1
  /\ worker' = [worker EXCEPT !.state = "installed"]
  /\ UNCHANGED <<engine, hostVars, joinable, cancelled, edition,
                 telemetry, fallbackCounts, succeeded, failed, degraded>>

WorkerInstall ==
  /\ engine # "aborted" /\ worker.state = "built"
  /\ current' = worker.kernel
  /\ overtakes' = overtakes + 1
  /\ worker' = [worker EXCEPT !.state = "installed"]
  /\ UNCHANGED <<engine, hostVars, workerActive, joinable, cancelled, edition,
                 telemetry, fallbackCounts, succeeded, failed, degraded>>

WorkerRecord ==
  /\ engine # "aborted" /\ worker.state = "installed"
  /\ Record("TierTransition")
  /\ worker' = [worker EXCEPT !.state = "leaving"]
  /\ UNCHANGED <<engine, hostVars, workerActive, joinable, current, cancelled,
                 edition, fallbackCounts, historyVars>>

WorkerExit ==
  /\ engine # "aborted" /\ worker.state = "leaving"
  /\ workerActive' = FALSE
  /\ worker' = [worker EXCEPT !.state = "exited"]
  /\ UNCHANGED <<engine, hostVars, joinable, sharedVars, historyVars>>

(***************************************************************************)
(* The environment: cancelToken() is handed out, so any thread may cancel  *)
(* at any time and the host may reset it between calls; the host edits its *)
(* graphs between calls, but never one it has given to the worker.         *)
(***************************************************************************)
Cancel ==
  /\ engine = "live" /\ ~cancelled
  /\ cancelled' = TRUE
  /\ UNCHANGED <<engine, hostVars, threadVars, current, edition, telemetry,
                 fallbackCounts, historyVars>>

ResetCancel ==
  /\ engine = "live" /\ pc = "idle" /\ cancelled
  /\ cancelled' = FALSE
  /\ UNCHANGED <<engine, hostVars, threadVars, current, edition, telemetry,
                 fallbackCounts, historyVars>>

EditGraph(g) ==
  /\ engine = "live" /\ pc = "idle" /\ edition[g] < MaxEditions
  /\ worker.state \in {"spawned", "compiling"} => worker.job.graph # g
  /\ edition' = [edition EXCEPT ![g] = @ + 1]
  /\ UNCHANGED <<engine, hostVars, threadVars, current, cancelled, telemetry,
                 fallbackCounts, historyVars>>

-----------------------------------------------------------------------------

HostCall ==
  \/ \E r \in Requests : Execute(r) \/ RequestAsyncCompile(r)
  \/ Destroy

HostStep ==
  \/ CompileBegin
  \/ \E o \in Outcomes : CompileEnd(o)
  \/ Install
  \/ Reload
  \/ \E ok \in BOOLEAN : RunKernel(ok)
  \/ Interpret
  \/ JoinPending
  \/ Spawn
  \/ DestroyEnd

WorkerStep ==
  \/ WorkerBegin
  \/ \E o \in Outcomes : WorkerEnd(o)
  \/ WorkerInstall
  \/ WorkerRecord
  \/ WorkerExit

Environment ==
  \/ Cancel
  \/ ResetCancel
  \/ \E g \in Graphs : EditGraph(g)

Next == HostCall \/ HostStep \/ WorkerStep \/ Environment

Spec == Init /\ [][Next]_vars

\* Both threads run: no step of theirs waits for anything but a join.
FairSpec == Spec /\ WF_vars(HostStep) /\ WF_vars(WorkerStep)

-----------------------------------------------------------------------------
(***************************************************************************)
(* Properties.                                                             *)
(***************************************************************************)

HostPoints == {"idle", "compile", "refused", "compiling", "install", "reload", "run",
               "interpret", "join_spawn", "join_destroy", "spawn", "destroy"}
WorkerStates == {"none", "spawned", "refused", "compiling", "built", "installed",
                 "leaving", "exited"}

\* Every variable has its type.
TypeOK ==
  /\ engine \in {"live", "destroyed", "aborted"}
  /\ pc \in HostPoints
  /\ request \in Requests
  /\ realization \in Kernels \union {NoRealization}
  /\ current \in Kernels \union {NoRealization}
  /\ worker \in [state: WorkerStates, job: Requests, kernel: Kernels \union {NoRealization}]
  /\ workerActive \in BOOLEAN /\ joinable \in BOOLEAN /\ cancelled \in BOOLEAN
  /\ edition \in [Graphs -> 0..MaxEditions]
  /\ telemetry \in [EventKinds -> Nat]
  /\ fallbackCounts \in [Sites -> Nat]
  /\ reply \in [asked: Tiers, executed: Tiers, ran: Kernels \union {NoRealization},
                 wanted: Kernels \union {NoRealization}]
  /\ calls \in Nat /\ failed \in Nat /\ degraded \in Nat /\ overtakes \in Nat
  /\ succeeded \subseteq Kernels

\* Whatever is published, or held by a call in progress, or reported as having
\* run, is the complete product of a compilation that succeeded, at the tier
\* the reply claims: no partial install (execution.cpp:325,369), and
\* executedTier is "the tier that really ran" (execution.cpp:380) although the
\* worker may swap current_ at any point of the call.
HonestTier ==
  /\ current \in succeeded \union {NoRealization}
  /\ realization \in succeeded \union {NoRealization}
  /\ pc = "run" => realization # NoRealization /\ realization.tier = request.tier
  /\ reply.executed # 0 => /\ reply.executed = reply.asked
                           /\ reply.ran \in succeeded
                           /\ reply.ran.tier = reply.executed

\* The host goes past joinPending (execution.cpp:264), which joins only while
\* workerActive_ is set, only when the worker has made its last access to the
\* engine: the flag is cleared last of all (execution.cpp:327), so a join that
\* is left out leaves no thread writing to an engine that is being destroyed
\* or given another worker.
JoinSkippedOnlyWhenDone ==
  pc \in {"spawn", "destroy"} \/ engine # "live" => worker.state \in {"none", "exited"}

\* A tier >= 1 request answered by the interpreter is a recorded fallback
\* (Rule 30), except that each realization the worker installs can hide one:
\* the bound on how silent the engine may be.
FallbackAccounting == degraded <= telemetry["Fallback"] + overtakes

\* The caller's view of the engine: busy from a call to its return.
Phase == IF engine # "live" THEN "stopped" ELSE IF pc = "idle" THEN "ready" ELSE "serving"

Service == INSTANCE TieredService WITH
             NoKernel  <- NoRealization,
             phase     <- Phase,
             asked     <- request,
             answer    <- [executed |-> reply.executed, ran |-> reply.ran],
             available <- succeeded

\* The engine implements the abstract service: whatever the worker and the
\* environment do between the steps of a call, the call is answered by the
\* interpreter or by a complete kernel of the requested tier (execution.h:63,
\* "otherwise compiles the requested tier ON DEMAND").
ImplementsService == Service!Spec

\* A call always comes back: execute never waits for the worker, and a join
\* waits for a thread that finishes (Rules 11, 115). It ends with the host
\* idle, unless the process has aborted.
CallReturns == (engine = "live" /\ pc # "idle") ~> (pc = "idle")

-----------------------------------------------------------------------------
(***************************************************************************)
(* Claims of the documents and comments that the code does not keep.       *)
(***************************************************************************)

\* "Compile failure => stay on current tier [...] no crash"
\* (execution.cpp:325) and "compiler bugs degrade, never crash" (fallback.h:2):
\* no sequence of engine calls terminates the process.
NeverAborts == engine # "aborted"

\* A tier >= 1 result comes from a kernel of the graph that was passed to
\* execute, in its present edition: the engine compiles "when no matching
\* kernel is installed" (execution.h:63).
ResultIsOfRequestedGraph == reply.executed # 0 => reply.ran = reply.wanted

\* "Every fallback is a telemetry event" (docs/runtime_contracts.md:17).
EveryFallbackRecorded == degraded <= telemetry["Fallback"]

\* "Compilation always runs on a frozen snapshot" (docs/runtime_contracts.md:11):
\* while the worker's pipeline rewrites a graph, the host neither reads nor
\* rewrites it.
FrozenSnapshot ==
  worker.state = "compiling" =>
    ~(pc \in {"compiling", "run", "interpret"} /\ worker.job.graph = request.graph)

\* Compile "attempts+failures" are telemetry events
\* (docs/runtime_contracts.md:22).
EveryCompileFailureRecorded == failed <= telemetry["CompileFailure"]

\* "Per-site fallback counts throttle repeated failures"
\* (docs/runtime_contracts.md:17): a throttled compile site is not tried again.
ThrottledSiteNotRetried ==
  pc = "compiling" => fallbackCounts["kernel_compile"] < ThrottleThreshold
=============================================================================
