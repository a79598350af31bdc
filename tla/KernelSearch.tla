-------------------------------- MODULE KernelSearch --------------------------------
(***************************************************************************)
(* The budgeted search for the fastest kernel (fastkernel/src/             *)
(* fast_kernel.cpp) and the artifact cache it keeps on disk. A run of a    *)
(* search is a process: it takes the declared candidates one after the     *)
(* other, builds a native one with a compiler of its own or takes the      *)
(* library that an earlier run left in the directory of its fingerprint,   *)
(* compares what it computes with the reference, times it, and in the end  *)
(* names a winner. Runs share the cache directory without a lock, may die  *)
(* anywhere, and leave their compiler running when they do.                *)
(*                                                                         *)
(* A step is one access to a file of the cache. A text or a library is     *)
(* Torn when it is missing, truncated or made of a truncated text; a file  *)
(* is written in one call once it was truncated. The loader refuses a torn *)
(* library, and a library once loaded stays mapped in its process: nothing *)
(* is dlclosed (backend_driver.cpp:502), and a path that is mapped already *)
(* is not read again. Seconds are numbers small enough for TLC.            *)
(***************************************************************************)
EXTENDS Integers, Sequences, FiniteSets

CONSTANTS
  Runs,            \* processes that search with the same cache directory
  Kernels,         \* modules that the candidates compile to
  Fingerprints,
  Fingerprint,     \* artifactFingerprint of a kernel for its path
  Answers,
  Computes,        \* what a kernel computes on the inputs of the search
  Expected,        \* what the reference of a run computes
  Space,           \* the declared candidates of a run, in order
  Budget,          \* the budget contract of a run
  BaselineRuntime, \* of the reference; 0 when its benchmark failed
  Runtimes,        \* what a benchmark of a run may show
  BuildTimes,      \* what a build of a run may take
  CompileTime,
  ThreadCap,       \* kKernelExecMaxThreads
  MaxLives,        \* bound: how often each run is started
  Torn

Variants == [kernel : Kernels, native : BOOLEAN, threads : Nat]
Modes == {"same", "bounded", "amortized"}

ASSUME KernelsAssumption ==
  /\ Fingerprint \in [Kernels -> Fingerprints] /\ Computes \in [Kernels -> Answers]
  /\ Torn \notin Kernels /\ Torn \notin Fingerprints
ASSUME SpaceAssumption ==
  /\ Expected \in [Runs -> Answers] /\ MaxLives \in [Runs -> Nat]
  /\ Space \in [Runs -> Seq(Variants)]
ASSUME TimesAssumption ==
  /\ CompileTime \in Nat /\ BaselineRuntime \in [Runs -> Nat]
  /\ Runtimes \in [Runs -> SUBSET Nat] /\ BuildTimes \in [Runs -> SUBSET Nat]
  /\ Budget \in [Runs -> [mode : Modes, base : Nat, extraMax : Nat, threshold : Nat,
                          alpha : Nat, executions : Nat]]

VARIABLES
  source,    \* kernel.cpp, kernel.s or kernel.cu of each directory
  library,   \* libmlk_kernel.so
  key,       \* what fingerprint.txt says
  compiler,  \* the compiler that a life of a run spawned
  life,
  mapped,    \* what the process of a run has mapped from each directory
  pc,
  loaded,    \* the library that the run has loaded, or the kernel it walks
  fresh,     \* it was built, not found in the cache
  outcomes,  \* of the candidates so far
  report,
  alone      \* history: no other run or compiler since this run began

disk == <<source, library, key>>
vars == <<disk, compiler, life, mapped, pc, loaded, fresh, outcomes, report, alone>>

\* Mutant: one directory for all entries.
DirectoryShared(print) == CHOOSE d \in Fingerprints : TRUE

\* fk-<fingerprint>
Directory(print) == print

Candidate(r) == Space[r][Len(outcomes[r]) + 1]
OwnPrint(r) == Fingerprint[Candidate(r).kernel]
Dir(r) == Directory(OwnPrint(r))

Busy == {"reading", "unlinking", "linking"}
Resting == {"idle", "reported"}
NoCompiler == [dir |-> Torn, text |-> Torn, phase |-> "none"]
NoReport == [winner |-> 0, exhaustive |-> FALSE]

Init ==
  /\ source = [d \in Fingerprints |-> Torn] /\ library = [d \in Fingerprints |-> Torn]
  /\ key = [d \in Fingerprints |-> Torn]
  /\ compiler = [r \in Runs |-> [l \in 1 .. MaxLives[r] |-> NoCompiler]]
  /\ life = [r \in Runs |-> 0] /\ pc = [r \in Runs |-> "idle"]
  /\ mapped = [r \in Runs |-> [d \in Fingerprints |-> Torn]]
  /\ loaded = [r \in Runs |-> Torn] /\ fresh = [r \in Runs |-> FALSE]
  /\ outcomes = [r \in Runs |-> <<>>] /\ report = [r \in Runs |-> NoReport]
  /\ alone = [r \in Runs |-> FALSE]

Goto(r, next) == pc' = [pc EXCEPT ![r] = next]

\* The candidate is over. A refusal is "limit", "identity", "budget",
\* "justification", "failed" when the pipeline, a file or the toolchain failed, or
\* "torn" when the compiler or the loader refused what it found.
Conclude(r, reject, kernel, comptime, runtime) ==
  /\ outcomes' = [outcomes EXCEPT ![r] = Append(@,
       [reject |-> reject, kernel |-> kernel, comptime |-> comptime, runtime |-> runtime,
        extra |-> reject = "none" /\ comptime > Budget[r].base])]
  /\ loaded' = [loaded EXCEPT ![r] = Torn]
  /\ Goto(r, "next")
  /\ UNCHANGED <<disk, compiler, life, mapped, fresh, report, alone>>

Reject(r, reason) == Conclude(r, reason, Torn, 0, 0)

\* A process that runs the search is started, or one that has reported searches
\* again, with what it has mapped.
Begin(r) ==
  /\ pc[r] \in Resting /\ life[r] < MaxLives[r]
  /\ life' = [life EXCEPT ![r] = @ + 1]
  /\ alone' = [s \in Runs |->
       /\ s = r
       /\ \A other \in Runs \ {r} : pc[other] \in Resting
       /\ \A other \in Runs : \A l \in 1 .. MaxLives[other] : compiler[other][l].phase \notin Busy]
  /\ Goto(r, "next")
  /\ outcomes' = [outcomes EXCEPT ![r] = <<>>] /\ report' = [report EXCEPT ![r] = NoReport]
  /\ loaded' = [loaded EXCEPT ![r] = Torn]
  /\ \/ mapped' = [mapped EXCEPT ![r] = [d \in Fingerprints |-> Torn]]
     \/ pc[r] = "reported" /\ UNCHANGED mapped
  /\ UNCHANGED <<disk, compiler, fresh>>

\* Resource gate, compilation, and which way the candidate goes.
Compile(r) ==
  /\ pc[r] = "next" /\ Len(outcomes[r]) < Len(Space[r])
  /\ IF ~Candidate(r).native /\ Candidate(r).threads > ThreadCap
     THEN Reject(r, "limit")
     ELSE \/ Reject(r, "failed")
          \/ /\ Candidate(r).native /\ Goto(r, "probe")
             /\ UNCHANGED <<disk, compiler, life, mapped, loaded, fresh, outcomes, report, alone>>
          \/ /\ ~Candidate(r).native /\ Goto(r, "certify")
             /\ loaded' = [loaded EXCEPT ![r] = Candidate(r).kernel]
             /\ fresh' = [fresh EXCEPT ![r] = FALSE]
             /\ UNCHANGED <<disk, compiler, life, mapped, outcomes, report, alone>>

Probe(r) ==
  /\ pc[r] = "probe"
  /\ Goto(r, IF key[Dir(r)] = OwnPrint(r) THEN "reuse" ELSE "create")
  /\ UNCHANGED <<disk, compiler, life, mapped, loaded, fresh, outcomes, report, alone>>

\* What dlopen finds at the path of the entry.
Opened(r) == IF mapped[r][Dir(r)] # Torn THEN mapped[r][Dir(r)] ELSE library[Dir(r)]

TakeLibrary(r, built, next) ==
  /\ loaded' = [loaded EXCEPT ![r] = Opened(r)] /\ fresh' = [fresh EXCEPT ![r] = built]
  /\ mapped' = [mapped EXCEPT ![r][Dir(r)] = Opened(r)]
  /\ Goto(r, next)
  /\ UNCHANGED <<disk, compiler, life, outcomes, report, alone>>

\* Mutant: an entry that does not load is the end of its candidate.
ReuseOrReject(r) ==
  /\ pc[r] = "reuse"
  /\ IF Opened(r) = Torn THEN Reject(r, "torn") ELSE TakeLibrary(r, FALSE, "certify")

\* An entry that does not load is built again.
Reuse(r) ==
  /\ pc[r] = "reuse"
  /\ IF Opened(r) # Torn THEN TakeLibrary(r, FALSE, "certify")
     ELSE /\ Goto(r, "create")
          /\ UNCHANGED <<disk, compiler, life, mapped, loaded, fresh, outcomes, report, alone>>

\* The kernel is emitted and its file opened for writing ...
Create(r) ==
  /\ pc[r] = "create"
  /\ \/ Reject(r, "failed")
     \/ /\ source' = [source EXCEPT ![Dir(r)] = Torn] /\ Goto(r, "write")
        /\ UNCHANGED <<library, key, compiler, life, mapped, loaded, fresh, outcomes, report, alone>>

\* ... and written.
Write(r) ==
  /\ pc[r] = "write"
  /\ \/ Reject(r, "failed")
     \/ /\ source' = [source EXCEPT ![Dir(r)] = Candidate(r).kernel] /\ Goto(r, "spawn")
        /\ UNCHANGED <<library, key, compiler, life, mapped, loaded, fresh, outcomes, report, alone>>

Spawn(r) ==
  /\ pc[r] = "spawn"
  /\ \/ Reject(r, "failed")
     \/ /\ compiler' = [compiler EXCEPT ![r][life[r]] = [dir |-> Dir(r), text |-> Torn, phase |-> "reading"]]
        /\ Goto(r, "wait")
        /\ UNCHANGED <<disk, life, mapped, loaded, fresh, outcomes, report, alone>>

Phase(r, l, phase, text) ==
  /\ compiler' = [compiler EXCEPT ![r][l].phase = phase, ![r][l].text = text]
  /\ UNCHANGED <<source, key, life, mapped, pc, loaded, fresh, outcomes, report, alone>>

\* The compiler reads the text; a truncated one it refuses, or compiles to a
\* library that has no mlk_kernel.
Read(r, l) ==
  /\ compiler[r][l].phase = "reading"
  /\ LET text == source[compiler[r][l].dir]
     IN \/ Phase(r, l, "unlinking", text)
        \/ text = Torn /\ Phase(r, l, "failed", text)
  /\ UNCHANGED library

Unlink(r, l) ==
  /\ compiler[r][l].phase = "unlinking"
  /\ library' = [library EXCEPT ![compiler[r][l].dir] = Torn]
  /\ Phase(r, l, "linking", compiler[r][l].text)

Link(r, l) ==
  /\ compiler[r][l].phase = "linking"
  /\ library' = [library EXCEPT ![compiler[r][l].dir] = compiler[r][l].text]
  /\ Phase(r, l, "linked", compiler[r][l].text)

\* waitpid returned.
Await(r) ==
  /\ pc[r] = "wait" /\ compiler[r][life[r]].phase \in {"linked", "failed"}
  /\ \/ compiler[r][life[r]].phase = "failed" /\ Reject(r, "torn")
     \/ /\ compiler[r][life[r]].phase = "linked" /\ Goto(r, "load")
        /\ UNCHANGED <<disk, compiler, life, mapped, loaded, fresh, outcomes, report, alone>>

Load(r) ==
  /\ pc[r] = "load"
  /\ IF Opened(r) = Torn THEN Reject(r, "torn") ELSE TakeLibrary(r, TRUE, "record")

\* The key is written unless it is there already: read, truncated, written.
Record(r) ==
  /\ pc[r] = "record"
  /\ Goto(r, IF key[Dir(r)] = OwnPrint(r) THEN "certify" ELSE "truncate")
  /\ UNCHANGED <<disk, compiler, life, mapped, loaded, fresh, outcomes, report, alone>>

Truncate(r) ==
  /\ pc[r] = "truncate"
  /\ \/ Reject(r, "failed")
     \/ /\ key' = [key EXCEPT ![Dir(r)] = Torn] /\ Goto(r, "sign")
        /\ UNCHANGED <<source, library, compiler, life, mapped, loaded, fresh, outcomes, report, alone>>

Sign(r) ==
  /\ pc[r] = "sign"
  /\ \/ Reject(r, "failed")
     \/ /\ key' = [key EXCEPT ![Dir(r)] = OwnPrint(r)] /\ Goto(r, "certify")
        /\ UNCHANGED <<source, library, compiler, life, mapped, loaded, fresh, outcomes, report, alone>>

Allowed(r) == Budget[r].base + IF Budget[r].mode = "same" THEN 0 ELSE Budget[r].extraMax

\* The kernel runs on the inputs of the search, is compared with the reference (a
\* zero of either sign is the same), and timed, any of which may fail; then the
\* budget gate.
Certify(r) ==
  /\ pc[r] = "certify"
  /\ \/ Reject(r, "failed")
     \/ \E build \in IF fresh[r] THEN BuildTimes[r] ELSE {0}, runtime \in Runtimes[r] :
          LET comptime == CompileTime + build
          IN Conclude(r, IF Computes[loaded[r]] # Expected[r] THEN "identity"
                         ELSE IF comptime > Allowed(r) THEN "budget" ELSE "none",
                      loaded[r], comptime, runtime)

Admissible(all) == {n \in DOMAIN all : all[n].reject = "none"}

\* Mutant: as fast is good enough.
JustifiedByTie(r, outcome, base) == outcome.runtime <= base

\* The three forms of a payoff; whatever the threshold and the weights, the last
\* one needs only some gain.
Justified(r, outcome, base) ==
  LET gain == base - outcome.runtime
      spent == outcome.comptime - Budget[r].base
  IN \/ gain >= Budget[r].threshold /\ gain > 0
     \/ /\ Budget[r].executions > 0 /\ gain > 0
        /\ Budget[r].alpha * spent <= Budget[r].executions * gain
     \/ gain > 0

\* The runtime that extra compile time must improve on.
BaseRuntime(r, all) ==
  LET same == {n \in Admissible(all) : ~all[n].extra}
  IN IF same = {} THEN BaselineRuntime[r]
     ELSE CHOOSE u \in {all[n].runtime : n \in same} : \A n \in same : u <= all[n].runtime

Gated(r, all) ==
  IF Budget[r].mode # "bounded" THEN all
  ELSE [n \in DOMAIN all |->
          IF /\ all[n].reject = "none" /\ all[n].extra
             /\ ~Justified(r, all[n], BaseRuntime(r, all))
          THEN [all[n] EXCEPT !.reject = "justification"] ELSE all[n]]

\* Scaled by the executions over which it is amortized. Over none the quotient is
\* infinite, or not a number, for every candidate: none is smaller than another.
Objective(r, outcome) ==
  IF Budget[r].mode # "amortized" THEN outcome.runtime
  ELSE IF Budget[r].executions = 0 THEN 0
  ELSE Budget[r].executions * outcome.runtime + outcome.comptime

\* Strictly smaller wins, the first declared otherwise.
Winner(r, all) ==
  IF Admissible(all) = {} THEN 0
  ELSE CHOOSE w \in Admissible(all) :
         \A n \in Admissible(all) : \/ Objective(r, all[w]) < Objective(r, all[n])
                                    \/ Objective(r, all[w]) = Objective(r, all[n]) /\ w <= n

Report(r) ==
  /\ pc[r] = "next" /\ Len(outcomes[r]) = Len(Space[r])
  /\ LET all == Gated(r, outcomes[r])
     IN /\ outcomes' = [outcomes EXCEPT ![r] = all]
        /\ report' = [report EXCEPT ![r] =
             [winner |-> Winner(r, all),
              exhaustive |-> \A n \in DOMAIN all : all[n].reject \notin {"failed", "torn"}]]
  /\ Goto(r, "reported")
  /\ UNCHANGED <<disk, compiler, life, mapped, loaded, fresh, alone>>

\* The process dies; its compiler goes on.
Crash(r) ==
  /\ pc[r] \notin Resting
  /\ Goto(r, "idle")
  /\ UNCHANGED <<disk, compiler, life, mapped, loaded, fresh, outcomes, report, alone>>

Next ==
  \E r \in Runs :
    \/ Begin(r) \/ Compile(r) \/ Probe(r) \/ Reuse(r) \/ Create(r) \/ Write(r) \/ Spawn(r)
    \/ Await(r) \/ Load(r) \/ Record(r) \/ Truncate(r) \/ Sign(r) \/ Certify(r) \/ Report(r) \/ Crash(r)
    \/ \E l \in 1 .. MaxLives[r] : Read(r, l) \/ Unlink(r, l) \/ Link(r, l)

Spec == Init /\ [][Next]_vars

-----------------------------------------------------------------------------
(***************************************************************************)
(* Properties.                                                             *)
(***************************************************************************)

\* Whatever runs built, died and were overtaken in the same directories, the
\* library that a candidate was compared and timed with was made of a kernel with
\* the fingerprint of that candidate: of that kernel, as far as fingerprints tell
\* kernels apart ("a later probe must match EXACTLY", fast_kernel.cpp:871).
OutcomesAreOfTheirCandidates ==
  \A r \in Runs : \A n \in DOMAIN outcomes[r] :
    outcomes[r][n].kernel # Torn =>
      Fingerprint[outcomes[r][n].kernel] = Fingerprint[Space[r][n].kernel]

\* The same of the kernels themselves: the fingerprint is said to bind "EVERY
\* cache-relevant component" (fast_kernel.cpp:722). It holds when fingerprints tell
\* the kernels apart.
JudgedByTheirOwn ==
  \A r \in Runs : \A n \in DOMAIN outcomes[r] : outcomes[r][n].kernel \in {Torn, Space[r][n].kernel}

\* A run that no other run and no compiler left behind disturbs is never refused
\* by the compiler or the loader, however torn the entries are that it finds: it
\* builds them again ("the stale entry is overwritten", fast_kernel.cpp:844).
LoneSearchRebuilds ==
  \A r \in Runs : alone[r] => \A n \in DOMAIN outcomes[r] : outcomes[r][n].reject # "torn"

\* The declared space is reported in full; the winner computes the reference, is
\* within the budget, no admissible candidate is better or as good and declared
\* earlier, and if it cost extra compile time under the bounded mode it is strictly
\* faster than every candidate that did not (fast_kernel.cpp:1345-1398, Axioms 14.9
\* and 14.10). Without a winner nothing was admissible.
WinnerJustified ==
  \A r \in Runs : pc[r] = "reported" =>
    LET all == outcomes[r]
        w == report[r].winner
    IN /\ Len(all) = Len(Space[r])
       /\ w = 0 => Admissible(all) = {}
       /\ w # 0 =>
            /\ w \in Admissible(all) /\ Computes[all[w].kernel] = Expected[r]
            /\ all[w].comptime <= Allowed(r)
            /\ \A n \in Admissible(all) :
                 /\ Objective(r, all[w]) <= Objective(r, all[n])
                 /\ n < w => Objective(r, all[w]) < Objective(r, all[n])
                 /\ Budget[r].mode = "bounded" /\ all[w].extra /\ ~all[n].extra =>
                      all[w].runtime < all[n].runtime

=============================================================================
