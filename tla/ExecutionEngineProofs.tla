------------------------ MODULE ExecutionEngineProofs ------------------------
(***************************************************************************)
(* Proofs about the execution engine, for any set of graphs and tiers and  *)
(* any bounds.                                                             *)
(***************************************************************************)
EXTENDS ExecutionEngine, TLAPS

\* The initial states are well typed, and so is the result of every step.
LEMMA TypeInductive ==
  /\ Init => TypeOK
  /\ TypeOK /\ [Next]_vars => TypeOK'
<1> USE TiersAssumption, NoneAssumption, BoundsAssumption
    DEF TypeOK, Requests, Kernels, EventKinds, Sites, Outcomes, HostPoints, WorkerStates
<1>1. Init => TypeOK
  <2> SUFFICES ASSUME Init PROVE TypeOK
    OBVIOUS
  <2>1. /\ edition \in [Graphs -> 0..MaxEditions]
        /\ telemetry \in [EventKinds -> Nat]
        /\ fallbackCounts \in [Sites -> Nat]
    BY DEF Init
  <2>2. worker \in [state: WorkerStates, job: Requests, kernel: Kernels \union {NoRealization}]
    BY DEF Init
  <2>3. reply \in [asked: Tiers, executed: Tiers, ran: Kernels \union {NoRealization},
                   wanted: Kernels \union {NoRealization}]
    BY DEF Init
  <2> QED
    BY <2>1, <2>2, <2>3 DEF Init
<1>2. TypeOK /\ [Next]_vars => TypeOK'
  <2> SUFFICES ASSUME TypeOK, [Next]_vars PROVE TypeOK'
    OBVIOUS
  <2>1. ASSUME NEW r \in Requests, Execute(r) PROVE TypeOK'
    BY <2>1 DEF Execute, threadVars, sharedVars, historyVars
  <2>2. ASSUME NEW r \in Requests, RequestAsyncCompile(r) PROVE TypeOK'
    BY <2>2 DEF RequestAsyncCompile, threadVars, sharedVars, historyVars
  <2>3. ASSUME Destroy PROVE TypeOK'
    BY <2>3 DEF Destroy, threadVars, sharedVars, historyVars
  <2>4. ASSUME CompileBegin PROVE TypeOK'
    BY <2>4 DEF CompileBegin, Record, threadVars, historyVars
  <2>5. ASSUME NEW o \in Outcomes, CompileEnd(o) PROVE TypeOK'
    BY <2>5 DEF CompileEnd, KernelOf, threadVars
  <2>6. ASSUME Install PROVE TypeOK'
    BY <2>6 DEF Install, threadVars, historyVars
  <2>7. ASSUME Reload PROVE TypeOK'
    BY <2>7 DEF Reload, Record, threadVars, historyVars
  <2>8. ASSUME NEW ok \in BOOLEAN, RunKernel(ok) PROVE TypeOK'
    BY <2>8 DEF RunKernel, Return, Record, KernelOf, threadVars, historyVars
  <2>9. ASSUME Interpret PROVE TypeOK'
    BY <2>9 DEF Interpret, Return, KernelOf, threadVars, sharedVars
  <2>10. ASSUME JoinPending PROVE TypeOK'
    BY <2>10 DEF JoinPending, sharedVars, historyVars
  <2>11. ASSUME Spawn PROVE TypeOK'
    <3>1. worker' \in [state: WorkerStates, job: Requests, kernel: Kernels \union {NoRealization}]
      BY <2>11 DEF Spawn
    <3> QED
      BY <2>11, <3>1 DEF Spawn, sharedVars, historyVars
  <2>12. ASSUME DestroyEnd PROVE TypeOK'
    BY <2>12 DEF DestroyEnd, threadVars, sharedVars, historyVars
  <2>13. ASSUME WorkerBegin PROVE TypeOK'
    BY <2>13 DEF WorkerBegin, Record, hostVars, historyVars
  <2>14. ASSUME NEW o \in Outcomes, WorkerEnd(o) PROVE TypeOK'
    <3>1. KernelOf(worker.job) \in Kernels
      BY DEF KernelOf
    <3>2. CASE o = "ok"
      <4>1. worker' \in [state: WorkerStates, job: Requests, kernel: Kernels \union {NoRealization}]
        BY <2>14, <3>1, <3>2, ZenonT(40) DEF WorkerEnd
      <4> QED
        BY <2>14, <3>1, <3>2, <4>1 DEF WorkerEnd, hostVars
    <3>3. CASE o # "ok"
      <4>1. /\ worker' \in [state: WorkerStates, job: Requests, kernel: Kernels \union {NoRealization}]
            /\ telemetry' \in [EventKinds -> Nat]
        BY <2>14, <3>3 DEF WorkerEnd
      <4> QED
        BY <2>14, <3>3, <4>1 DEF WorkerEnd, hostVars
    <3> QED
      BY <3>2, <3>3
  <2>15. ASSUME WorkerInstall PROVE TypeOK'
    BY <2>15 DEF WorkerInstall, hostVars
  <2>16. ASSUME WorkerRecord PROVE TypeOK'
    BY <2>16 DEF WorkerRecord, Record, hostVars, historyVars
  <2>17. ASSUME WorkerExit PROVE TypeOK'
    BY <2>17, ZenonT(40) DEF WorkerExit, hostVars, sharedVars, historyVars
  <2>18. ASSUME Cancel \/ ResetCancel PROVE TypeOK'
    BY <2>18, ZenonT(40) DEF Cancel, ResetCancel, hostVars, threadVars, historyVars
  <2>19. ASSUME NEW g \in Graphs, EditGraph(g) PROVE TypeOK'
    <3>1. edition' \in [Graphs -> 0..MaxEditions]
      BY <2>19 DEF EditGraph
    <3> QED
      BY <2>19, <3>1 DEF EditGraph, hostVars, threadVars, historyVars
  <2>20. ASSUME UNCHANGED vars PROVE TypeOK'
    BY <2>20 DEF vars, hostVars, threadVars, sharedVars, historyVars
  <2> QED
    BY <2>1, <2>2, <2>3, <2>4, <2>5, <2>6, <2>7, <2>8, <2>9, <2>10, <2>11, <2>12,
       <2>13, <2>14, <2>15, <2>16, <2>17, <2>18, <2>19, <2>20
    DEF Next, HostCall, HostStep, WorkerStep, Environment
<1> QED
  BY <1>1, <1>2

\* Type correctness: every reachable state is well typed, for any graphs,
\* tiers and bounds.
THEOREM TypeCorrect == Spec => []TypeOK
<1>1. Init => TypeOK
  BY TypeInductive
<1>2. TypeOK /\ [Next]_vars => TypeOK'
  BY TypeInductive
<1> QED
  BY <1>1, <1>2, PTL DEF Spec

-----------------------------------------------------------------------------
(***************************************************************************)
(* The inductive invariant. HonestTier alone is not inductive: it says     *)
(* nothing of the kernel the worker has built and not yet installed, nor   *)
(* of the kernel the host is about to publish.                             *)
(***************************************************************************)
Provenance ==
  /\ HonestTier
  /\ worker.state = "built" => worker.kernel \in succeeded
  /\ pc = "install" => realization # NoRealization /\ realization.tier = request.tier
  /\ pc = "reload" => current # NoRealization
  /\ pc \in {"compile", "refused", "compiling", "install", "reload", "run"} =>
       request.tier # 0

\* Threads: worker_ owns a thread exactly while that thread is not joined, and
\* workerActive_ is set until the thread is done.
Ownership ==
  /\ joinable <=> worker.state # "none"
  /\ ~workerActive => worker.state \in {"none", "exited"}
  /\ JoinSkippedOnlyWhenDone

\* The fallback the call in progress is bound to end in: already recorded, or
\* forced by a realization the worker has installed behind the host's back.
Debt == IF \/ pc = "interpret" /\ request.tier # 0
           \/ pc = "reload" /\ current.tier # request.tier
        THEN 1 ELSE 0

Accounting == degraded + Debt <= telemetry["Fallback"] + overtakes

IInv == TypeOK /\ Provenance /\ Ownership /\ Accounting

\* A step keeps every published, held or reported kernel complete and of the
\* tier that is claimed for it.
LEMMA ProvenanceInductive ==
  /\ Init => Provenance
  /\ TypeOK /\ Provenance /\ [Next]_vars => Provenance'
<1> USE DEF Provenance, HonestTier
<1>1. Init => Provenance
  BY DEF Init
<1>2. TypeOK /\ Provenance /\ [Next]_vars => Provenance'
  <2> SUFFICES ASSUME TypeOK, Provenance, [Next]_vars PROVE Provenance'
    OBVIOUS
  <2> USE NoneAssumption DEF TypeOK, Requests, Kernels
  <2>1. ASSUME NEW r \in Requests, Execute(r) PROVE Provenance'
    BY <2>1 DEF Execute, NeedCompile, threadVars, sharedVars, historyVars
  <2>2. ASSUME NEW r \in Requests, RequestAsyncCompile(r) PROVE Provenance'
    BY <2>2 DEF RequestAsyncCompile, threadVars, sharedVars, historyVars
  <2>3. ASSUME Destroy PROVE Provenance'
    BY <2>3 DEF Destroy, threadVars, sharedVars, historyVars
  <2>4. ASSUME CompileBegin PROVE Provenance'
    BY <2>4 DEF CompileBegin, Record, threadVars, historyVars
  <2>5. ASSUME NEW o \in Outcomes, CompileEnd(o) PROVE Provenance'
    BY <2>5 DEF CompileEnd, KernelOf, threadVars
  <2>6. ASSUME Install PROVE Provenance'
    BY <2>6 DEF Install, threadVars, historyVars
  <2>7. ASSUME Reload PROVE Provenance'
    BY <2>7 DEF Reload, Record, NeedCompile, threadVars, historyVars
  <2>8. ASSUME NEW ok \in BOOLEAN, RunKernel(ok) PROVE Provenance'
    BY <2>8 DEF RunKernel, Return, Record, threadVars, historyVars
  <2>9. ASSUME Interpret PROVE Provenance'
    BY <2>9 DEF Interpret, Return, threadVars, sharedVars
  <2>10. ASSUME JoinPending PROVE Provenance'
    BY <2>10 DEF JoinPending, sharedVars, historyVars
  <2>11. ASSUME Spawn PROVE Provenance'
    BY <2>11 DEF Spawn, sharedVars, historyVars
  <2>12. ASSUME DestroyEnd PROVE Provenance'
    BY <2>12 DEF DestroyEnd, threadVars, sharedVars, historyVars
  <2>13. ASSUME WorkerBegin PROVE Provenance'
    BY <2>13 DEF WorkerBegin, Record, hostVars, historyVars
  <2>14. ASSUME NEW o \in Outcomes, WorkerEnd(o) PROVE Provenance'
    BY <2>14 DEF WorkerEnd, KernelOf, hostVars
  <2>15. ASSUME WorkerInstall PROVE Provenance'
    BY <2>15 DEF WorkerInstall, hostVars
  <2>16. ASSUME WorkerRecord PROVE Provenance'
    BY <2>16 DEF WorkerRecord, Record, hostVars, historyVars
  <2>17. ASSUME WorkerExit PROVE Provenance'
    BY <2>17 DEF WorkerExit, hostVars, sharedVars, historyVars
  <2>18. ASSUME Cancel PROVE Provenance'
    BY <2>18 DEF Cancel, hostVars, threadVars, historyVars
  <2>19. ASSUME ResetCancel PROVE Provenance'
    BY <2>19 DEF ResetCancel, hostVars, threadVars, historyVars
  <2>20. ASSUME NEW g \in Graphs, EditGraph(g) PROVE Provenance'
    BY <2>20 DEF EditGraph, hostVars, threadVars, historyVars
  <2>21. ASSUME UNCHANGED vars PROVE Provenance'
    BY <2>21 DEF vars, hostVars, threadVars, sharedVars, historyVars
  <2> QED
    BY <2>1, <2>2, <2>3, <2>4, <2>5, <2>6, <2>7, <2>8, <2>9, <2>10, <2>11,
       <2>12, <2>13, <2>14, <2>15, <2>16, <2>17, <2>18, <2>19, <2>20, <2>21
    DEF Next, HostCall, HostStep, WorkerStep, Environment
<1> QED
  BY <1>1, <1>2

\* worker_ is joinable exactly while its thread has not been joined, and the
\* flag says whether the thread is done.
LEMMA OwnershipInductive ==
  /\ Init => Ownership
  /\ TypeOK /\ Ownership /\ [Next]_vars => Ownership'
<1> USE DEF Ownership, JoinSkippedOnlyWhenDone
<1>1. Init => Ownership
  BY DEF Init
<1>2. TypeOK /\ Ownership /\ [Next]_vars => Ownership'
  <2> SUFFICES ASSUME TypeOK, Ownership, [Next]_vars PROVE Ownership'
    OBVIOUS
  <2> USE DEF TypeOK, WorkerStates, Requests
  <2>1. ASSUME NEW r \in Requests, Execute(r) PROVE Ownership'
    BY <2>1 DEF Execute, NeedCompile, threadVars, sharedVars, historyVars
  <2>2. ASSUME NEW r \in Requests, RequestAsyncCompile(r) PROVE Ownership'
    BY <2>2 DEF RequestAsyncCompile, threadVars, sharedVars, historyVars
  <2>3. ASSUME Destroy PROVE Ownership'
    BY <2>3 DEF Destroy, threadVars, sharedVars, historyVars
  <2>4. ASSUME CompileBegin PROVE Ownership'
    BY <2>4 DEF CompileBegin, Record, threadVars, historyVars
  <2>5. ASSUME NEW o \in Outcomes, CompileEnd(o) PROVE Ownership'
    BY <2>5 DEF CompileEnd, KernelOf, threadVars
  <2>6. ASSUME Install PROVE Ownership'
    BY <2>6 DEF Install, threadVars, historyVars
  <2>7. ASSUME Reload PROVE Ownership'
    BY <2>7 DEF Reload, Record, NeedCompile, threadVars, historyVars
  <2>8. ASSUME NEW ok \in BOOLEAN, RunKernel(ok) PROVE Ownership'
    BY <2>8 DEF RunKernel, Return, Record, threadVars, historyVars
  <2>9. ASSUME Interpret PROVE Ownership'
    BY <2>9 DEF Interpret, Return, threadVars, sharedVars
  <2>10. ASSUME JoinPending PROVE Ownership'
    BY <2>10 DEF JoinPending, sharedVars, historyVars
  <2>11. ASSUME Spawn PROVE Ownership'
    BY <2>11 DEF Spawn, sharedVars, historyVars
  <2>12. ASSUME DestroyEnd PROVE Ownership'
    BY <2>12 DEF DestroyEnd, threadVars, sharedVars, historyVars
  <2>13. ASSUME WorkerBegin PROVE Ownership'
    BY <2>13 DEF WorkerBegin, Record, hostVars, historyVars
  <2>14. ASSUME NEW o \in Outcomes, WorkerEnd(o) PROVE Ownership'
    BY <2>14 DEF WorkerEnd, KernelOf, hostVars
  <2>15. ASSUME WorkerInstall PROVE Ownership'
    BY <2>15 DEF WorkerInstall, hostVars
  <2>16. ASSUME WorkerRecord PROVE Ownership'
    BY <2>16 DEF WorkerRecord, Record, hostVars, historyVars
  <2>17. ASSUME WorkerExit PROVE Ownership'
    BY <2>17 DEF WorkerExit, hostVars, sharedVars, historyVars
  <2>18. ASSUME Cancel PROVE Ownership'
    BY <2>18 DEF Cancel, hostVars, threadVars, historyVars
  <2>19. ASSUME ResetCancel PROVE Ownership'
    BY <2>19 DEF ResetCancel, hostVars, threadVars, historyVars
  <2>20. ASSUME NEW g \in Graphs, EditGraph(g) PROVE Ownership'
    BY <2>20 DEF EditGraph, hostVars, threadVars, historyVars
  <2>21. ASSUME UNCHANGED vars PROVE Ownership'
    BY <2>21 DEF vars, hostVars, threadVars, sharedVars, historyVars
  <2> QED
    BY <2>1, <2>2, <2>3, <2>4, <2>5, <2>6, <2>7, <2>8, <2>9, <2>10, <2>11,
       <2>12, <2>13, <2>14, <2>15, <2>16, <2>17, <2>18, <2>19, <2>20, <2>21
    DEF Next, HostCall, HostStep, WorkerStep, Environment
<1> QED
  BY <1>1, <1>2

\* The ledger of degraded answers balances.
LEMMA AccountingInductive ==
  /\ Init => Accounting
  /\ TypeOK /\ Provenance /\ Accounting /\ [Next]_vars => Accounting'
<1> USE DEF Accounting, Debt
<1>1. Init => Accounting
  BY DEF Init, EventKinds
<1>2. TypeOK /\ Provenance /\ Accounting /\ [Next]_vars => Accounting'
  <2> SUFFICES ASSUME TypeOK, Provenance, Accounting, [Next]_vars PROVE Accounting'
    OBVIOUS
  <2> USE DEF TypeOK, EventKinds, Provenance
  <2>1. ASSUME NEW r \in Requests, Execute(r) PROVE Accounting'
    BY <2>1 DEF Execute, NeedCompile, threadVars, sharedVars, historyVars
  <2>2. ASSUME NEW r \in Requests, RequestAsyncCompile(r) PROVE Accounting'
    BY <2>2 DEF RequestAsyncCompile, threadVars, sharedVars, historyVars
  <2>3. ASSUME Destroy PROVE Accounting'
    BY <2>3 DEF Destroy, threadVars, sharedVars, historyVars
  <2>4. ASSUME CompileBegin PROVE Accounting'
    BY <2>4 DEF CompileBegin, Record, threadVars, historyVars
  <2>5. ASSUME NEW o \in Outcomes, CompileEnd(o) PROVE Accounting'
    BY <2>5 DEF CompileEnd, KernelOf, threadVars
  <2>6. ASSUME Install PROVE Accounting'
    BY <2>6 DEF Install, threadVars, historyVars
  <2>7. ASSUME Reload PROVE Accounting'
    BY <2>7 DEF Reload, Record, NeedCompile, threadVars, historyVars
  <2>8. ASSUME NEW ok \in BOOLEAN, RunKernel(ok) PROVE Accounting'
    BY <2>8 DEF RunKernel, Return, Record, threadVars, historyVars
  <2>9. ASSUME Interpret PROVE Accounting'
    BY <2>9 DEF Interpret, Return, threadVars, sharedVars
  <2>10. ASSUME JoinPending PROVE Accounting'
    BY <2>10 DEF JoinPending, sharedVars, historyVars
  <2>11. ASSUME Spawn PROVE Accounting'
    BY <2>11 DEF Spawn, sharedVars, historyVars
  <2>12. ASSUME DestroyEnd PROVE Accounting'
    BY <2>12 DEF DestroyEnd, threadVars, sharedVars, historyVars
  <2>13. ASSUME WorkerBegin PROVE Accounting'
    BY <2>13 DEF WorkerBegin, Record, hostVars, historyVars
  <2>14. ASSUME NEW o \in Outcomes, WorkerEnd(o) PROVE Accounting'
    BY <2>14 DEF WorkerEnd, KernelOf, hostVars
  <2>15. ASSUME WorkerInstall PROVE Accounting'
    BY <2>15 DEF WorkerInstall, hostVars
  <2>16. ASSUME WorkerRecord PROVE Accounting'
    BY <2>16 DEF WorkerRecord, Record, hostVars, historyVars
  <2>17. ASSUME WorkerExit PROVE Accounting'
    BY <2>17 DEF WorkerExit, hostVars, sharedVars, historyVars
  <2>18. ASSUME Cancel PROVE Accounting'
    BY <2>18 DEF Cancel, hostVars, threadVars, historyVars
  <2>19. ASSUME ResetCancel PROVE Accounting'
    BY <2>19 DEF ResetCancel, hostVars, threadVars, historyVars
  <2>20. ASSUME NEW g \in Graphs, EditGraph(g) PROVE Accounting'
    BY <2>20 DEF EditGraph, hostVars, threadVars, historyVars
  <2>21. ASSUME UNCHANGED vars PROVE Accounting'
    BY <2>21 DEF vars, hostVars, threadVars, sharedVars, historyVars
  <2> QED
    BY <2>1, <2>2, <2>3, <2>4, <2>5, <2>6, <2>7, <2>8, <2>9, <2>10, <2>11,
       <2>12, <2>13, <2>14, <2>15, <2>16, <2>17, <2>18, <2>19, <2>20, <2>21
    DEF Next, HostCall, HostStep, WorkerStep, Environment
<1> QED
  BY <1>1, <1>2

\* The four parts together hold at the start and are kept by every step.
LEMMA Inductive ==
  /\ Init => IInv
  /\ IInv /\ [Next]_vars => IInv'
BY TypeInductive, ProvenanceInductive, OwnershipInductive, AccountingInductive DEF IInv

\* So they hold at every point of a service of calls.
LEMMA InductiveInvariant == Spec => []IInv
<1>1. Init => IInv
  BY Inductive
<1>2. IInv /\ [Next]_vars => IInv'
  BY Inductive
<1> QED
  BY <1>1, <1>2, PTL DEF Spec

\* No call ever returns, and nothing ever publishes, a kernel that was not
\* completely compiled or is not of the tier the reply claims.
THEOREM TierHonesty == Spec => []HonestTier
<1>1. IInv => HonestTier
  BY DEF IInv, Provenance
<1> QED
  BY <1>1, InductiveInvariant, PTL

\* A host that destroys the engine or replaces its worker, joining or not,
\* finds the worker done with the engine.
THEOREM WorkerContained == Spec => []JoinSkippedOnlyWhenDone
<1>1. IInv => JoinSkippedOnlyWhenDone
  BY DEF IInv, Ownership
<1> QED
  BY <1>1, InductiveInvariant, PTL

\* Silent fallbacks are bounded by the realizations the worker installs.
THEOREM FallbacksAccounted == Spec => []FallbackAccounting
<1>1. IInv => FallbackAccounting
  BY DEF IInv, Accounting, Debt, TypeOK, EventKinds, FallbackAccounting
<1> QED
  BY <1>1, InductiveInvariant, PTL

-----------------------------------------------------------------------------
\* The engine implements the abstract service of TieredService: every step of
\* either thread is a step of the service or invisible to the caller.
THEOREM Implementation == Spec => ImplementsService
<1> USE DEF Service!vars, Phase
<1>1. Init => Service!Init
  BY DEF Init, Service!Init, Service!Interpreted
<1>2. IInv /\ [Next]_vars => [Service!Next]_(Service!vars)
  <2> SUFFICES ASSUME IInv, [Next]_vars PROVE [Service!Next]_(Service!vars)
    OBVIOUS
  <2> USE DEF IInv, TypeOK
  <2>1. ASSUME NEW r \in Requests, Execute(r) PROVE Service!Next
    <3>1. Service!Serve(r)
      BY <2>1 DEF Execute, Service!Serve, historyVars
    <3> QED
      BY <3>1 DEF Service!Next
  <2>2. ASSUME NEW r \in Requests, RequestAsyncCompile(r) PROVE Service!Next
    <3>1. Service!Serve(r)
      BY <2>2 DEF RequestAsyncCompile, Service!Serve, historyVars
    <3> QED
      BY <3>1 DEF Service!Next
  <2>3. ASSUME Destroy PROVE Service!Next
    <3>1. Service!Serve(request)
      BY <2>3 DEF Destroy, Service!Serve, historyVars
    <3> QED
      BY <3>1 DEF Service!Next
  <2>4. ASSUME NEW o \in Outcomes, CompileEnd(o) PROVE [Service!Next]_(Service!vars)
    <3>1. CASE o = "ok"
      <4>1. KernelOf(request) \in Kernels
        BY DEF KernelOf, Requests, Kernels
      <4>2. Service!Build(KernelOf(request))
        BY <2>4, <3>1 DEF CompileEnd, Service!Build
      <4> QED
        BY <4>1, <4>2 DEF Service!Next
    <3>2. CASE o # "ok"
      BY <2>4, <3>2 DEF CompileEnd
    <3> QED
      BY <3>1, <3>2
  <2>5. ASSUME NEW ok \in BOOLEAN, RunKernel(ok) PROVE [Service!Next]_(Service!vars)
    <3>1. CASE ok
      <4>1. realization \in succeeded /\ realization.tier = request.tier
        BY <2>5 DEF RunKernel, Provenance, HonestTier
      <4>2. Service!AnswerCompiled(realization)
        BY <2>5, <3>1, <4>1 DEF RunKernel, Return, Service!AnswerCompiled, historyVars
      <4> QED
        BY <4>1, <4>2 DEF Service!Next
    <3>2. CASE ~ok
      BY <2>5, <3>2 DEF RunKernel, Record, historyVars
    <3> QED
      BY <3>1, <3>2
  <2>6. ASSUME Interpret PROVE Service!Next
    <3>1. Service!AnswerInterpreted
      BY <2>6 DEF Interpret, Return, Service!AnswerInterpreted, Service!Interpreted
    <3> QED
      BY <3>1 DEF Service!Next
  <2>7. ASSUME Spawn \/ DestroyEnd PROVE Service!Next
    <3>1. Service!Dismiss
      BY <2>7 DEF Spawn, DestroyEnd, Service!Dismiss, historyVars
    <3> QED
      BY <3>1 DEF Service!Next
  <2>8. ASSUME NEW o \in Outcomes, WorkerEnd(o) PROVE [Service!Next]_(Service!vars)
    <3>1. CASE o = "ok"
      <4>1. KernelOf(worker.job) \in Kernels
        BY DEF KernelOf, Requests, Kernels
      <4>2. Service!Build(KernelOf(worker.job))
        BY <2>8, <3>1 DEF WorkerEnd, Service!Build, hostVars
      <4> QED
        BY <4>1, <4>2 DEF Service!Next
    <3>2. CASE o # "ok"
      BY <2>8, <3>2 DEF WorkerEnd, hostVars
    <3> QED
      BY <3>1, <3>2
  <2>9. ASSUME CompileBegin \/ Install \/ Reload \/ JoinPending
        PROVE  UNCHANGED Service!vars
    BY <2>9 DEF CompileBegin, Install, Reload, JoinPending, historyVars
  <2>10. ASSUME WorkerBegin \/ WorkerInstall \/ WorkerRecord \/ WorkerExit \/ Environment
         PROVE  UNCHANGED Service!vars
    BY <2>10 DEF WorkerBegin, WorkerInstall, WorkerRecord, WorkerExit, Environment, Cancel,
                 ResetCancel, EditGraph, hostVars, historyVars
  <2>11. ASSUME UNCHANGED vars PROVE UNCHANGED Service!vars
    BY <2>11 DEF vars, hostVars, historyVars
  <2> QED
    BY <2>1, <2>2, <2>3, <2>4, <2>5, <2>6, <2>7, <2>8, <2>9, <2>10, <2>11
    DEF Next, HostCall, HostStep, WorkerStep
<1> QED
  BY <1>1, <1>2, InductiveInvariant, PTL DEF Spec, ImplementsService, Service!Spec
=============================================================================
