-------------------------- MODULE ParallelLoopProofs --------------------------
(***************************************************************************)
(* For every loop, every number of iterations and of threads: no iteration *)
(* is run twice, a loop that reports success has run them all, and the     *)
(* error reported is the one a sequential loop would report.               *)
(*                                                                         *)
(* The chunks partition the iterations (ChunksDisjoint, ChunksCover). The  *)
(* invariant ties what a thread has run to its position in its chunk, and  *)
(* its way of ending to that position.                                     *)
(***************************************************************************)
EXTENDS ParallelLoop, TLAPS

-----------------------------------------------------------------------------
(***************************************************************************)
(* Arithmetic of the decomposition.                                        *)
(***************************************************************************)

\* Rounding the length of a chunk up leaves no iteration without a chunk.
LEMMA CeilingCovers ==
  ASSUME NEW n \in Nat, NEW k \in Nat \ {0}
  PROVE  /\ (n + k - 1) \div k \in Nat
         /\ n <= k * ((n + k - 1) \div k)
         /\ n > 0 => (n + k - 1) \div k > 0
<1> DEFINE q == (n + k - 1) \div k
           r == (n + k - 1) % k
<1>1. q \in Int /\ r \in 0 .. k - 1 /\ n + k - 1 = k * q + r
  OBVIOUS
<1>2. n <= k * q
  <2> HIDE DEF q, r
  <2> QED BY <1>1
<1>3. q >= 0
  <2> SUFFICES ASSUME q <= -1 PROVE FALSE
    BY <1>1
  <2>1. k * q <= -k
    <3> HIDE DEF q, r
    <3> QED BY <1>1
  <2> HIDE DEF q, r
  <2> QED BY <2>1, <1>1, <1>2
<1>4. n > 0 => q > 0
  <2> HIDE DEF q, r
  <2> QED BY <1>1, <1>2, <1>3
<1> QED BY <1>1, <1>2, <1>3, <1>4

\* Chunks follow one another.
LEMMA ChunksApart ==
  ASSUME NEW a \in Nat, NEW b \in Nat, NEW l \in Nat, a < b
  PROVE  a * l + l <= b * l
<1> DEFINE k == b - a - 1
<1>1. k \in Nat /\ b = a + 1 + k
  OBVIOUS
<1>2. k * l \in Nat
  BY <1>1
<1>3. b * l = a * l + l + k * l
  <2> HIDE DEF k
  <2> QED BY <1>1
<1> QED
  <2> HIDE DEF k
  <2> QED BY <1>2, <1>3

\* Every number has its chunk.
LEMMA OwnChunk ==
  ASSUME NEW i \in Nat, NEW l \in Nat \ {0}
  PROVE  /\ i \div l \in Nat
         /\ (i \div l) * l <= i
         /\ i < (i \div l) * l + l
<1> DEFINE q == i \div l
           r == i % l
<1>1. q \in Int /\ r \in 0 .. l - 1 /\ i = l * q + r
  OBVIOUS
<1>2. q >= 0
  <2> SUFFICES ASSUME q <= -1 PROVE FALSE
    BY <1>1
  <2>1. l * q <= -l
    <3> HIDE DEF q, r
    <3> QED BY <1>1
  <2> HIDE DEF q, r
  <2> QED BY <2>1, <1>1
<1> QED
  <2> HIDE DEF q, r
  <2>1. q * l = l * q
    BY <1>1
  <2>2. q \in Nat /\ q * l <= i /\ i < q * l + l
    BY <1>1, <1>2, <2>1
  <2> QED BY <2>2 DEF q

-----------------------------------------------------------------------------
(***************************************************************************)
(* What the arithmetic says of a loop.                                     *)
(***************************************************************************)

LEMMA LoopShape ==
  ASSUME NEW c \in Calls
  PROVE  /\ c.trip \in Nat /\ c.kind \in Kinds /\ c.faulty \subseteq Nat
         /\ c.kind # "nest" => c.faulty = {}
         /\ Threads(c) \in Nat \ {0}
         /\ Chunk(c) \in Nat
         /\ c.trip <= Threads(c) * Chunk(c)
         /\ c.trip > 0 => Chunk(c) > 0
<1>1. /\ c \in [kind: Kinds, trip: Nat, width: Nat \ {0}, threads: Int,
                faulty: SUBSET Nat, bound: BOOLEAN]
      /\ c.kind # "nest" => c.faulty = {}
  BY CallsAssumption
<1>2. Threads(c) \in Nat \ {0}
  BY <1>1, ThreadsAssumption DEF Threads, Asked, Capped, Lesser
<1>3. /\ Chunk(c) \in Nat
      /\ c.trip <= Threads(c) * Chunk(c)
      /\ c.trip > 0 => Chunk(c) > 0
  BY <1>1, <1>2, CeilingCovers DEF Chunk
<1> QED BY <1>1, <1>2, <1>3

\* The interval of a thread: within the trip count, and no longer than a chunk.
LEMMA ChunkShape ==
  ASSUME NEW c \in Calls, NEW t \in Nat
  PROVE  /\ Begin(c, t) \in Nat /\ End(c, t) \in Nat
         /\ End(c, t) <= Begin(c, t) + Chunk(c)
         /\ End(c, t) <= c.trip
         /\ End(c, t) = c.trip \/ End(c, t) = Begin(c, t) + Chunk(c)
<1>1. Chunk(c) \in Nat /\ c.trip \in Nat
  BY LoopShape
<1>2. t * Chunk(c) \in Nat
  BY <1>1
<1> QED BY <1>1, <1>2 DEF Begin, End, Lesser

\* A later chunk begins where an earlier one has ended, or after it.
LEMMA ChunksDisjoint ==
  ASSUME NEW c \in Calls, NEW t \in Nat, NEW u \in Nat, t < u
  PROVE  /\ Begin(c, t) + Chunk(c) <= Begin(c, u)
         /\ End(c, t) <= Begin(c, u)
<1>1. Chunk(c) \in Nat
  BY LoopShape
<1>2. Begin(c, t) + Chunk(c) <= Begin(c, u)
  BY <1>1, ChunksApart DEF Begin
<1> QED BY <1>1, <1>2, ChunkShape

\* Every iteration is in the chunk of some thread.
LEMMA ChunksCover ==
  ASSUME NEW c \in Calls, NEW i \in Iterations(c)
  PROVE  \E t \in Workers(c) : Begin(c, t) <= i /\ i < End(c, t)
<1> DEFINE l == Chunk(c)
           t == i \div l
<1>1. /\ c.trip \in Nat /\ Threads(c) \in Nat \ {0} /\ i \in Nat /\ i < c.trip
      /\ l \in Nat \ {0} /\ c.trip <= Threads(c) * l
  BY LoopShape DEF Iterations
<1>2. t \in Nat /\ t * l <= i /\ i < t * l + l
  BY <1>1, OwnChunk
<1> HIDE DEF t
<1>3. t < Threads(c)
  <2> SUFFICES ASSUME Threads(c) <= t PROVE FALSE
    BY <1>1, <1>2
  <2>1. Threads(c) * l <= t * l
    <3>1. CASE Threads(c) = t
      BY <3>1, <1>1, <1>2
    <3>2. CASE Threads(c) < t
      <4>1. Threads(c) * l + l <= t * l
        BY <3>2, <1>1, <1>2, ChunksApart
      <4>2. Threads(c) * l \in Nat /\ t * l \in Nat
        BY <1>1, <1>2
      <4> QED BY <4>1, <4>2, <1>1
    <3> QED BY <3>1, <3>2, <1>1, <1>2
  <2>2. Threads(c) * l \in Nat /\ t * l \in Nat
    BY <1>1, <1>2
  <2> QED BY <2>1, <2>2, <1>1, <1>2
<1>4. t \in Workers(c)
  BY <1>1, <1>2, <1>3 DEF Workers
<1>5. Begin(c, t) = t * l /\ t * l \in Nat
  BY <1>1, <1>2 DEF Begin
<1>6. Begin(c, t) <= i /\ i < End(c, t)
  BY <1>1, <1>2, <1>5 DEF End, Lesser
<1> QED BY <1>4, <1>6

\* Once a chunk is empty, so are those after it.
LEMMA RestEmpty ==
  ASSUME NEW c \in Calls, NEW t \in Nat, NEW u \in Nat, t <= u,
         Begin(c, t) >= End(c, t)
  PROVE  Begin(c, u) >= c.trip
<1>1. Chunk(c) \in Nat /\ c.trip \in Nat /\ (c.trip > 0 => Chunk(c) > 0)
  BY LoopShape
<1>2. Begin(c, t) \in Nat /\ Begin(c, u) \in Nat
  BY ChunkShape
<1>3. Begin(c, t) >= c.trip
  BY <1>1, <1>2, ChunkShape
<1>4. CASE t = u
  BY <1>3, <1>4
<1>5. CASE t < u
  BY <1>1, <1>2, <1>3, <1>5, ChunksDisjoint
<1> QED BY <1>4, <1>5

-----------------------------------------------------------------------------
(***************************************************************************)
(* The inductive invariant.                                                *)
(***************************************************************************)

\* The threads started are the first ones; the others have no work.
Started ==
  /\ \A t \in Workers(call) : (worker[t] = "unborn") <=> (t >= spawned)
  /\ \A t \in Workers(call) : t < spawned => Begin(call, t) < End(call, t)
  /\ pc # "spawning" =>
       spawned = Threads(call) \/ Begin(call, spawned) >= End(call, spawned)

\* What has been run of a chunk is what lies before the thread's position.
RunToPosition ==
  \A t \in Workers(call) : \A i \in Iterations(call) :
    Begin(call, t) <= i /\ i < End(call, t) =>
      /\ runs[i] = IF i < pos[t] THEN 1 ELSE 0
      /\ i < pos[t] => i \notin call.faulty

\* How a thread has ended, by its slot.
Endings ==
  \A t \in Workers(call) :
    /\ worker[t] # "returned" => slot[t] = "fine"
    /\ worker[t] = "unborn" => pos[t] = Begin(call, t)
    /\ worker[t] # "unborn" => pos[t] <= End(call, t)
    /\ slot[t] = "fault" => pos[t] \in call.faulty /\ pos[t] < End(call, t)
    /\ slot[t] = "cancelled" => cancelled
    /\ worker[t] = "returned" /\ slot[t] = "fine" =>
         pos[t] = End(call, t) \/ Skipped \/ (cancelled /\ call.kind # "nest")

\* What the caller has waited for.
Joined == pc \in {"joined", "done"} => \A t \in Workers(call) : worker[t] # "running"

Unreported == pc # "done" => result.outcome = "none"

IInv ==
  /\ TypeOK /\ Started /\ RunToPosition /\ Endings
  /\ Joined /\ Unreported /\ OkMeansComplete /\ FirstFaultReported

\* The state predicates over one loop, as facts for the steps below.
LEMMA Shapes ==
  ASSUME TypeOK
  PROVE  /\ call \in Calls /\ spawned \in Nat
         /\ Threads(call) \in Nat \ {0} /\ Chunk(call) \in Nat /\ call.trip \in Nat
         /\ spawned <= Threads(call)
         /\ Begin(call, spawned) \in Nat /\ End(call, spawned) \in Nat
         /\ End(call, spawned) <= Begin(call, spawned) + Chunk(call)
         /\ \A t \in Workers(call) :
              /\ t \in Nat /\ t < Threads(call)
              /\ Begin(call, t) \in Nat /\ End(call, t) \in Nat
              /\ End(call, t) <= Begin(call, t) + Chunk(call)
              /\ End(call, t) <= call.trip
              /\ pos[t] \in Nat
         /\ \A t \in Nat : t < Threads(call) => t \in Workers(call)
         /\ \A i \in Iterations(call) : i \in Nat /\ i < call.trip /\ runs[i] \in Nat
         /\ \A i \in Nat : i < call.trip => i \in Iterations(call)
<1>1. call \in Calls /\ spawned \in 0 .. Threads(call) /\ pos \in [Workers(call) -> Nat]
      /\ runs \in [Iterations(call) -> Nat]
  BY DEF TypeOK
<1>2. Threads(call) \in Nat \ {0} /\ Chunk(call) \in Nat /\ call.trip \in Nat
  BY <1>1, LoopShape
<1>3. spawned \in Nat /\ spawned <= Threads(call)
  BY <1>1, <1>2
<1>4. \A t \in Workers(call) : t \in Nat /\ t < Threads(call)
  BY <1>2 DEF Workers
<1>5. \A t \in Nat : t < Threads(call) => t \in Workers(call)
  BY <1>2 DEF Workers
<1>6. \A i : i \in Iterations(call) <=> i \in Nat /\ i < call.trip
  BY <1>2 DEF Iterations
<1>7. \A i \in Iterations(call) : runs[i] \in Nat
  BY <1>1
<1>8. \A t \in Nat : /\ Begin(call, t) \in Nat /\ End(call, t) \in Nat
                     /\ End(call, t) <= Begin(call, t) + Chunk(call)
                     /\ End(call, t) <= call.trip
  BY <1>1, ChunkShape
<1> QED BY <1>1, <1>2, <1>3, <1>4, <1>5, <1>6, <1>7, <1>8

\* Before the first call nothing runs.
LEMMA InitInv == Init => IInv
<1> SUFFICES ASSUME Init PROVE IInv
  OBVIOUS
<1> USE DEF Init
<1>1. /\ call \in Calls /\ Threads(call) \in Nat \ {0} /\ Chunk(call) \in Nat
  BY LoopShape
<1>2. \A t \in Workers(call) : t \in Nat /\ Begin(call, t) \in Nat /\ pos[t] = Begin(call, t)
  BY <1>1, ChunkShape DEF Workers
<1>3. TypeOK
  <2>1. \A t \in Workers(call) : pos[t] \in Begin(call, t) .. Begin(call, t) + Chunk(call)
    BY <1>1, <1>2
  <2>2. 0 \in 0 .. Threads(call)
    BY <1>1
  <2> QED BY <1>1, <1>2, <2>1, <2>2 DEF TypeOK
<1>4. Started
  BY <1>1, <1>2 DEF Started
<1>5. RunToPosition
  BY <1>2 DEF RunToPosition, Iterations
<1>6. Endings
  BY <1>2 DEF Endings
<1>7. Joined /\ Unreported /\ OkMeansComplete /\ FirstFaultReported
  BY DEF Joined, Unreported, OkMeansComplete, FirstFaultReported
<1> QED BY <1>3, <1>4, <1>5, <1>6, <1>7 DEF IInv

-----------------------------------------------------------------------------
(***************************************************************************)
(* The steps of the caller.                                                *)
(***************************************************************************)

LEMMA SpawnInv == IInv /\ Spawn => IInv'
<1> SUFFICES ASSUME IInv, Spawn PROVE IInv'
  OBVIOUS
<1>1. TypeOK /\ Started /\ RunToPosition /\ Endings /\ Unreported
  BY DEF IInv
<1> DEFINE s == spawned
<1>2. s \in Workers(call) /\ s \in Nat /\ worker[s] = "unborn"
  BY <1>1, Shapes DEF Spawn, Started
<1>3. TypeOK'
  <2>1. spawned' \in 0 .. Threads(call)
    BY <1>1, Shapes DEF Spawn
  <2> QED BY <1>1, <1>2, <2>1 DEF TypeOK, Spawn
<1>4. Started'
  BY <1>1, <1>2, Shapes DEF TypeOK, Started, Spawn
<1>5. RunToPosition'
  BY <1>1 DEF RunToPosition, Spawn
<1>6. Endings'
  BY <1>1, <1>2, Shapes DEF TypeOK, Endings, Spawn, Skipped
<1>7. (Joined /\ Unreported /\ OkMeansComplete /\ FirstFaultReported)'
  BY <1>1 DEF Joined, Unreported, OkMeansComplete, FirstFaultReported, Spawn
<1> QED BY <1>3, <1>4, <1>5, <1>6, <1>7 DEF IInv

\* The caller has started its workers.
LEMMA EndSpawningInv == IInv /\ EndSpawning => IInv'
<1> SUFFICES ASSUME IInv, EndSpawning PROVE IInv'
  OBVIOUS
<1>1. TypeOK /\ Started /\ RunToPosition /\ Endings /\ Unreported
  BY DEF IInv
<1>2. TypeOK'
  BY <1>1 DEF TypeOK, EndSpawning
<1>3. Started' /\ RunToPosition' /\ Endings'
  BY <1>1 DEF Started, RunToPosition, Endings, EndSpawning, Skipped
<1>4. (Joined /\ Unreported /\ OkMeansComplete /\ FirstFaultReported)'
  BY <1>1 DEF Joined, Unreported, OkMeansComplete, FirstFaultReported, EndSpawning
<1> QED BY <1>2, <1>3, <1>4 DEF IInv

\* The caller waits for one worker more.
LEMMA JoinInv == IInv /\ Join => IInv'
<1> SUFFICES ASSUME IInv, Join PROVE IInv'
  OBVIOUS
<1>1. TypeOK /\ Started /\ RunToPosition /\ Endings /\ Unreported
  BY DEF IInv
<1>2. TypeOK'
  BY <1>1 DEF TypeOK, Join
<1>3. Started' /\ RunToPosition' /\ Endings'
  BY <1>1 DEF Started, RunToPosition, Endings, Join, Skipped
<1>4. (Joined /\ Unreported /\ OkMeansComplete /\ FirstFaultReported)'
  BY <1>1 DEF Joined, Unreported, OkMeansComplete, FirstFaultReported, Join
<1> QED BY <1>2, <1>3, <1>4 DEF IInv

\* With no failure and no cancellation every chunk has been run to its end.
LEMMA ReportEndInv == IInv /\ ReportEnd => IInv'
<1> SUFFICES ASSUME IInv, ReportEnd PROVE IInv'
  OBVIOUS
<1>1. TypeOK /\ Started /\ RunToPosition /\ Endings /\ Joined
  BY DEF IInv
<1>2. TypeOK'
  BY <1>1 DEF TypeOK, ReportEnd, Report
<1>3. Started' /\ RunToPosition' /\ Endings'
  BY <1>1 DEF Started, RunToPosition, Endings, ReportEnd, Report, Skipped
<1>4. (Joined /\ Unreported /\ FirstFaultReported)'
  BY <1>1 DEF Joined, Unreported, FirstFaultReported, ReportEnd, Report
<1>5. ASSUME ~cancelled, ~Skipped, NEW i \in Iterations(call)
      PROVE  runs[i] = 1 /\ i \notin call.faulty
  <2>1. call \in Calls /\ i \in Nat /\ i < call.trip
    BY <1>1, Shapes
  <2>2. PICK t \in Workers(call) : Begin(call, t) <= i /\ i < End(call, t)
    BY <2>1, ChunksCover
  <2>3. t < spawned
    <3> SUFFICES ASSUME spawned <= t PROVE FALSE
      BY <1>1, Shapes
    <3>1. spawned \in Nat /\ t \in Nat /\ t < Threads(call) /\ Begin(call, t) \in Nat
      BY <1>1, Shapes
    <3>2. Begin(call, spawned) >= End(call, spawned)
      BY <1>1, <3>1 DEF Started, ReportEnd, Report
    <3>3. Begin(call, t) >= call.trip
      BY <2>1, <3>1, <3>2, RestEmpty
    <3> QED BY <1>1, <2>1, <2>2, <3>1, <3>3, Shapes
  <2>4. worker[t] # "unborn"
    BY <1>1, <2>3, Shapes DEF Started
  <2>5. worker[t] = "returned" /\ slot[t] = "fine"
    BY <1>1, <2>4 DEF TypeOK, Joined, ReportEnd, Report, Failed
  <2>6. pos[t] = End(call, t)
    BY <1>1, <1>5, <2>5 DEF Endings
  <2> QED BY <1>1, <2>2, <2>6 DEF RunToPosition
<1>6. OkMeansComplete'
  BY <1>5 DEF OkMeansComplete, ReportEnd, Report, Skipped
<1> QED BY <1>2, <1>3, <1>4, <1>6 DEF IInv

\* Before the first failed thread every chunk has been run to its end; in its
\* own, every iteration before its position.
LEMMA ReportFailureInv ==
  ASSUME IInv, NEW t \in Workers(call), ReportFailure(t)
  PROVE  IInv'
<1>1. TypeOK /\ Started /\ RunToPosition /\ Endings /\ Joined
  BY DEF IInv
<1>2. TypeOK'
  BY <1>1 DEF TypeOK, ReportFailure, First, Failed, Report
<1>3. Started' /\ RunToPosition' /\ Endings'
  BY <1>1 DEF Started, RunToPosition, Endings, ReportFailure, Report, Skipped
<1>4. slot[t] \in {"cancelled", "fault"}
  BY <1>1 DEF TypeOK, ReportFailure, First, Failed
<1>5. (Joined /\ Unreported /\ OkMeansComplete)'
  BY <1>1, <1>4 DEF Joined, Unreported, OkMeansComplete, ReportFailure, Report
<1>6. ASSUME slot[t] = "fault", NEW i \in call.faulty, i < pos[t], i \in Iterations(call)
      PROVE  FALSE
  <2>1. /\ call \in Calls /\ i \in Nat /\ t \in Nat
        /\ Begin(call, t) \in Nat /\ End(call, t) \in Nat /\ pos[t] \in Nat
    BY <1>1, <1>6, Shapes
  <2>2. PICK u \in Workers(call) : Begin(call, u) <= i /\ i < End(call, u)
    BY <1>6, <2>1, ChunksCover
  <2>3. /\ u \in Nat /\ Begin(call, u) \in Nat /\ End(call, u) \in Nat
        /\ pos[t] < End(call, t)
    BY <1>1, <1>6, Shapes DEF Endings
  <2>4. CASE t < u
    <3>1. End(call, t) <= Begin(call, u)
      BY <2>1, <2>3, <2>4, ChunksDisjoint
    <3> QED BY <1>6, <2>1, <2>2, <2>3, <3>1
  <2>5. CASE t = u
    BY <1>1, <1>6, <2>2, <2>5 DEF RunToPosition
  <2>6. CASE u < t
    <3>1. worker[t] # "unborn"
      BY <1>1, <1>6 DEF Endings
    <3>2. worker[u] # "unborn"
      BY <1>1, <2>1, <2>3, <2>6, <3>1, Shapes DEF Started
    <3>3. slot[u] = "fine"
      BY <2>1, <2>3, <2>6 DEF ReportFailure, First, Failed
    <3>4. worker[u] = "returned"
      BY <1>1, <3>2 DEF TypeOK, Joined, ReportFailure, Report
    <3>5. call.kind = "nest"
      BY <1>6, <2>1, LoopShape
    <3>6. pos[u] = End(call, u)
      BY <1>1, <3>3, <3>4, <3>5 DEF Endings, Skipped
    <3> QED BY <1>1, <1>6, <2>2, <3>6 DEF RunToPosition
  <2> QED BY <2>1, <2>3, <2>4, <2>5, <2>6
<1>7. FirstFaultReported'
  <2>1. CASE slot[t] = "fault"
    <3>1. result'.outcome = "fault" /\ result'.at = pos[t] /\ call' = call
      BY <2>1 DEF ReportFailure, Report
    <3>2. pos[t] \in call.faulty
      BY <1>1, <2>1 DEF Endings
    <3> QED BY <1>6, <2>1, <3>1, <3>2 DEF FirstFaultReported
  <2>2. CASE slot[t] # "fault"
    BY <2>2 DEF FirstFaultReported, ReportFailure, Report
  <2> QED BY <2>1, <2>2
<1> QED BY <1>2, <1>3, <1>5, <1>7 DEF IInv

-----------------------------------------------------------------------------
(***************************************************************************)
(* The steps of the threads and of whoever cancels.                        *)
(***************************************************************************)

\* The iteration a thread runs is in no other thread's chunk.
LEMMA IterateInv ==
  ASSUME IInv, NEW t \in Workers(call), Iterate(t)
  PROVE  IInv'
<1>1. /\ TypeOK /\ Started /\ RunToPosition /\ Endings /\ Joined /\ Unreported
      /\ worker[t] = "running"
  BY DEF IInv, Iterate
<1> DEFINE p == pos[t]
<1>2. /\ call \in Calls /\ t \in Nat /\ p \in Nat
      /\ Begin(call, t) \in Nat /\ End(call, t) \in Nat
      /\ Begin(call, t) <= p /\ p < End(call, t)
      /\ p + 1 <= Begin(call, t) + Chunk(call) /\ Chunk(call) \in Nat
      /\ p \in Iterations(call) /\ runs[p] \in Nat /\ p \notin call.faulty
  <2>1. call \in Calls /\ t \in Nat /\ p \in Nat /\ Chunk(call) \in Nat
        /\ Begin(call, t) \in Nat /\ End(call, t) \in Nat /\ call.trip \in Nat
        /\ End(call, t) <= Begin(call, t) + Chunk(call) /\ End(call, t) <= call.trip
    BY <1>1, Shapes
  <2>2. p \in Begin(call, t) .. Begin(call, t) + Chunk(call) /\ p < End(call, t)
        /\ p \notin call.faulty
    BY <1>1 DEF TypeOK, Iterate
  <2>3. p \in Iterations(call)
    BY <1>1, <2>1, <2>2, Shapes
  <2> QED BY <1>1, <2>1, <2>2, <2>3, Shapes
<1>3. /\ call' = call /\ pc' = pc /\ spawned' = spawned /\ worker' = worker
      /\ slot' = slot /\ cancelled' = cancelled /\ result' = result
      /\ runs' = [runs EXCEPT ![p] = runs[p] + 1]
      /\ pos' = [pos EXCEPT ![t] = p + 1]
  BY DEF Iterate
<1>4. runs[p] = 0
  BY <1>1, <1>2 DEF RunToPosition
<1> HIDE DEF p
<1>5. TypeOK'
  <2>1. p + 1 \in Nat /\ p + 1 \in Begin(call, t) .. Begin(call, t) + Chunk(call)
    BY <1>2
  <2>2. pos' \in [Workers(call) -> Nat]
    BY <1>1, <1>3, <2>1 DEF TypeOK
  <2>3. \A u \in Workers(call) : pos'[u] \in Begin(call, u) .. Begin(call, u) + Chunk(call)
    BY <1>1, <1>3, <2>1 DEF TypeOK
  <2>4. runs' \in [Iterations(call) -> Nat]
    BY <1>1, <1>2, <1>3 DEF TypeOK
  <2> QED BY <1>1, <1>3, <2>2, <2>3, <2>4 DEF TypeOK
<1>6. Started'
  BY <1>1, <1>3 DEF Started
<1>7. RunToPosition'
  <2> SUFFICES ASSUME NEW u \in Workers(call), NEW i \in Iterations(call),
                      Begin(call, u) <= i, i < End(call, u)
               PROVE  /\ runs'[i] = IF i < pos'[u] THEN 1 ELSE 0
                      /\ i < pos'[u] => i \notin call.faulty
    BY <1>3 DEF RunToPosition
  <2>1. /\ u \in Nat /\ i \in Nat /\ pos[u] \in Nat /\ Begin(call, u) \in Nat
        /\ End(call, u) \in Nat /\ runs[i] \in Nat
        /\ runs[i] = IF i < pos[u] THEN 1 ELSE 0
        /\ i < pos[u] => i \notin call.faulty
    BY <1>1, Shapes DEF RunToPosition
  <2>2. CASE u = t
    <3>1. pos'[u] = p + 1 /\ pos[u] = p
      BY <1>1, <1>3, <2>2 DEF TypeOK, p
    <3>2. CASE i = p
      <4>1. runs'[i] = 1
        BY <1>1, <1>3, <1>4, <3>2 DEF TypeOK
      <4> QED BY <1>2, <3>1, <3>2, <4>1
    <3>3. CASE i # p
      <4>1. runs'[i] = runs[i]
        BY <1>1, <1>3, <3>3 DEF TypeOK
      <4> QED BY <1>2, <2>1, <3>1, <3>3, <4>1
    <3> QED BY <3>2, <3>3
  <2>3. CASE u # t
    <3>1. pos'[u] = pos[u]
      BY <1>1, <1>3, <2>3 DEF TypeOK
    <3>2. i # p
      <4>1. CASE u < t
        BY <1>2, <2>1, <4>1, ChunksDisjoint
      <4>2. CASE t < u
        BY <1>2, <2>1, <4>2, ChunksDisjoint
      <4> QED BY <1>2, <2>1, <2>3, <4>1, <4>2
    <3>3. runs'[i] = runs[i]
      BY <1>1, <1>3, <3>2 DEF TypeOK
    <3> QED BY <2>1, <3>1, <3>3
  <2> QED BY <2>2, <2>3
<1>8. Endings'
  <2> SUFFICES ASSUME NEW u \in Workers(call) PROVE
        /\ worker[u] # "returned" => slot[u] = "fine"
        /\ worker[u] = "unborn" => pos'[u] = Begin(call, u)
        /\ worker[u] # "unborn" => pos'[u] <= End(call, u)
        /\ slot[u] = "fault" => pos'[u] \in call.faulty /\ pos'[u] < End(call, u)
        /\ slot[u] = "cancelled" => cancelled
        /\ worker[u] = "returned" /\ slot[u] = "fine" =>
             pos'[u] = End(call, u) \/ Skipped \/ (cancelled /\ call.kind # "nest")
    BY <1>3 DEF Endings, Skipped
  <2>1. CASE u = t
    <3>1. pos'[u] = p + 1 /\ p + 1 <= End(call, u) /\ worker[u] = "running" /\ slot[u] = "fine"
      BY <1>1, <1>2, <1>3, <2>1 DEF TypeOK, Endings
    <3> QED BY <3>1
  <2>2. CASE u # t
    <3>1. pos'[u] = pos[u]
      BY <1>1, <1>3, <2>2 DEF TypeOK
    <3> QED BY <1>1, <3>1 DEF Endings
  <2> QED BY <2>1, <2>2
<1>9. (Joined /\ Unreported)'
  BY <1>1, <1>3 DEF Joined, Unreported
<1>10. pc # "done"
  BY <1>1 DEF Joined
<1>11. (OkMeansComplete /\ FirstFaultReported)'
  BY <1>1, <1>3, <1>10 DEF Unreported, OkMeansComplete, FirstFaultReported
<1> QED BY <1>5, <1>6, <1>7, <1>8, <1>9, <1>11 DEF IInv

\* The three ways a thread returns leave its position and what has been run.
LEMMA ReturnInv ==
  ASSUME IInv, NEW t \in Workers(call), Fail(t) \/ Stop(t) \/ Finish(t)
  PROVE  IInv'
<1>1. /\ TypeOK /\ Started /\ RunToPosition /\ Endings /\ Joined /\ Unreported
      /\ worker[t] = "running"
  BY DEF IInv, Fail, Stop, Finish
<1>2. /\ call' = call /\ pc' = pc /\ spawned' = spawned /\ pos' = pos
      /\ runs' = runs /\ cancelled' = cancelled /\ result' = result
      /\ worker' = [worker EXCEPT ![t] = "returned"]
  BY DEF Fail, Stop, Finish
<1>3. /\ \A u \in Workers(call) : u # t => slot'[u] = slot[u]
      /\ slot' \in [Workers(call) -> {"fine", "cancelled", "fault"}]
      /\ slot'[t] = "fault" => pos[t] \in call.faulty /\ pos[t] < End(call, t)
      /\ slot'[t] = "cancelled" => cancelled
      /\ slot'[t] = "fine" =>
           pos[t] = End(call, t) \/ Skipped \/ (cancelled /\ call.kind # "nest")
  <2>1. slot[t] = "fine" /\ slot \in [Workers(call) -> {"fine", "cancelled", "fault"}]
    BY <1>1 DEF TypeOK, Endings
  <2>2. CASE Fail(t)
    BY <2>1, <2>2 DEF Fail
  <2>3. CASE Stop(t)
    BY <2>1, <2>3 DEF Stop, Interrupted
  <2>4. CASE Finish(t)
    BY <2>1, <2>4 DEF Finish
  <2> QED BY <2>2, <2>3, <2>4
<1>4. TypeOK'
  BY <1>1, <1>2, <1>3 DEF TypeOK
<1>5. Started'
  BY <1>1, <1>2 DEF Started, TypeOK
<1>6. RunToPosition'
  BY <1>1, <1>2 DEF RunToPosition
<1>7. Endings'
  BY <1>1, <1>2, <1>3 DEF Endings, TypeOK, Skipped
<1>8. pc \notin {"joined", "done"}
  BY <1>1 DEF Joined
<1>9. (Joined /\ Unreported /\ OkMeansComplete /\ FirstFaultReported)'
  BY <1>1, <1>2, <1>8 DEF Joined, Unreported, OkMeansComplete, FirstFaultReported
<1> QED BY <1>4, <1>5, <1>6, <1>7, <1>9 DEF IInv

\* A worker that was started in vain.
LEMMA CancelInv == IInv /\ Cancel => IInv'
<1> SUFFICES ASSUME IInv, Cancel PROVE IInv'
  OBVIOUS
<1>1. TypeOK /\ Started /\ RunToPosition /\ Endings /\ Joined /\ Unreported
  BY DEF IInv
<1>2. TypeOK'
  BY <1>1 DEF TypeOK, Cancel
<1>3. Started' /\ RunToPosition' /\ Endings'
  BY <1>1 DEF Started, RunToPosition, Endings, Cancel, Skipped
<1>4. (Joined /\ Unreported /\ OkMeansComplete /\ FirstFaultReported)'
  BY <1>1 DEF Joined, Unreported, OkMeansComplete, FirstFaultReported, Cancel
<1> QED BY <1>2, <1>3, <1>4 DEF IInv

\* Nothing changes.
LEMMA StutterInv == IInv /\ UNCHANGED vars => IInv'
<1> SUFFICES ASSUME IInv, UNCHANGED vars PROVE IInv'
  OBVIOUS
<1> USE DEF vars
<1>1. TypeOK'
  BY DEF IInv, TypeOK
<1>2. Started' /\ RunToPosition' /\ Endings'
  BY DEF IInv, Started, RunToPosition, Endings, Skipped
<1>3. (Joined /\ Unreported /\ OkMeansComplete /\ FirstFaultReported)'
  BY DEF IInv, Joined, Unreported, OkMeansComplete, FirstFaultReported, Skipped
<1> QED BY <1>1, <1>2, <1>3 DEF IInv

\* Every step of the caller and of the workers keeps the invariant.
LEMMA Inductive == IInv /\ [Next]_vars => IInv'
<1> SUFFICES ASSUME IInv, [Next]_vars PROVE IInv'
  OBVIOUS
<1>1. CASE CallerStep
  BY <1>1, SpawnInv, EndSpawningInv, JoinInv, ReportEndInv, ReportFailureInv DEF CallerStep
<1>2. CASE SomeWorkerStep
  BY <1>2, IterateInv, ReturnInv DEF SomeWorkerStep, WorkerStep
<1>3. CASE Cancel
  BY <1>3, CancelInv
<1>4. CASE UNCHANGED vars
  BY <1>4, StutterInv
<1> QED BY <1>1, <1>2, <1>3, <1>4 DEF Next

\* So it holds at every point of any calls.
LEMMA Invariance == Spec => []IInv
BY InitInv, Inductive, PTL DEF Spec

-----------------------------------------------------------------------------
(***************************************************************************)
(* What holds of every loop.                                               *)
(***************************************************************************)

\* Every variable keeps its type and every thread its chunk.
THEOREM TypeCorrect == Spec => []TypeOK
<1>1. IInv => TypeOK
  BY DEF IInv
<1> QED BY <1>1, Invariance, PTL

\* No iteration is run by two threads, or twice by one
\* (kernel_buffers.cpp:449).
THEOREM NothingRunTwice == Spec => []RunOnce
<1>1. IInv => RunOnce
  <2> SUFFICES ASSUME IInv, NEW i \in Iterations(call) PROVE runs[i] <= 1
    BY DEF RunOnce
  <2>1. call \in Calls
    BY DEF IInv, TypeOK
  <2>2. PICK t \in Workers(call) : Begin(call, t) <= i /\ i < End(call, t)
    BY <2>1, ChunksCover
  <2> QED BY <2>2 DEF IInv, RunToPosition
<1> QED BY <1>1, Invariance, PTL

\* A loop that reports success has run every iteration without error.
THEOREM SuccessIsComplete == Spec => []OkMeansComplete
<1>1. IInv => OkMeansComplete
  BY DEF IInv
<1> QED BY <1>1, Invariance, PTL

\* The error reported is that of the first faulty iteration
\* (kernel_buffers.cpp:460).
THEOREM FirstFaultWins == Spec => []FirstFaultReported
<1>1. IInv => FirstFaultReported
  BY DEF IInv
<1> QED BY <1>1, Invariance, PTL
=============================================================================
