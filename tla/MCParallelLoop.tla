---------------------------- MODULE MCParallelLoop ----------------------------
(* Model-checking instance of ParallelLoop: trips around the multiples of the *)
(* thread counts, up to two faulty iterations of a nest.                      *)
EXTENDS ParallelLoop, FiniteSets

CONSTANTS MaxTrip, ThreadParameters, Bound

Loop(k, n, w, h, f, b) ==
  [kind |-> k, trip |-> n, width |-> w, threads |-> h, faulty |-> f, bound |-> b]

Faults(n) == {f \in SUBSET (0 .. n - 1) : Cardinality(f) <= 2}

MCCalls ==
  {Loop("nest", n, w, h, f, TRUE) :
     n \in 0 .. MaxTrip, w \in {1}, h \in ThreadParameters, f \in Faults(MaxTrip)}
  \union {Loop("nest", 2, 2, h, {}, TRUE) : h \in ThreadParameters}
  \union {Loop("rows", n, 2, h, {}, TRUE) : n \in 0 .. MaxTrip, h \in ThreadParameters}
  \union {Loop("elementwise", n, 1, h, {}, b) :
            n \in 0 .. MaxTrip, h \in ThreadParameters, b \in Bound}
=============================================================================
