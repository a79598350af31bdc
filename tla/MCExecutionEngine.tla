-------------------------- MODULE MCExecutionEngine --------------------------
(* Model-checking instance of ExecutionEngine: the graphs are               *)
(* interchangeable.                                                         *)
EXTENDS ExecutionEngine, TLC

GraphSymmetry == Permutations(Graphs)
=============================================================================
