--------------------------- MODULE MCGraphRewriting ---------------------------
(* Instances of CompilePipeline for TLC: one placeholder, a scalar, and the  *)
(* constants that the rewrites of the run look at.                           *)
EXTENDS CompilePipeline

Input       == [kind |-> "placeholder", payload |-> 1]
Constant(c) == [kind |-> "constant", payload |-> c]

MCInput  == <<Input>>
MCUnit   == <<Input, Constant(1)>>
MCSquare == <<Input, Constant(2)>>
MCMinus  == <<Input, Constant(MinusOne)>>
MCInputs == {<<3>>}
=============================================================================
