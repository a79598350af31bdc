------------------------------- MODULE MCEGraph -------------------------------
(* Instances of EGraphSaturation for TLC: small expressions over one input.  *)
EXTENDS EGraphSaturation

Input       == [kind |-> "placeholder", payload |-> 1]
Constant(c) == [kind |-> "constant", payload |-> c]

MCUnits    == <<Input, Constant(0), Constant(1)>>
MCSquares  == <<Input, Constant(1), Constant(2)>>
MCZero     == <<Input, Constant(0)>>
MCOne      == <<Input, Constant(1)>>
=============================================================================
