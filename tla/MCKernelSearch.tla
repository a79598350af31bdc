------------------------------ MODULE MCKernelSearch ------------------------------
(* Instances of KernelSearch for TLC: two searches over the same graph, of which *)
(* "skewed" is a variant that computes something else.                           *)
EXTENDS KernelSearch

MCFingerprint == [k \in Kernels |-> IF k = "tiled" THEN "t" ELSE "u"]
MCComputes == [k \in Kernels |-> IF k = "skewed" THEN "other" ELSE "answer"]
MCExpected == [r \in Runs |-> "answer"]

Variant(kernel, native, threads) == [kernel |-> kernel, native |-> native, threads |-> threads]

MCSpace ==
  [r \in Runs |->
     IF r = "bench" THEN <<Variant("tiled", TRUE, 0), Variant("untiled", FALSE, 1), Variant("skewed", FALSE, 1)>>
     ELSE <<Variant("untiled", TRUE, 0), Variant("tiled", TRUE, 0), Variant("untiled", FALSE, 5)>>]
MCMaxLives == [r \in Runs |-> IF r = "bench" THEN 2 ELSE 1]

\* A kernel with the fingerprint of another one.
MCColliding ==
  [r \in Runs |->
     IF r = "bench" THEN <<Variant("untiled", TRUE, 0)>> ELSE <<Variant("skewed", TRUE, 0)>>]

MCBudget ==
  [r \in Runs |->
     [mode |-> IF r = "bench" THEN "bounded" ELSE "amortized",
      base |-> 1, extraMax |-> 1, threshold |-> 2, alpha |-> 1, executions |-> 2]]
MCBaselineRuntime == [r \in Runs |-> IF r = "bench" THEN 0 ELSE 2]
MCRuntimes == [r \in Runs |-> IF r = "bench" THEN {1, 2} ELSE {1}]
MCBuildTimes == [r \in Runs |-> IF r = "bench" THEN {1, 2} ELSE {1}]
=============================================================================
