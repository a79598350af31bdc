---------------------------- MODULE TieredService ----------------------------
(***************************************************************************)
(* What the execution engine promises its caller, without threads,         *)
(* telemetry or publication: calls are served one at a time, every served  *)
(* call is answered at most once, and an answer comes either from the      *)
(* interpreter (tier 0, always possible) or from a kernel of exactly the   *)
(* requested tier whose compilation has succeeded. Kernels only accumulate.*)
(***************************************************************************)
EXTENDS Naturals

CONSTANTS Requests, Kernels, NoKernel

VARIABLES
  phase,      \* "ready", "serving", or "stopped"
  asked,      \* the request being served, or the last one
  answer,     \* the tier of the last answer and the kernel that gave it
  available   \* kernels that exist

vars == <<phase, asked, answer, available>>

Interpreted == [executed |-> 0, ran |-> NoKernel]

Init ==
  /\ phase = "ready"
  /\ asked \in Requests
  /\ answer = Interpreted
  /\ available = {}

Serve(r) ==
  /\ phase = "ready"
  /\ phase' = "serving"
  /\ asked' = r
  /\ UNCHANGED <<answer, available>>

Build(k) ==
  /\ available' = available \union {k}
  /\ UNCHANGED <<phase, asked, answer>>

AnswerInterpreted ==
  /\ phase = "serving"
  /\ phase' = "ready"
  /\ answer' = Interpreted
  /\ UNCHANGED <<asked, available>>

AnswerCompiled(k) ==
  /\ phase = "serving"
  /\ k.tier = asked.tier
  /\ phase' = "ready"
  /\ answer' = [executed |-> k.tier, ran |-> k]
  /\ UNCHANGED <<asked, available>>

\* A call that is not a request for a result (a background compilation, the
\* end of the service) is served without an answer.
Dismiss ==
  /\ phase = "serving"
  /\ phase' \in {"ready", "stopped"}
  /\ UNCHANGED <<asked, answer, available>>

Next ==
  \/ \E r \in Requests : Serve(r)
  \/ \E k \in Kernels : Build(k)
  \/ AnswerInterpreted
  \/ \E k \in available : AnswerCompiled(k)
  \/ Dismiss

Spec == Init /\ [][Next]_vars
=============================================================================
