-------------------------------- MODULE Gate --------------------------------
(***************************************************************************)
(* What a circuit breaker promises the requests that ask it: a gate seen   *)
(* from outside, without its counters and time stamps, as operators on a   *)
(* gate and as the state machine of one gate.  CircuitBreaker is shown to  *)
(* implement that machine, and RequestPipeline moves a gate for every      *)
(* account and family with the operators.                                  *)
(*                                                                         *)
(*   closed    every request passes                                        *)
(*   cooling   no request passes until the reset timeout is over           *)
(*   ready     the next request passes, as a probe                         *)
(*   probing   a probe holds the slot; no request passes                   *)
(***************************************************************************)
EXTENDS Naturals

VARIABLE gate

GateStates == {"closed", "cooling", "ready", "probing"}

Admits(g) == g \in {"closed", "ready"}

\* Where an admitted request leaves the gate.
AfterAdmission(g) == IF g = "ready" THEN "probing" ELSE g

\* A verdict may come from a request admitted in an earlier state.  A ready gate
\* is an open breaker past its timeout, which ignores verdicts, or a half-open
\* one whose probe was given up, which takes them.
AfterSuccess(g) ==
  IF g = "cooling" THEN {g} ELSE IF g = "ready" THEN {g, "closed"} ELSE {"closed"}

\* A closed gate trips when the failures in its window reach the threshold.
AfterFailure(g) ==
  IF g \in {"closed", "ready"} THEN {g, "cooling"} ELSE {"cooling"}

\* The reset timeout ends a cooldown, and gives up on a probe that never reported.
AfterTime(g) == IF g \in {"cooling", "probing"} THEN "ready" ELSE g

-----------------------------------------------------------------------------
(* One gate.  A gate that cools never closes or probes before its timeout, *)
(* a probe is only sent through a ready gate, and a gate that refuses      *)
(* becomes ready.                                                          *)
Init == gate = "closed"

Admit == Admits(gate) /\ gate' = AfterAdmission(gate)

Succeed == gate' \in AfterSuccess(gate)

Fail == gate' \in AfterFailure(gate)

Wait == gate' = AfterTime(gate)

Next == Admit \/ Succeed \/ Fail \/ Wait

Spec == Init /\ [][Next]_gate

\* It is not refused for ever.
FairSpec == Spec /\ WF_gate(Wait)
=============================================================================
