------------------------------- MODULE Breaker -------------------------------
(***************************************************************************)
(* What a circuit breaker promises its callers, whatever the language it   *)
(* is written in: it opens only after FailureThreshold failures with no    *)
(* success between them, lets probes through only once it has been left    *)
(* alone for the recovery timeout, closes only after SuccessThreshold      *)
(* successes of the probing period, and never admits more than probes      *)
(* calls in one.                                                           *)
(***************************************************************************)
EXTENDS Naturals

CONSTANTS FailureThreshold, SuccessThreshold

VARIABLES
  state,      \* "closed", "open" or "half_open"
  run,        \* failures since the last success, while closed
  good,       \* successes of this probing period
  admitted,   \* calls admitted in this probing period
  cool,       \* the recovery timeout has passed since the last failure
  probes      \* calls a probing period may admit, fixed

counts == <<run, good, admitted>>
vars == <<state, counts, cool, probes>>

Init ==
  /\ state = "closed" /\ run = 0 /\ good = 0 /\ admitted = 0
  /\ cool = FALSE /\ probes \in Nat

Pass == state = "closed" /\ UNCHANGED vars

Failure ==
  /\ state = "closed" /\ cool' = FALSE
  /\ run' = run + 1
  /\ state' = IF run + 1 >= FailureThreshold THEN "open" ELSE "closed"
  /\ UNCHANGED <<good, admitted, probes>>

Success == state = "closed" /\ run' = 0 /\ UNCHANGED <<state, good, admitted, cool, probes>>

LateFailure == state = "open" /\ cool' = FALSE /\ UNCHANGED <<state, counts, probes>>

Cool == cool' = TRUE /\ UNCHANGED <<state, counts, probes>>

StartProbing ==
  /\ state = "open" /\ cool
  /\ state' = "half_open" /\ good' = 0 /\ admitted' = 1
  /\ UNCHANGED <<run, cool, probes>>

Probe ==
  /\ state = "half_open" /\ admitted < probes
  /\ admitted' = admitted + 1
  /\ UNCHANGED <<state, run, good, cool, probes>>

ProbeFailed ==
  /\ state = "half_open"
  /\ state' = "open" /\ cool' = FALSE
  /\ UNCHANGED <<counts, probes>>

ProbeSucceeded ==
  /\ state = "half_open"
  /\ good' = good + 1
  /\ IF good + 1 >= SuccessThreshold
     THEN state' = "closed" /\ run' = 0
     ELSE UNCHANGED <<state, run>>
  /\ UNCHANGED <<admitted, cool, probes>>

Next ==
  \/ Pass \/ Failure \/ Success \/ LateFailure \/ Cool
  \/ StartProbing \/ Probe \/ ProbeFailed \/ ProbeSucceeded

Spec == Init /\ [][Next]_vars
=============================================================================
