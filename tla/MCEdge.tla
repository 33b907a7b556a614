------------------------------- MODULE MCEdge -------------------------------
(* Instances of Edge for TLC. *)
EXTENDS Edge, TLC

Symmetric == Permutations(Requests)

(* No guard of Edge reads lastError. *)
ViewWithoutLastError ==
  <<healthy, inflight, failures, circuit, counter, requestVars, probe, up, faults>>

=============================================================================
