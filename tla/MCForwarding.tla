---------------------------- MODULE MCForwarding ----------------------------
(* Instances of Forwarding for TLC. *)
EXTENDS Forwarding, TLC

MCKinds ==
  {[method |-> "GET", body |-> "none"], [method |-> "GET", body |-> "chunked"],
   [method |-> "GET", body |-> "sized"], [method |-> "POST", body |-> "chunked"],
   [method |-> "POST", body |-> "large"]}

Symmetric == Permutations(Requests) \cup Permutations(Backends)

=============================================================================
