--------------------------- MODULE MCLocalLimiter ---------------------------
(* Instances of LocalLimiter for TLC. *)
EXTENDS LocalLimiter, TLC

Symmetric == Permutations(Requests) \cup Permutations(Limiters)

=============================================================================
