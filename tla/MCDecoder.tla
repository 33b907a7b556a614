------------------------------ MODULE MCDecoder ------------------------------
(* Instances of Decoder for TLC. *)
EXTENDS Decoder, TLC

CONSTANTS p1, p2, d1, d2

Symmetric == Permutations(Decoders)

=============================================================================
