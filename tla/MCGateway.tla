------------------------------ MODULE MCGateway ------------------------------
(* Instances of Gateway for TLC: a chain of three slots.  The parent of slot 3
   is 1, not the slot before, and the update of slot 2 names no parent. *)
EXTENDS Gateway, TLC

CONSTANTS t1, t2, t3

MCTxSlot == (t1 :> 2) @@ (t2 :> 3) @@ (t3 :> 3)
MCParent == <<0, NoSlot, 1>>

=============================================================================
