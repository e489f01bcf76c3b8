------------------------------ MODULE MCFields ------------------------------
(* Instruction words around all zeros, all ones and both alternations.     *)
EXTENDS Fields
MCBases == {[k \in 0 .. 3 |-> b] : b \in {0, 255, 85, 170}}
=============================================================================
