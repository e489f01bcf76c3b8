--------------------------- MODULE MCRv32Instret ---------------------------
(* The instruction counter with the programs of MCPrograms.                *)
EXTENDS Rv32Instret, MCPrograms
=============================================================================
