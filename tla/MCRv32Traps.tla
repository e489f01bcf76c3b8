---------------------------- MODULE MCRv32Traps ----------------------------
(* The interpreter with the programs of MCPrograms.                        *)
EXTENDS Rv32Traps, MCPrograms
=============================================================================
