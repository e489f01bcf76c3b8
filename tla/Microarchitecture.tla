-------------------------- MODULE Microarchitecture --------------------------
(***************************************************************************)
(* The two descriptions of the microarchitecture side by side: what the    *)
(* CPU does in four clocks is what the simulator does in one step.         *)
(***************************************************************************)
EXTENDS GlacialRTL

CONSTANT Or(_, _)        (* of a byte and one shifted to the left of it      *)

ASSUME OrAssumption == \A a, b \in Byte : Or(a, b * 256) = a + b * 256

(* The simulator's pc and carry are those with which the instruction       *)
(* began: the CPU moves them on before its last phase.  All else changes   *)
(* at the end of it.                                                       *)
Sim == INSTANCE SimG WITH
  memory <- mem, pc <- 2 * begun.pc, return_address <- 2 * ret, accumulator <- ac,
  carry <- begun.cy, ext_int_pending <- in.xint, tick_pending <- tick, line <- uart_tx

(* Where the two differ, and no program of the repository goes: a rotation *)
(* combined with addapc (the CPU adds the accumulator it had before), the  *)
(* operations of a serial interface, words the decoder does not know, y    *)
(* and pc beyond their width in the CPU.                                   *)
Described ==
  /\ Sim!Matching(ir) # {}
  /\ Opr(5) => ~Opr(7)
  /\ ~Opr(10) /\ ~Opr(11)
  /\ postinc /\ Bit(ir, 0) = 1 => y < 65535
  /\ pc_sel = "inc" => pc < 2047
  /\ pc_sel = "add_a" => pc + ac < 2048
  /\ begun.pc < 2047

(* Every instruction has on the CPU the effect it has in the simulator, on *)
(* which the microcode is tested, whatever the phases in which its parts   *)
(* are done, and no phase before the last has any.                         *)
AsSimulated ==
  [][~in.reset /\ (phase = 3 => Described) => Sim!Next \/ UNCHANGED Sim!vars]_vars
=============================================================================
