--------------------------- MODULE TrapDiscipline ---------------------------
(***************************************************************************)
(* What the machine-mode trap logic of the microcode promises to a RISC-V  *)
(* program, with every instruction, trap entry and return one step.        *)
(*                                                                         *)
(* pc is the address of the instruction that is about to be executed, mie  *)
(* and mpie the current and the stacked interrupt enable, mepc and mcause  *)
(* the CSRs of that name.  An instruction can only change the enables,     *)
(* mepc and mcause when it is a CSR instruction or mret; a trap saves pc   *)
(* and mie, and only it does; an interrupt is taken only when enabled.     *)
(***************************************************************************)
EXTENDS Integers

CONSTANTS
  Word,              (* values of a register                               *)
  InstrAddr,         (* the aligned addresses, 0 among them                *)
  Following(_),      (* address of the instruction behind one              *)
  TrapBase(_),       (* address where traps enter, for a value of mtvec    *)
  ExceptionCauses,   (* values of mcause for an exception                  *)
  InterruptCauses    (* values of mcause for an interrupt                  *)

VARIABLES pc, mie, mpie, mepc, mcause, mtvec

absVars == <<pc, mie, mpie, mepc, mcause, mtvec>>

AbsInit ==
  /\ pc = 0
  /\ mie = FALSE /\ mpie = FALSE
  /\ mepc = 0 /\ mcause = 0 /\ mtvec = 0

(* An instruction other than CSR accesses and mret: it goes on anywhere.   *)
Retire ==
  /\ pc' \in InstrAddr
  /\ UNCHANGED <<mie, mpie, mepc, mcause, mtvec>>

(* A CSR instruction rewrites one of the CSRs and goes on behind it.       *)
CsrWrite ==
  /\ pc' = Following(pc)
  /\ \/ /\ mie' \in BOOLEAN /\ mpie' \in BOOLEAN
        /\ UNCHANGED <<mepc, mcause, mtvec>>
     \/ mepc' \in Word /\ UNCHANGED <<mie, mpie, mcause, mtvec>>
     \/ mcause' \in Word /\ UNCHANGED <<mie, mpie, mepc, mtvec>>
     \/ mtvec' \in Word /\ UNCHANGED <<mie, mpie, mepc, mcause>>

(* mret leaves mpie as it is.  With a misaligned mepc it is itself the     *)
(* instruction that traps next, with the enable already restored.          *)
Mret ==
  /\ mie' = mpie
  /\ pc' = IF mepc \in InstrAddr THEN mepc ELSE pc
  /\ UNCHANGED <<mpie, mepc, mcause, mtvec>>

EnterTrap ==
  /\ mepc' = pc
  /\ mpie' = mie
  /\ mie' = FALSE
  /\ pc' = TrapBase(mtvec)
  /\ UNCHANGED mtvec

Exception ==
  /\ EnterTrap
  /\ mcause' \in ExceptionCauses

Interrupt ==
  /\ mie
  /\ EnterTrap
  /\ mcause' \in InterruptCauses

Reset ==
  /\ pc' = 0
  /\ mie' = FALSE /\ mpie' = FALSE
  /\ mepc' = 0 /\ mcause' = 0 /\ mtvec' = 0

AbsNext ==
  Retire \/ CsrWrite \/ Mret \/ Exception \/ Interrupt \/ Reset

AbsSpec == AbsInit /\ [][AbsNext]_absVars
=============================================================================
