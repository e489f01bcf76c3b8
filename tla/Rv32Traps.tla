----------------------------- MODULE Rv32Traps -----------------------------
(***************************************************************************)
(* The properties of the interpreter's control: reset, traps, interrupts   *)
(* and time, and the mapping under which Rv32Ucode implements              *)
(* TrapDiscipline.                                                         *)
(***************************************************************************)
EXTENDS Rv32Ucode

Resetting == upc \in {"uc_reset", "rloop"}

(* The instruction that is in progress or, between two instructions, the   *)
(* next one.  A jump to a misaligned address stays in progress until its   *)
(* trap is taken.                                                          *)
ArchPc ==
  CASE Resetting -> 0
    [] upc = "trap1" -> TrapVector
    [] upc = "main_loop" /\ nextpc % 4 = 0 -> nextpc
    [] OTHER -> pc

(* A trap is taken when mcause is written; trap1 completes it.             *)
ArchMie ==
  ~Resetting /\ upc # "trap1" /\ Has(csr[MSTATUS], MIE)
ArchMpie ==
  CASE Resetting -> FALSE
    [] upc = "trap1" -> Has(csr[MSTATUS], MIE)
    [] OTHER -> Has(csr[MSTATUS], MPIE)
ArchMepc ==
  CASE Resetting -> 0
    [] upc = "trap1" -> pc
    [] OTHER -> csr[MEPC]
ArchCsr(c) == IF Resetting THEN 0 ELSE csr[c]

InstrAddr == {w \in Word : w % 4 = 0}
Following(a) == Plus(a, 4)
TrapBase(v) == v - (v % 4)
ExceptionCauses == {0, 1, 2, 3, 4, 5, 6, 7, 11}
InterruptCauses == {TopBit + c : c \in {3, 7, 11}}

Traps == INSTANCE TrapDiscipline
           WITH pc <- ArchPc, mie <- ArchMie, mpie <- ArchMpie,
                mepc <- ArchMepc, mcause <- ArchCsr(MCAUSE),
                mtvec <- ArchCsr(MTVEC)

(* Seen from the program, instructions, traps and returns are atomic:      *)
(* main_loop .. trap1 implement TrapDiscipline, through any nesting of     *)
(* faults, interrupts, misaligned jumps and resets.                        *)
ImplementsTraps == Traps!AbsSpec

(* An instruction is only ever started or fetched at an aligned pc,        *)
(* whatever the program wrote to mtvec and mepc.                           *)
FetchAligned ==
  upc \in {"loop2", "loop3", "inst_32bit"} => pc % 4 = 0

(* The step that runs an instruction which traps: it traps in this step,   *)
(* or goes to a misaligned address, which main_loop traps on.              *)
Trapping ==
  \/ upc' = "trap"
  \/ upc = "inst_32bit" /\ upc' = "main_loop" /\ nextpc' % 4 # 0

Executes(ops) == upc = "inst_32bit" /\ ir.op \in ops

(* All that a trapping instruction changes but mtval.  jal and jalr write  *)
(* rd before the target is looked at, mret has restored the enable when    *)
(* its target turns out misaligned, and a store into mtimecmp answers the  *)
(* timer before funct3 and the alignment are looked at.                    *)
LinkWritten(r) == Executes({"jal", "jalr"}) /\ upc' = "main_loop" /\ r = ir.rd
EnableRestored(c) == Executes({"system"}) /\ IsMret /\ upc' = "main_loop" /\ c = MSTATUS
TimerAnswered(c) ==
  /\ Executes({"store"}) /\ c = MIP
  /\ Plus(Reg(ir.rs1), ir.imm) \in MTimeCmp .. MTimeCmp + 7
  /\ csr'[MIP] = ClearBit(csr[MIP], MTI)

(* An instruction that traps (fetch, decode, address or alignment of its   *)
(* data, alignment of its target) changes no memory, no register but the   *)
(* link of jal and jalr, and no CSR but mtval, mstatus by an mret to a     *)
(* misaligned mepc and mip.MTIP by a store into mtimecmp.  The phases      *)
(* before it is run, interrupt check and fetch, change none of them.       *)
TrapEffectsLimited ==
  [][/\ upc \in {"loop2", "loop3"} /\ upc' \in {"loop3", "inst_32bit"} =>
          UNCHANGED <<x, csr, mem>>
     /\ Trapping =>
          /\ UNCHANGED mem
          /\ \A r \in Regs \ {0} : x'[r] = x[r] \/ LinkWritten(r)
          /\ \A c \in Csrs \ {MTVAL} :
               csr'[c] = csr[c] \/ EnableRestored(c) \/ TimerAnswered(c)]_vars

(* Traps and returns move mstatus.MIE and mstatus.MPIE with "and" and      *)
(* "adc" on the whole byte; the adc #0x08 of mret must find bit 3 clear,   *)
(* or its carry runs into the bits above: all other bits keep their value. *)
OtherStatus(w) == ClearBit(ClearBit(w, MIE), MPIE)
StatusBitsPreserved ==
  [][upc = "trap1" \/ (upc = "inst_32bit" /\ IsMret /\ ir.op = "system") =>
       OtherStatus(csr'[MSTATUS]) = OtherStatus(csr[MSTATUS])
       \/ upc' = "uc_reset"]_vars

(* When the reset loop hands over to main_loop, every CSR is zero and      *)
(* execution starts at address 0.  (The scratch cell dest, which lies      *)
(* between the CSRs, is cleared as well; it is no state here.)             *)
ResetClean ==
  [][upc = "rloop" /\ upc' = "main_loop" =>
       /\ nextpc' = 0
       /\ \A c \in Csrs : csr'[c] = 0]_vars

(* Once pending, the timer interrupt stays pending until software answers  *)
(* it (a store to mtimecmp, or a CSR write to mip) or a reset.             *)
TimerStaysPending ==
  [][Has(csr[MIP], MTI) /\ ~Has(csr'[MIP], MTI) =>
       \/ upc = "rloop"
       \/ /\ upc = "inst_32bit"
          /\ \/ ir.op = "system" /\ ir.csr = 836
             \/ /\ ir.op = "store"
                /\ Plus(Reg(ir.rs1), ir.imm) \in MTimeCmp .. MTimeCmp + 7]_vars

(* No RISC-V store, aligned or not, reaches the microcode and the          *)
(* scratchpad below riscv_mem_offset.                                      *)
MicrocodeIntact ==
  [][\A a \in 0 .. Offset - 1 : mem'[a] = mem[a]]_vars

(* An enabled and pending interrupt does not wait for ever: it is taken,   *)
(* or the program disables it, or an exception, which disables interrupts, *)
(* comes first.  The check is passed over after every trap entry, and it   *)
(* looks at each of the three interrupts by itself.                        *)
InterruptWaits ==
  /\ Has(csr[MSTATUS], MIE)
  /\ \E bit \in {MEI, MSI, MTI} : Has(csr[MIP], bit) /\ Has(csr[MIE_CSR], bit)
InterruptServed == InterruptWaits ~> ~InterruptWaits

-----------------------------------------------------------------------------
(* What the comments of the microcode say of the timer.                    *)

Time(m) == WordAt(m, MTimeRam) + WordMod * WordAt(m, MTimeRam + 4)
Compare(m) == WordAt(m, MTimeCmpRam) + WordMod * WordAt(m, MTimeCmpRam + 4)

(* ucode.asm:266: "increment mtime[h]".                                    *)
TimeIncrements ==
  [][upc = "main_loop" /\ upc' = "loop2" => Time(mem') = Time(mem) + 1]_vars

(* ucode.asm:315: "mtime >= mtimecmp, so set mip.mtip".                    *)
TimerNotEarly ==
  [][upc = "main_loop" /\ ~Has(csr[MIP], MTI) /\ Has(csr'[MIP], MTI) =>
       Time(mem') >= Compare(mem')]_vars

-----------------------------------------------------------------------------
(* The clock never stops: the microprogram always goes on.  Nothing is     *)
(* assumed of the reset input.                                             *)
FairSpec == Spec /\ WF_vars(Step)
=============================================================================
