----------------------------- MODULE Rv32Ucode -----------------------------
(***************************************************************************)
(* The RV32I interpreter of ucode/ucode.asm: one action per labelled       *)
(* routine of the microcode, from one instruction boundary to the next.    *)
(*                                                                         *)
(* upc is the label the microprogram counter is at.  A RISC-V instruction  *)
(* goes main_loop -> loop2 -> loop3 -> inst_32bit -> main_loop; a trap or  *)
(* an interrupt leaves that path through trap / trap1, which re-enters it  *)
(* at loop3, past the timer and the interrupt check.                       *)
(*                                                                         *)
(* Microcode, scratchpad and RISC-V memory share one RAM of AddrMod bytes. *)
(* RISC-V address a is RAM byte (a mod AddrMod) + Offset; what is below    *)
(* Offset holds the microcode and the scratchpad.  The scratchpad cells    *)
(* that a RISC-V program can see are the variables nextpc, pc, x and csr;  *)
(* the rest of the RAM, the microcode included, is mem.                    *)
(*                                                                         *)
(* The build modelled is the repository's: ft_vectored_interrupts = 0,     *)
(* ft_external_clock_tick = 0 and ft_mem_addr_bytes = 2, with              *)
(* ft_misaligned_data_trap a parameter.                                    *)
(***************************************************************************)
EXTENDS Words

CONSTANTS
  AddrMod,        (* bytes of RAM that the y register reaches: 2^16        *)
  Offset,         (* riscv_mem_offset: end of microcode and scratchpad     *)
  MTime,          (* RISC-V address of mtime, mtimeh                       *)
  MTimeCmp,       (* RISC-V address of mtimecmp, mtimecmph                 *)
  Regs,           (* numbers of the general registers, 0 included          *)
  Code(_),        (* Code(a): instructions RISC-V memory may hold at a     *)
  Samples,        (* words an ALU result or a scratch cell may be          *)
  ImageBytes,     (* contents the memory image may start with              *)
  ImageWords,     (* values the registers may have at power-up             *)
  MisalignedDataTrap, (* ft_misaligned_data_trap                           *)
  ResetEnabled,   (* may the reset input be asserted after power-up?       *)
  MTimeStop       (* bound: the model stops when mtime reaches this        *)

ASSUME LayoutAssumption ==
  /\ AddrMod \in Nat /\ Offset \in Nat
  /\ AddrMod % 4 = 0 /\ Offset % 4 = 0
  /\ Offset < AddrMod /\ AddrMod <= WordMod
  /\ MTime \in Nat /\ MTimeCmp \in Nat
  /\ MTime % 8 = 0 /\ MTimeCmp % 8 = 0
  /\ MTime + Offset + 8 <= AddrMod /\ MTimeCmp + Offset + 8 <= AddrMod

ASSUME ValueAssumption ==
  /\ 0 \in Regs /\ Regs \subseteq 0 .. 31
  /\ Samples \subseteq Word
  /\ ImageWords \subseteq Word
  /\ ImageBytes \subseteq [0 .. AddrMod - 1 -> Byte]
  /\ MisalignedDataTrap \in BOOLEAN
  /\ ResetEnabled \in BOOLEAN

(* The CSRs, in scratchpad order from csr_300_start.  Cell 7 is dest and   *)
(* 13 .. 15 are s1, s2 and temp: the incomplete decode of get_csr lets CSR *)
(* instructions reach them.                                                *)
MSTATUS == 0
MIE_CSR == 4
MTVEC == 5
MEPC == 9
MCAUSE == 10
MTVAL == 11
MIP == 12
Csrs == {0, 1, 2, 3, 4, 5, 6, 8, 9, 10, 11, 12}

(* Bits of mstatus, mie and mip.                                           *)
MIE == 8
MPIE == 128
MSI == 8
MTI == 128
MEI == 2048

Ops == {"load", "store", "op", "lui", "auipc", "branch", "jal", "jalr",
        "system", "misc_mem", "custom0", "illegal"}

(* An instruction word, decoded.  csr is its top 12 bits, imm the sign-    *)
(* extended immediate of its format, code the word itself.                 *)
Instr == [op : Ops, f3 : 0 .. 7, rd : Regs, rs1 : Regs, rs2 : Regs,
          imm : Word, csr : 0 .. 4095, code : Word]

ASSUME CodeAssumption ==
  \A a \in 0 .. AddrMod - 1 : Code(a) \subseteq Instr

VARIABLES
  upc,            (* label of the microcode routine about to run           *)
  rloop,          (* scratchpad words that the reset loop has yet to clear *)
  ac,             (* accumulator on entry to "trap": the cause             *)
  nextpc, pc,     (* address of the next and of the current instruction    *)
  ir,             (* current instruction                                   *)
  x,              (* general registers x1 ..                               *)
  csr,            (* control and status registers                          *)
  mem             (* the RAM                                               *)

vars == <<upc, rloop, ac, nextpc, pc, ir, x, csr, mem>>

Labels == {"uc_reset", "rloop", "main_loop", "loop2", "trap", "trap1",
           "loop3", "inst_32bit"}

RamAddr == 0 .. AddrMod - 1

(* Mutant of BssWords: bss_end placed before mip.                          *)
BssWordsShort == 13

(* Words cleared by the reset loop: nextpc and the CSRs up to bss_end.     *)
BssWords == 14

TypeOK ==
  /\ upc \in Labels
  /\ rloop \in 0 .. BssWords
  /\ ac \in 0 .. 11
  /\ nextpc \in Word
  /\ pc \in Word
  /\ ir \in Instr
  /\ x \in [Regs \ {0} -> Word]
  /\ csr \in [Csrs -> Word]
  /\ mem \in [RamAddr -> Byte]

-----------------------------------------------------------------------------
(* Access to the RAM.                                                      *)

(* Mutant of Faults: the address just past the RAM is let through.         *)
FaultsLate(a) == (a % AddrMod) + Offset > AddrMod

(* set_mem_addr adds Offset to the low two bytes of a RISC-V address only; *)
(* a carry out of the sum is an access fault.                              *)
Faults(a) == (a % AddrMod) + Offset >= AddrMod
RamOf(a) == (a % AddrMod) + Offset

(* y counts up modulo the RAM size.                                        *)
WordAt(m, y) == WordOf([k \in 0 .. 3 |-> m[(y + k) % AddrMod]])

(* The n low bytes of w stored at y, y+1, ..                               *)
Written(m, y, n, w) ==
  [a \in RamAddr |-> LET k == (a - y) % AddrMod
                     IN  IF k < n THEN ByteOf(w, k) ELSE m[a]]

Reg(r) == IF r = 0 THEN 0 ELSE x[r]

-----------------------------------------------------------------------------
(* Ways to leave a routine.                                                *)

Raise(cause) ==
  /\ upc' = "trap"
  /\ ac' = cause

(* jump main_loop                                                          *)
Done ==
  /\ upc' = "main_loop"
  /\ UNCHANGED ac

(* jump put_rd_main_loop: x0 has no storage and is never written.          *)
PutRd(v) ==
  /\ x' = IF ir.rd = 0 THEN x ELSE [x EXCEPT ![ir.rd] = v]
  /\ Done

Illegal ==
  /\ csr' = [csr EXCEPT ![MTVAL] = ir.code]
  /\ Raise(2)
  /\ UNCHANGED <<nextpc, x, mem>>

-----------------------------------------------------------------------------
(* Reset: the reset input forces the microprogram counter to zero, where   *)
(* there is a jump to uc_reset.  Nothing but nextpc and the CSRs is        *)
(* cleared; an instruction in progress is abandoned where it is.           *)

UcReset ==
  /\ upc = "uc_reset"
  /\ upc' = "rloop"
  /\ rloop' = BssWords
  /\ UNCHANGED <<ac, nextpc, pc, ir, x, csr, mem>>

RLoop ==
  /\ upc = "rloop"
  /\ IF rloop = 0
     THEN /\ upc' = "main_loop"
          /\ UNCHANGED <<rloop, nextpc, csr>>
     ELSE /\ rloop' = rloop - 1
          /\ nextpc' = IF rloop = 1 THEN 0 ELSE nextpc
          /\ csr' = [c \in Csrs |-> IF c = rloop - 2 THEN 0 ELSE csr[c]]
          /\ UNCHANGED upc
  /\ UNCHANGED <<ac, pc, ir, x, mem>>

ExternalReset ==
  /\ ResetEnabled
  /\ upc # "uc_reset"
  /\ upc' = "uc_reset"
  /\ UNCHANGED <<rloop, ac, nextpc, pc, ir, x, csr, mem>>

-----------------------------------------------------------------------------
(* The main loop.                                                          *)

(* Mutant of MainLoopMisaligned: mtime is advanced before the check.       *)
MainLoopMisalignedTicks ==
  /\ upc = "main_loop"
  /\ nextpc % 4 # 0
  /\ csr' = [csr EXCEPT ![MTVAL] = nextpc]
  /\ mem' = [mem EXCEPT ![MTime + Offset] = (@ + 1) % ByteMod]
  /\ Raise(0)
  /\ UNCHANGED <<rloop, nextpc, pc, ir, x>>

MainLoopMisaligned ==
  /\ upc = "main_loop"
  /\ nextpc % 4 # 0
  /\ csr' = [csr EXCEPT ![MTVAL] = nextpc]
  /\ Raise(0)
  /\ UNCHANGED <<rloop, nextpc, pc, ir, x, mem>>

MTimeRam == MTime + Offset
MTimeCmpRam == MTimeCmp + Offset

(* Increment of mtime[h].  inc_temp2 leaves X pointing past temp2, at pc,  *)
(* so that on a carry what mem_write_32_y stores to mtimeh is pc.          *)
TickedMem(m, thispc) ==
  LET lo == Plus(WordAt(m, MTimeRam), 1)
      m1 == Written(m, MTimeRam, 4, lo)
  IN  IF lo = 0 THEN Written(m1, MTimeRam + 4, 4, thispc) ELSE m1

(* The carry of mtime - mtimecmp, taken on the incremented time that is    *)
(* still in temp and temp2.                                                *)
TimeReached(m) ==
  LET lo == Plus(WordAt(m, MTimeRam), 1)
      hi == IF lo = 0 THEN Plus(WordAt(m, MTimeRam + 4), 1)
                      ELSE WordAt(m, MTimeRam + 4)
      cmphi == WordAt(m, MTimeCmpRam + 4)
  IN  \/ hi > cmphi
      \/ hi = cmphi /\ lo >= WordAt(m, MTimeCmpRam)

(* "br lt" is taken when the carry is set: mip.MTIP is set if and only if  *)
(* the time has not been reached.                                          *)
PcAlignmentOk ==
  /\ upc = "main_loop"
  /\ nextpc % 4 = 0
  /\ WordAt(mem, MTimeRam) # MTimeStop
  /\ pc' = nextpc
  /\ mem' = TickedMem(mem, nextpc)
  /\ csr' = IF TimeReached(mem) THEN csr
            ELSE [csr EXCEPT ![MIP] = SetBit(@, MTI)]
  /\ upc' = "loop2"
  /\ UNCHANGED <<rloop, ac, nextpc, ir, x>>

Pending(bit) == Has(csr[MIP], bit) /\ Has(csr[MIE_CSR], bit)

(* Code of the interrupt taken: external before software before timer.     *)
InterruptCode ==
  IF Pending(MEI) THEN 11 ELSE IF Pending(MSI) THEN 3 ELSE 7

(* Mutants of InterruptDue: mstatus.MIE is not looked at; the timer        *)
(* interrupt is not looked for.                                            *)
InterruptDueAlways == Pending(MEI) \/ Pending(MSI) \/ Pending(MTI)
InterruptDueNoTimer ==
  /\ Has(csr[MSTATUS], MIE)
  /\ Pending(MEI) \/ Pending(MSI)

InterruptDue ==
  /\ Has(csr[MSTATUS], MIE)
  /\ Pending(MEI) \/ Pending(MSI) \/ Pending(MTI)

Interrupt ==
  /\ upc = "loop2"
  /\ InterruptDue
  /\ csr' = [csr EXCEPT ![MCAUSE] = TopBit + InterruptCode]
  /\ upc' = "trap1"
  /\ UNCHANGED <<rloop, ac, nextpc, pc, ir, x, mem>>

NoInterrupt ==
  /\ upc = "loop2"
  /\ ~InterruptDue
  /\ upc' = "loop3"
  /\ UNCHANGED <<rloop, ac, nextpc, pc, ir, x, csr, mem>>

Trap ==
  /\ upc = "trap"
  /\ csr' = [csr EXCEPT ![MCAUSE] = ac]
  /\ upc' = "trap1"
  /\ UNCHANGED <<rloop, ac, nextpc, pc, ir, x, mem>>

(* mpie := mie, mie := 0                                                   *)
TrapStatus(w) ==
  LET c == ClearBit(w, MPIE)
  IN  ClearBit(IF Has(w, MIE) THEN c + MPIE ELSE c, MIE)

(* Mutant of TrapVector: the low bits of mtvec are not masked.             *)
UnmaskedVector == csr[MTVEC]

(* ft_vectored_interrupts = 0: every trap enters at the base, whose two low *)
(* bits are masked.                                                        *)
TrapVector == csr[MTVEC] - (csr[MTVEC] % 4)

Trap1 ==
  /\ upc = "trap1"
  /\ csr' = [csr EXCEPT ![MSTATUS] = TrapStatus(@), ![MEPC] = pc]
  /\ pc' = TrapVector
  /\ upc' = "loop3"
  /\ UNCHANGED <<rloop, ac, nextpc, ir, x, mem>>

Fetch ==
  /\ upc = "loop3"
  /\ nextpc' = Plus(pc, 4)
  /\ IF Faults(pc)
     THEN Raise(1) /\ UNCHANGED ir
     ELSE /\ ir' \in Code(pc % AddrMod)
          /\ upc' = "inst_32bit"
          /\ UNCHANGED ac
  /\ UNCHANGED <<rloop, pc, x, csr, mem>>

-----------------------------------------------------------------------------
(* The instructions.                                                       *)

(* Does an access of n bytes at ea trap as misaligned?                     *)
Misaligned(ea, n) == MisalignedDataTrap /\ ea % n # 0

(* Mutant of DataMisaligned: the alignment is checked after put_rd.        *)
DataMisalignedLate(ea, cause) ==
  /\ csr' = [csr EXCEPT ![MTVAL] = ea]
  /\ Raise(cause)
  /\ x' = IF ir.rd = 0 THEN x ELSE [x EXCEPT ![ir.rd] = ea]
  /\ UNCHANGED <<nextpc, mem>>

DataMisaligned(ea, cause) ==
  /\ csr' = [csr EXCEPT ![MTVAL] = ea]
  /\ Raise(cause)
  /\ UNCHANGED <<nextpc, x, mem>>

AccessBytes(f3) == IF f3 % 4 = 0 THEN 1 ELSE IF f3 % 4 = 1 THEN 2 ELSE 4

(* The n bytes at y, extended with the sign or with zero.                  *)
Loaded(y, n, signed) ==
  LET top == mem[(y + n - 1) % AddrMod]
      fill == IF signed /\ top >= ByteMod \div 2 THEN ByteMod - 1 ELSE 0
  IN  WordOf([k \in 0 .. 3 |-> IF k < n THEN mem[(y + k) % AddrMod] ELSE fill])

Load ==
  LET ea == Plus(Reg(ir.rs1), ir.imm)
      n == AccessBytes(ir.f3)
  IN  /\ ir.op = "load"
      /\ \/ /\ Faults(ea)
            /\ Raise(5)
            /\ UNCHANGED <<nextpc, x, csr, mem>>
         \/ /\ ~Faults(ea) /\ ir.f3 \notin {0, 1, 2, 4, 5}
            /\ Illegal
         \/ /\ ~Faults(ea) /\ ir.f3 \in {0, 1, 2, 4, 5} /\ Misaligned(ea, n)
            /\ DataMisaligned(ea, 4)
         \/ /\ ~Faults(ea) /\ ir.f3 \in {0, 1, 2, 4, 5} /\ ~Misaligned(ea, n)
            /\ PutRd(Loaded(RamOf(ea), n, ir.f3 < 4))
            /\ UNCHANGED <<nextpc, csr, mem>>

(* Mutant of AfterMtimecmpCheck: only the low byte of the address is       *)
(* compared.                                                               *)
AfterLowByteCheck(ea) ==
  IF (ea - (ea % 8)) % ByteMod = MTimeCmp % ByteMod
  THEN [csr EXCEPT ![MIP] = ClearBit(@, MTI)]
  ELSE csr

(* A store whose full address is in the mtimecmp doubleword clears         *)
(* mip.MTIP, before funct3 and the alignment are looked at.                *)
AfterMtimecmpCheck(ea) ==
  IF ea - (ea % 8) = MTimeCmp
  THEN [csr EXCEPT ![MIP] = ClearBit(@, MTI)]
  ELSE csr

Store ==
  LET ea == Plus(Reg(ir.rs1), ir.imm)
      n == AccessBytes(ir.f3)
      csr1 == AfterMtimecmpCheck(ea)
  IN  /\ ir.op = "store"
      /\ UNCHANGED <<nextpc, x>>
      /\ \/ /\ Faults(ea)
            /\ Raise(7)
            /\ UNCHANGED <<csr, mem>>
         \/ /\ ~Faults(ea) /\ ir.f3 \notin 0 .. 2
            /\ csr' = [csr1 EXCEPT ![MTVAL] = ir.code]
            /\ Raise(2)
            /\ UNCHANGED mem
         \/ /\ ~Faults(ea) /\ ir.f3 \in 0 .. 2 /\ Misaligned(ea, n)
            /\ csr' = [csr1 EXCEPT ![MTVAL] = ea]
            /\ Raise(6)
            /\ UNCHANGED mem
         \/ /\ ~Faults(ea) /\ ir.f3 \in 0 .. 2 /\ ~Misaligned(ea, n)
            /\ csr' = csr1
            /\ mem' = Written(mem, RamOf(ea), n, Reg(ir.rs2))
            /\ Done

(* op and op-imm: which word the ALU routines deliver is left open.        *)
Op ==
  /\ ir.op = "op"
  /\ \E v \in Samples : PutRd(v)
  /\ UNCHANGED <<nextpc, csr, mem>>

UpperImmediate ==
  /\ ir.op \in {"lui", "auipc"}
  /\ PutRd(IF ir.op = "lui" THEN ir.imm ELSE Plus(pc, ir.imm))
  /\ UNCHANGED <<nextpc, csr, mem>>

(* bit 0 of funct3 inverts the condition that its other bits select.       *)
BranchCondition ==
  LET a == Reg(ir.rs1)
      b == Reg(ir.rs2)
      holds == \/ ir.f3 < 4 /\ a = b
               \/ ir.f3 \in {4, 5} /\ LessSigned(a, b)
               \/ ir.f3 \in {6, 7} /\ a < b
  IN  holds # (ir.f3 % 2 = 1)

Branch ==
  /\ ir.op = "branch"
  /\ \/ /\ ir.f3 \in {2, 3}
        /\ Illegal
     \/ /\ ir.f3 \notin {2, 3}
        /\ nextpc' = IF BranchCondition THEN Plus(pc, ir.imm) ELSE nextpc
        /\ Done
        /\ UNCHANGED <<x, csr, mem>>

Jal ==
  /\ ir.op = "jal"
  /\ nextpc' = Plus(pc, ir.imm)
  /\ PutRd(nextpc)
  /\ UNCHANGED <<csr, mem>>

Jalr ==
  LET target == Plus(Reg(ir.rs1), ir.imm)
  IN  /\ ir.op = "jalr"
      /\ nextpc' = target - (target % 2)
      /\ PutRd(nextpc)
      /\ UNCHANGED <<csr, mem>>

(* FENCE and FENCE.I do nothing; custom-0 sends rs1 to the UART.           *)
NoEffect ==
  /\ ir.op \in {"misc_mem", "custom0"}
  /\ Done
  /\ UNCHANGED <<nextpc, x, csr, mem>>

(* get_csr: the cell that CSR number n is mapped to; 0x300 .. 0x307 and    *)
(* 0x340 .. 0x347 are accepted.                                            *)
CsrNumbers == (768 .. 775) \cup (832 .. 839)
CsrCell(n) == IF n < 800 THEN n - 768 ELSE n - 832 + 8

(* The forms with bit 14 set take the rs1 field itself as operand.         *)
CsrOperand == IF ir.f3 >= 4 THEN ir.rs1 ELSE Reg(ir.rs1)

CsrUpdate(old) ==
  CASE ir.f3 % 4 = 1 -> CsrOperand
    [] ir.f3 % 4 = 2 -> OrWord(old, CsrOperand)
    [] OTHER -> AndNotWord(old, CsrOperand)

(* Reading one of the scratch cells delivers what the microcode left there.*)
CsrAccess ==
  /\ ir.op = "system"
  /\ ir.f3 % 4 # 0
  /\ \/ /\ ir.csr \notin CsrNumbers
        /\ Illegal
     \/ /\ ir.csr \in CsrNumbers
        /\ LET c == CsrCell(ir.csr)
           IN  IF c \in Csrs
               THEN PutRd(csr[c]) /\ csr' = [csr EXCEPT ![c] = CsrUpdate(@)]
               ELSE (\E v \in Samples : PutRd(v)) /\ UNCHANGED csr
        /\ UNCHANGED <<nextpc, mem>>

(* inst_system_misc: only rs1 = 0, a zero upper half of rd and bits 9, 8,  *)
(* 1 and 0 of the function number are accepted.                            *)
MiscForm ==
  /\ ir.f3 = 0 /\ ir.rs1 = 0 /\ ir.rd < 2
  /\ ir.csr < 1024 /\ (ir.csr % 256) < 4
IsEcall == MiscForm /\ ir.csr % 4 = 0
IsEbreak == MiscForm /\ ir.csr % 4 = 1
IsMret == MiscForm /\ ir.csr = 770

SystemMisc ==
  /\ ir.op = "system"
  /\ ir.f3 % 4 = 0
  /\ \/ /\ IsEcall
        /\ Raise(11)
        /\ UNCHANGED <<nextpc, x, csr, mem>>
     \/ /\ IsEbreak
        /\ Raise(3)
        /\ UNCHANGED <<nextpc, x, csr, mem>>
     \/ /\ ~IsEcall /\ ~IsEbreak /\ ~IsMret
        /\ Illegal

(* Mutant of MretStatus: MIE is added to the low byte of mstatus without   *)
(* having been cleared.                                                    *)
MretStatusCarry(w) ==
  LET low == w % 256
  IN  IF Has(w, MPIE) THEN (w - low) + ((low + MIE) % 256) ELSE w

(* mie := mpie                                                             *)
MretStatus(w) ==
  LET c == ClearBit(w, MIE)
  IN  IF Has(w, MPIE) THEN c + MIE ELSE c

Mret ==
  /\ ir.op = "system"
  /\ IsMret
  /\ csr' = [csr EXCEPT ![MSTATUS] = MretStatus(@)]
  /\ nextpc' = csr[MEPC]
  /\ Done
  /\ UNCHANGED <<x, mem>>

IllegalOpcode ==
  /\ ir.op = "illegal"
  /\ Illegal

Execute ==
  /\ upc = "inst_32bit"
  /\ \/ Load \/ Store \/ Op \/ UpperImmediate \/ Branch \/ Jal \/ Jalr
     \/ NoEffect \/ CsrAccess \/ SystemMisc \/ Mret \/ IllegalOpcode
  /\ UNCHANGED <<rloop, pc, ir>>

-----------------------------------------------------------------------------
(* At power-up the CSRs and the scratchpad are whatever the RAM holds.     *)
Init ==
  /\ upc = "uc_reset"
  /\ rloop = BssWords
  /\ ac = 0
  /\ \E w \in ImageWords : nextpc = w /\ pc = w /\ csr = [c \in Csrs |-> w]
  /\ ir \in Code(0)
  /\ x \in [Regs \ {0} -> ImageWords]
  /\ mem \in ImageBytes

Step ==
  \/ UcReset \/ RLoop
  \/ MainLoopMisaligned \/ PcAlignmentOk
  \/ Interrupt \/ NoInterrupt
  \/ Trap \/ Trap1
  \/ Fetch \/ Execute

Next == Step \/ ExternalReset

Spec == Init /\ [][Next]_vars
=============================================================================
