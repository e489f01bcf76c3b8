----------------------------- MODULE Rv32Proofs -----------------------------
(***************************************************************************)
(* Proofs about the interpreter, for every size of byte, memory layout,    *)
(* register set and program: ranges of the word operators, types, the      *)
(* alignment of what is fetched, mtime as a count of instructions (as long *)
(* as there is no reset after power-up), traps: what single steps leave    *)
(* alone, and that Rv32Ucode implements TrapDiscipline; and that no        *)
(* interrupt waits for ever.                                               *)
(***************************************************************************)
EXTENDS Rv32Instret, TLAPS

-----------------------------------------------------------------------------
(* Ranges of the word operators, for every size of byte.                   *)

(* WordMod is a multiple of 4096: every bit the microcode tests is in it.  *)
LEMMA WordModMultiple ==
  \E q \in Nat : q > 0 /\ WordMod = 4096 * q
<1>1. PICK e \in Nat : ByteMod = 8 * e /\ e > 0
  <2>1. ByteMod = 8 * (ByteMod \div 8) /\ ByteMod \div 8 > 0 /\ ByteMod \div 8 \in Nat
    BY ByteModAssumption
  <2> QED BY <2>1
<1> DEFINE q == e * (e * (e * e))
<1>2. e * e \in Nat /\ e * e > 0
  BY <1>1
<1>3. e * (e * e) \in Nat /\ e * (e * e) > 0
  BY <1>1, <1>2
<1>4. q \in Nat /\ q > 0
  BY <1>1, <1>3
<1>5. WordMod = 4096 * q
  BY <1>1 DEF WordMod
<1> QED BY <1>4, <1>5

LEMMA WordModType == WordMod \in Nat /\ WordMod >= 4096 /\ WordMod % 256 = 0
BY WordModMultiple

(* One more digit in front of a number.                                    *)
LEMMA Digit ==
  ASSUME NEW m \in Nat, NEW b \in Byte, NEW v \in 0 .. m - 1
  PROVE  b + ByteMod * v \in 0 .. ByteMod * m - 1
<1>1. ByteMod \in Nat /\ ByteMod > 0
  BY ByteModAssumption
<1>2. ByteMod * (m - 1 - v) >= 0
  BY <1>1
<1>3. ByteMod * (m - 1 - v) = ByteMod * m - ByteMod - ByteMod * v
  BY <1>1
<1>4. ByteMod * v \in Nat /\ ByteMod * m \in Nat
  BY <1>1
<1> QED BY <1>1, <1>2, <1>3, <1>4 DEF Byte

LEMMA WordOfType ==
  ASSUME NEW b \in [0 .. 3 -> Byte]
  PROVE  WordOf(b) \in Word
<1>1. ByteMod \in Nat /\ ByteMod > 0
  BY ByteModAssumption
<1>2. b[0] \in Byte /\ b[1] \in Byte /\ b[2] \in Byte /\ b[3] \in Byte
  OBVIOUS
<1>3. b[3] \in 0 .. ByteMod - 1
  BY <1>2 DEF Byte
<1> DEFINE B2 == ByteMod * ByteMod
           B3 == ByteMod * B2
           v2 == b[2] + ByteMod * b[3]
           v1 == b[1] + ByteMod * v2
<1>4. B2 \in Nat
  BY <1>1
<1>5. B3 \in Nat
  BY <1>1, <1>4
<1>6. v2 \in 0 .. B2 - 1
  BY <1>1, <1>2, <1>3, Digit
<1> HIDE DEF B2, v2
<1>7. v1 \in 0 .. B3 - 1
  BY <1>2, <1>4, <1>6, Digit
<1> HIDE DEF B3, v1
<1>8. b[0] + ByteMod * v1 \in 0 .. ByteMod * B3 - 1
  BY <1>2, <1>5, <1>7, Digit
<1> QED BY <1>8 DEF WordOf, Word, WordMod, B2, B3, v1, v2

LEMMA ByteOfType ==
  ASSUME NEW w \in Word, NEW k \in 0 .. 3
  PROVE  ByteOf(w, k) \in Byte
<1>1. ByteMod \in Nat /\ ByteMod > 0
  BY ByteModAssumption
<1>2. ByteMod * ByteMod \in Nat /\ ByteMod * ByteMod > 0
  BY <1>1
<1>3. ByteMod * (ByteMod * ByteMod) \in Nat /\ ByteMod * (ByteMod * ByteMod) > 0
  BY <1>1, <1>2
<1>4. Place[k] \in Nat /\ Place[k] > 0
  BY <1>1, <1>2, <1>3 DEF Place
<1>5. w \div Place[k] \in Int
  BY <1>4 DEF Word
<1> QED BY <1>1, <1>5 DEF ByteOf, Byte

LEMMA PlusType ==
  ASSUME NEW a \in Int, NEW b \in Int
  PROVE  Plus(a, b) \in Word
BY WordModType DEF Plus, Word

LEMMA WordsAreNat == \A w \in Word : w \in Nat /\ w \in Int
BY WordModType DEF Word

LEMMA SmallWords == \A w \in 0 .. 4095 : w \in Word
BY WordModType DEF Word

LEMMA TopBitType == \A c \in 0 .. 11 : TopBit + c \in Word
BY WordModType DEF TopBit, Word

(* The bits of the low byte.                                               *)
LEMMA BitTypes ==
  ASSUME NEW w \in Word, NEW m \in {8, 128}
  PROVE  /\ SetBit(w, m) \in Word
         /\ ClearBit(w, m) \in Word
         /\ ~Has(ClearBit(w, m), m)
         /\ ~Has(w, m) => w + m \in Word
<1>1. PICK q \in Nat : WordMod = 4096 * q
  BY WordModMultiple
<1>2. CASE m = 8
  BY <1>1, <1>2 DEF SetBit, ClearBit, Has, Word
<1>3. CASE m = 128
  BY <1>1, <1>3 DEF SetBit, ClearBit, Has, Word
<1> QED BY <1>2, <1>3

LEMMA LogicTypes ==
  ASSUME NEW a \in Word, NEW b \in Word
  PROVE  OrWord(a, b) \in Word /\ AndNotWord(a, b) \in Word
<1>1. \A c \in Byte : Complement(c) \in Byte
  BY ByteModAssumption DEF Complement, Byte
<1>2. \A k \in 0 .. 3 : ByteOf(a, k) \in Byte /\ ByteOf(b, k) \in Byte
  BY ByteOfType
<1>3. [k \in 0 .. 3 |-> Complement(And(Complement(ByteOf(a, k)), Complement(ByteOf(b, k))))]
        \in [0 .. 3 -> Byte]
  BY <1>1, <1>2, AndAssumption
<1>4. [k \in 0 .. 3 |-> And(Complement(ByteOf(b, k)), ByteOf(a, k))] \in [0 .. 3 -> Byte]
  BY <1>1, <1>2, AndAssumption
<1> QED BY <1>3, <1>4, WordOfType DEF OrWord, AndNotWord

-----------------------------------------------------------------------------
(* Types of the operators.                                                 *)

LEMMA AddrModType == AddrMod \in Nat /\ AddrMod > 0
BY LayoutAssumption

LEMMA ModRam == \A a \in Int : a % AddrMod \in RamAddr
BY AddrModType DEF RamAddr

LEMMA WordAtType ==
  ASSUME NEW m \in [RamAddr -> Byte], NEW y \in Int
  PROVE  WordAt(m, y) \in Word
<1>1. [k \in 0 .. 3 |-> m[(y + k) % AddrMod]] \in [0 .. 3 -> Byte]
  BY ModRam
<1> QED BY <1>1, WordOfType DEF WordAt

LEMMA WrittenType ==
  ASSUME NEW m \in [RamAddr -> Byte], NEW y \in Int, NEW n \in 1 .. 4,
         NEW w \in Word
  PROVE  Written(m, y, n, w) \in [RamAddr -> Byte]
<1> SUFFICES ASSUME NEW a \in RamAddr
             PROVE  (LET k == (a - y) % AddrMod
                     IN IF k < n THEN ByteOf(w, k) ELSE m[a]) \in Byte
  BY DEF Written
<1>1. (a - y) % AddrMod \in RamAddr
  BY ModRam DEF RamAddr
<1>2. CASE (a - y) % AddrMod < n
  BY <1>1, <1>2, ByteOfType DEF RamAddr
<1>3. CASE ~((a - y) % AddrMod < n)
  BY <1>3
<1> QED BY <1>2, <1>3

LEMMA LoadedType ==
  ASSUME mem \in [RamAddr -> Byte], NEW y \in Int, NEW n \in 1 .. 4,
         NEW signed \in BOOLEAN
  PROVE  Loaded(y, n, signed) \in Word
<1> DEFINE fill == IF signed /\ mem[(y + n - 1) % AddrMod] >= ByteMod \div 2
                   THEN ByteMod - 1 ELSE 0
<1>1. fill \in Byte
  BY ByteModAssumption DEF Byte
<1>2. [k \in 0 .. 3 |-> IF k < n THEN mem[(y + k) % AddrMod] ELSE fill]
        \in [0 .. 3 -> Byte]
  BY <1>1, ModRam
<1> QED BY <1>2, WordOfType DEF Loaded

LEMMA AccessBytesType == \A f \in 0 .. 7 : AccessBytes(f) \in 1 .. 4
BY DEF AccessBytes

LEMMA IrType ==
  ASSUME ir \in Instr
  PROVE  /\ ir.op \in Ops /\ ir.f3 \in 0 .. 7 /\ ir.rd \in Regs
         /\ ir.rs1 \in Regs /\ ir.rs2 \in Regs /\ ir.imm \in Word
         /\ ir.csr \in 0 .. 4095 /\ ir.code \in Word
BY DEF Instr

LEMMA RegsType == \A r \in Regs : r \in 0 .. 31 /\ r \in Word
<1> SUFFICES ASSUME NEW r \in Regs PROVE r \in 0 .. 31 /\ r \in Word
  OBVIOUS
<1>1. Regs \subseteq 0 .. 31
  BY ValueAssumption
<1>2. r \in 0 .. 31
  BY <1>1
<1>3. r \in 0 .. 4095
  BY <1>2
<1> QED BY <1>2, <1>3, SmallWords

LEMMA RegType ==
  ASSUME TypeOK, NEW r \in Regs
  PROVE  Reg(r) \in Word
BY SmallWords DEF TypeOK, Reg

LEMMA CellTypes ==
  /\ {MSTATUS, MIE_CSR, MTVEC, MEPC, MCAUSE, MTVAL, MIP} \subseteq Csrs
  /\ MIE = 8 /\ MPIE = 128 /\ MSI = 8 /\ MTI = 128
BY DEF MSTATUS, MIE_CSR, MTVEC, MEPC, MCAUSE, MTVAL, MIP, Csrs, MIE, MPIE, MSI, MTI

LEMMA StatusTypes ==
  ASSUME NEW w \in Word
  PROVE  TrapStatus(w) \in Word /\ MretStatus(w) \in Word
<1>1. ClearBit(w, MPIE) \in Word /\ ClearBit(w, MPIE) + MPIE \in Word
  BY BitTypes, CellTypes
<1>2. TrapStatus(w) \in Word
  BY <1>1, BitTypes, CellTypes DEF TrapStatus
<1>3. ClearBit(w, MIE) \in Word /\ ClearBit(w, MIE) + MIE \in Word
  BY BitTypes, CellTypes
<1> QED BY <1>2, <1>3 DEF MretStatus

LEMMA CsrUpdateType ==
  ASSUME TypeOK, NEW old \in Word, ir.f3 % 4 # 0
  PROVE  CsrUpdate(old) \in Word
<1>1. CsrOperand \in Word
  <2>1. ir.rs1 \in Regs
    BY IrType DEF TypeOK
  <2>2. Reg(ir.rs1) \in Word
    BY <2>1, RegType
  <2>3. ir.rs1 \in Word
    BY <2>1, RegsType
  <2>4. CASE ir.f3 >= 4
    BY <2>3, <2>4 DEF CsrOperand
  <2>5. CASE ~(ir.f3 >= 4)
    BY <2>2, <2>5 DEF CsrOperand
  <2> QED BY <2>4, <2>5
<1>2. OrWord(old, CsrOperand) \in Word /\ AndNotWord(old, CsrOperand) \in Word
  BY <1>1, LogicTypes
<1>3. ir.f3 % 4 \in {1, 2, 3}
  BY IrType DEF TypeOK
<1> QED BY <1>1, <1>2, <1>3 DEF CsrUpdate

LEMMA TickedMemType ==
  ASSUME NEW m \in [RamAddr -> Byte], NEW w \in Word
  PROVE  TickedMem(m, w) \in [RamAddr -> Byte]
<1> DEFINE lo == Plus(WordAt(m, MTimeRam), 1)
           m1 == Written(m, MTimeRam, 4, lo)
<1>1. MTimeRam \in Int
  BY LayoutAssumption DEF MTimeRam
<1>2. lo \in Word
  <2>1. WordAt(m, MTimeRam) \in Word
    BY <1>1, WordAtType
  <2>2. WordAt(m, MTimeRam) \in Int
    BY <2>1, WordsAreNat
  <2> QED BY <2>2, PlusType
<1>3. m1 \in [RamAddr -> Byte]
  BY <1>1, <1>2, WrittenType
<1>4. Written(m1, MTimeRam + 4, 4, w) \in [RamAddr -> Byte]
  BY <1>1, <1>3, WrittenType
<1> QED BY <1>3, <1>4 DEF TickedMem

LEMMA TrapVectorType ==
  ASSUME TypeOK
  PROVE  TrapVector \in Word /\ TrapVector % 4 = 0
<1>1. csr[MTVEC] \in Word
  BY CellTypes DEF TypeOK
<1> QED BY <1>1, WordModType DEF TrapVector, Word

-----------------------------------------------------------------------------
(* Ways to leave a routine preserve the types.                             *)

LEMMA PutRdType ==
  ASSUME TypeOK, NEW v \in Word, PutRd(v)
  PROVE  upc' \in Labels /\ ac' \in 0 .. 11 /\ x' \in [Regs \ {0} -> Word]
<1>1. ir.rd \in Regs
  BY IrType DEF TypeOK
<1> QED BY <1>1 DEF PutRd, Done, TypeOK, Labels

LEMMA RaiseType ==
  ASSUME NEW c \in 0 .. 11, Raise(c)
  PROVE  upc' \in Labels /\ ac' \in 0 .. 11
BY DEF Raise, Labels

LEMMA DoneType ==
  ASSUME TypeOK, Done
  PROVE  upc' \in Labels /\ ac' \in 0 .. 11
BY DEF Done, Labels, TypeOK

LEMMA MtvalType ==
  ASSUME NEW r \in [Csrs -> Word], NEW v \in Word
  PROVE  [r EXCEPT ![MTVAL] = v] \in [Csrs -> Word]
BY CellTypes

(* What an instruction may change, with its type.                          *)
ExecType ==
  /\ upc' \in Labels
  /\ ac' \in 0 .. 11
  /\ nextpc' \in Word
  /\ x' \in [Regs \ {0} -> Word]
  /\ csr' \in [Csrs -> Word]
  /\ mem' \in [RamAddr -> Byte]

LEMMA IllegalType ==
  ASSUME TypeOK, Illegal
  PROVE  ExecType
<1>1. ir.code \in Word
  BY IrType DEF TypeOK
<1>2. csr' \in [Csrs -> Word]
  BY <1>1, MtvalType DEF Illegal, TypeOK
<1>3. upc' \in Labels /\ ac' \in 0 .. 11
  BY RaiseType DEF Illegal
<1> QED BY <1>2, <1>3 DEF ExecType, Illegal, TypeOK

(* The effective address of a load or store.                               *)
LEMMA AddressType ==
  ASSUME TypeOK
  PROVE  /\ Plus(Reg(ir.rs1), ir.imm) \in Word
         /\ Plus(Reg(ir.rs1), ir.imm) \in Int
         /\ RamOf(Plus(Reg(ir.rs1), ir.imm)) \in Int
<1>1. ir.rs1 \in Regs /\ ir.imm \in Word
  BY IrType DEF TypeOK
<1>2. Reg(ir.rs1) \in Int /\ ir.imm \in Int
  BY <1>1, RegType, WordsAreNat
<1>3. Plus(Reg(ir.rs1), ir.imm) \in Word
  BY <1>2, PlusType
<1>4. Plus(Reg(ir.rs1), ir.imm) \in Int
  BY <1>3, WordsAreNat
<1>5. RamOf(Plus(Reg(ir.rs1), ir.imm)) \in Int
  BY <1>4, LayoutAssumption, ModRam DEF RamOf, RamAddr
<1> QED BY <1>3, <1>4, <1>5

LEMMA LoadTypes ==
  ASSUME TypeOK, Load
  PROVE  ExecType
<1> DEFINE ea == Plus(Reg(ir.rs1), ir.imm)
           n == AccessBytes(ir.f3)
<1>1. ea \in Word /\ RamOf(ea) \in Int
  BY AddressType
<1>2. n \in 1 .. 4 /\ ir.f3 \in 0 .. 7
  BY IrType, AccessBytesType DEF TypeOK
<1>3. CASE Raise(5) /\ UNCHANGED <<nextpc, x, csr, mem>>
  BY <1>3, RaiseType DEF ExecType, TypeOK
<1>4. CASE Illegal
  BY <1>4, IllegalType
<1>5. CASE DataMisaligned(ea, 4)
  <2>1. csr' \in [Csrs -> Word]
    BY <1>1, <1>5, MtvalType DEF DataMisaligned, TypeOK
  <2>2. upc' \in Labels /\ ac' \in 0 .. 11
    BY <1>5, RaiseType DEF DataMisaligned
  <2> QED BY <1>5, <2>1, <2>2 DEF DataMisaligned, ExecType, TypeOK
<1>6. CASE PutRd(Loaded(RamOf(ea), n, ir.f3 < 4)) /\ UNCHANGED <<nextpc, csr, mem>>
  <2>1. Loaded(RamOf(ea), n, ir.f3 < 4) \in Word
    <3>1. mem \in [RamAddr -> Byte] /\ (ir.f3 < 4) \in BOOLEAN
      BY <1>2 DEF TypeOK
    <3> HIDE DEF ea, n
    <3> QED BY <1>1, <1>2, <3>1, LoadedType
  <2>2. upc' \in Labels /\ ac' \in 0 .. 11 /\ x' \in [Regs \ {0} -> Word]
    BY <1>6, <2>1, PutRdType
  <2> QED BY <1>6, <2>2 DEF ExecType, TypeOK
<1> QED BY <1>3, <1>4, <1>5, <1>6 DEF Load

LEMMA MtimecmpCheckType ==
  ASSUME TypeOK, NEW ea \in Word
  PROVE  AfterMtimecmpCheck(ea) \in [Csrs -> Word]
<1>1. csr[MIP] \in Word
  BY CellTypes DEF TypeOK
<1>2. ClearBit(csr[MIP], MTI) \in Word
  BY <1>1, BitTypes, CellTypes
<1> QED BY <1>2, CellTypes DEF AfterMtimecmpCheck, TypeOK

LEMMA StoreTypes ==
  ASSUME TypeOK, Store
  PROVE  ExecType
<1> DEFINE ea == Plus(Reg(ir.rs1), ir.imm)
           n == AccessBytes(ir.f3)
           csr1 == AfterMtimecmpCheck(ea)
<1>1. ea \in Word /\ RamOf(ea) \in Int
  BY AddressType
<1>2. n \in 1 .. 4 /\ ir.rs2 \in Regs /\ ir.code \in Word
  BY IrType, AccessBytesType DEF TypeOK
<1>3. csr1 \in [Csrs -> Word]
  BY <1>1, MtimecmpCheckType
<1>4. nextpc' \in Word /\ x' \in [Regs \ {0} -> Word]
  BY DEF Store, TypeOK
<1>5. CASE Raise(7) /\ UNCHANGED <<csr, mem>>
  BY <1>4, <1>5, RaiseType DEF ExecType, TypeOK
<1>6. CASE csr' = [csr1 EXCEPT ![MTVAL] = ir.code] /\ Raise(2) /\ UNCHANGED mem
  BY <1>2, <1>3, <1>4, <1>6, RaiseType, MtvalType DEF ExecType, TypeOK
<1>7. CASE csr' = [csr1 EXCEPT ![MTVAL] = ea] /\ Raise(6) /\ UNCHANGED mem
  BY <1>1, <1>3, <1>4, <1>7, RaiseType, MtvalType DEF ExecType, TypeOK
<1>8. CASE csr' = csr1 /\ mem' = Written(mem, RamOf(ea), n, Reg(ir.rs2)) /\ Done
  <2>1. mem' \in [RamAddr -> Byte]
    BY <1>1, <1>2, <1>8, RegType, WrittenType DEF TypeOK
  <2>2. upc' \in Labels /\ ac' \in 0 .. 11
    BY <1>8, DoneType
  <2> QED BY <1>3, <1>4, <1>8, <2>1, <2>2 DEF ExecType
<1> QED BY <1>5, <1>6, <1>7, <1>8 DEF Store
LEMMA SampleTypes ==
  ASSUME TypeOK, \E v \in Samples : PutRd(v)
  PROVE  upc' \in Labels /\ ac' \in 0 .. 11 /\ x' \in [Regs \ {0} -> Word]
<1>1. PICK v \in Samples : PutRd(v)
  OBVIOUS
<1>2. v \in Word
  BY ValueAssumption
<1> QED BY <1>1, <1>2, PutRdType

LEMMA OpTypes ==
  ASSUME TypeOK, Op
  PROVE  ExecType
BY SampleTypes DEF Op, ExecType, TypeOK

LEMMA UpperImmediateTypes ==
  ASSUME TypeOK, UpperImmediate
  PROVE  ExecType
<1> DEFINE v == IF ir.op = "lui" THEN ir.imm ELSE Plus(pc, ir.imm)
<1>1. ir.imm \in Word /\ ir.imm \in Int /\ pc \in Int
  BY IrType, WordsAreNat DEF TypeOK
<1>2. v \in Word
  BY <1>1, PlusType
<1>3. PutRd(v)
  BY DEF UpperImmediate
<1> HIDE DEF v
<1>4. upc' \in Labels /\ ac' \in 0 .. 11 /\ x' \in [Regs \ {0} -> Word]
  BY <1>2, <1>3, PutRdType
<1> QED BY <1>4 DEF UpperImmediate, ExecType, TypeOK

LEMMA BranchTypes ==
  ASSUME TypeOK, Branch
  PROVE  ExecType
<1>1. ir.imm \in Int /\ pc \in Int
  BY IrType, WordsAreNat DEF TypeOK
<1>2. Plus(pc, ir.imm) \in Word
  BY <1>1, PlusType
<1>3. CASE Illegal
  BY <1>3, IllegalType
<1>4. CASE /\ nextpc' = IF BranchCondition THEN Plus(pc, ir.imm) ELSE nextpc
           /\ Done /\ UNCHANGED <<x, csr, mem>>
  BY <1>2, <1>4, DoneType DEF ExecType, TypeOK
<1> QED BY <1>3, <1>4 DEF Branch

LEMMA JalTypes ==
  ASSUME TypeOK, Jal
  PROVE  ExecType
<1>1. ir.imm \in Int /\ pc \in Int /\ nextpc \in Word
  BY IrType, WordsAreNat DEF TypeOK
<1>2. nextpc' \in Word
  BY <1>1, PlusType DEF Jal
<1>3. upc' \in Labels /\ ac' \in 0 .. 11 /\ x' \in [Regs \ {0} -> Word]
  BY <1>1, PutRdType DEF Jal
<1> QED BY <1>2, <1>3 DEF Jal, ExecType, TypeOK

LEMMA JalrTypes ==
  ASSUME TypeOK, Jalr
  PROVE  ExecType
<1> DEFINE target == Plus(Reg(ir.rs1), ir.imm)
<1>1. target \in Word /\ nextpc \in Word
  BY AddressType DEF TypeOK
<1>2. nextpc' = target - (target % 2)
  BY DEF Jalr
<1> HIDE DEF target
<1>3. nextpc' \in Word
  BY <1>1, <1>2, WordModType DEF Word
<1>4. upc' \in Labels /\ ac' \in 0 .. 11 /\ x' \in [Regs \ {0} -> Word]
  BY <1>1, PutRdType DEF Jalr
<1> QED BY <1>3, <1>4 DEF Jalr, ExecType, TypeOK

LEMMA CsrAccessTypes ==
  ASSUME TypeOK, CsrAccess
  PROVE  ExecType
<1> DEFINE c == CsrCell(ir.csr)
<1>1. CASE Illegal
  BY <1>1, IllegalType
<1>2. CASE /\ c \in Csrs
           /\ PutRd(csr[c]) /\ csr' = [csr EXCEPT ![c] = CsrUpdate(@)]
           /\ UNCHANGED <<nextpc, mem>>
  <2>1. csr[c] \in Word
    BY <1>2 DEF TypeOK
  <2>2. CsrUpdate(csr[c]) \in Word
    BY <2>1, CsrUpdateType DEF CsrAccess
  <2>3. csr' \in [Csrs -> Word]
    BY <1>2, <2>2 DEF TypeOK
  <2>4. upc' \in Labels /\ ac' \in 0 .. 11 /\ x' \in [Regs \ {0} -> Word]
    BY <1>2, <2>1, PutRdType
  <2> QED BY <1>2, <2>3, <2>4 DEF ExecType, TypeOK
<1>3. CASE /\ \E v \in Samples : PutRd(v)
           /\ UNCHANGED <<csr, nextpc, mem>>
  BY <1>3, SampleTypes DEF ExecType, TypeOK
<1> QED BY <1>1, <1>2, <1>3 DEF CsrAccess

LEMMA SystemMiscTypes ==
  ASSUME TypeOK, SystemMisc
  PROVE  ExecType
<1>1. CASE Raise(11) /\ UNCHANGED <<nextpc, x, csr, mem>>
  BY <1>1, RaiseType DEF ExecType, TypeOK
<1>2. CASE Raise(3) /\ UNCHANGED <<nextpc, x, csr, mem>>
  BY <1>2, RaiseType DEF ExecType, TypeOK
<1>3. CASE Illegal
  BY <1>3, IllegalType
<1> QED BY <1>1, <1>2, <1>3 DEF SystemMisc

LEMMA MretTypes ==
  ASSUME TypeOK, Mret
  PROVE  ExecType
<1>1. csr[MSTATUS] \in Word /\ csr[MEPC] \in Word
  BY CellTypes DEF TypeOK
<1>2. csr' \in [Csrs -> Word]
  BY <1>1, StatusTypes, CellTypes DEF Mret, TypeOK
<1> QED BY <1>1, <1>2, DoneType DEF Mret, ExecType, TypeOK

LEMMA ExecuteTypes ==
  ASSUME TypeOK, Execute
  PROVE  TypeOK'
<1>1. ExecType
  <2>1. CASE NoEffect
    BY <2>1, DoneType DEF NoEffect, ExecType, TypeOK
  <2>2. CASE IllegalOpcode
    BY <2>2, IllegalType DEF IllegalOpcode
  <2> QED
    BY <2>1, <2>2, LoadTypes, StoreTypes, OpTypes, UpperImmediateTypes,
       BranchTypes, JalTypes, JalrTypes, CsrAccessTypes, SystemMiscTypes,
       MretTypes
    DEF Execute
<1> QED BY <1>1 DEF ExecType, Execute, TypeOK

-----------------------------------------------------------------------------
(* Type correctness.                                                       *)

LEMMA TypeInit == Init => TypeOK
<1> SUFFICES ASSUME Init PROVE TypeOK
  OBVIOUS
<1>1. \A w \in ImageWords : w \in Word
  BY ValueAssumption
<1>2. ir \in Instr
  BY CodeAssumption, AddrModType DEF Init
<1>3. mem \in [RamAddr -> Byte]
  BY ValueAssumption DEF Init, RamAddr
<1>4. x \in [Regs \ {0} -> Word]
  BY <1>1 DEF Init
<1>5. nextpc \in Word /\ pc \in Word /\ csr \in [Csrs -> Word]
  BY <1>1 DEF Init
<1> QED BY <1>2, <1>3, <1>4, <1>5 DEF Init, TypeOK, Labels, BssWords

LEMMA TypeStep == TypeOK /\ [Next]_vars => TypeOK'
<1> SUFFICES ASSUME TypeOK, [Next]_vars PROVE TypeOK'
  OBVIOUS
<1>1. CASE UcReset
  BY <1>1 DEF UcReset, TypeOK, Labels, BssWords
<1>2. CASE RLoop
  BY <1>2, SmallWords DEF RLoop, TypeOK, Labels, BssWords
<1>3. CASE MainLoopMisaligned
  BY <1>3, MtvalType, RaiseType DEF MainLoopMisaligned, TypeOK
<1>4. CASE PcAlignmentOk
  <2>1. mem' \in [RamAddr -> Byte]
    BY <1>4, TickedMemType DEF PcAlignmentOk, TypeOK
  <2>2. SetBit(csr[MIP], MTI) \in Word
    BY CellTypes, BitTypes DEF TypeOK
  <2>3. csr' \in [Csrs -> Word]
    BY <1>4, <2>2, CellTypes DEF PcAlignmentOk, TypeOK
  <2> QED BY <1>4, <2>1, <2>3 DEF PcAlignmentOk, TypeOK, Labels
<1>5. CASE Interrupt
  <2>1. TopBit + InterruptCode \in Word
    BY TopBitType DEF InterruptCode
  <2> QED BY <1>5, <2>1, CellTypes DEF Interrupt, TypeOK, Labels
<1>6. CASE NoInterrupt
  BY <1>6 DEF NoInterrupt, TypeOK, Labels
<1>7. CASE Trap
  <2>1. ac \in Word
    BY SmallWords DEF TypeOK
  <2> QED BY <1>7, <2>1, CellTypes DEF Trap, TypeOK, Labels
<1>8. CASE Trap1
  <2>1. TrapStatus(csr[MSTATUS]) \in Word
    BY StatusTypes, CellTypes DEF TypeOK
  <2>2. csr' \in [Csrs -> Word]
    BY <1>8, <2>1, CellTypes DEF Trap1, TypeOK
  <2>3. pc' \in Word
    BY <1>8, TrapVectorType DEF Trap1
  <2> QED BY <1>8, <2>2, <2>3 DEF Trap1, TypeOK, Labels
<1>9. CASE Fetch
  <2>1. nextpc' \in Word
    BY <1>9, PlusType, WordsAreNat DEF Fetch, TypeOK
  <2>2. pc % AddrMod \in 0 .. AddrMod - 1
    BY ModRam, WordsAreNat DEF TypeOK, RamAddr
  <2>3. ir' \in Instr /\ upc' \in Labels /\ ac' \in 0 .. 11
    BY <1>9, <2>2, CodeAssumption, RaiseType DEF Fetch, TypeOK, Labels
  <2> QED BY <1>9, <2>1, <2>3 DEF Fetch, TypeOK
<1>10. CASE Execute
  BY <1>10, ExecuteTypes
<1>11. CASE ExternalReset
  BY <1>11 DEF ExternalReset, TypeOK, Labels
<1>12. CASE UNCHANGED vars
  BY <1>12 DEF vars, TypeOK
<1> QED
  BY <1>1, <1>2, <1>3, <1>4, <1>5, <1>6, <1>7, <1>8, <1>9, <1>10, <1>11, <1>12
  DEF Next, Step

(* Whatever the sizes, the memory layout, the programs and the interrupts, *)
(* every register and CSR stays a word, every cell of the RAM a byte, and  *)
(* the microprogram at one of its labels.                                  *)
THEOREM TypeCorrect == Spec => []TypeOK
<1> QED BY TypeInit, TypeStep, PTL DEF Spec
-----------------------------------------------------------------------------
(* Alignment of the program counter.                                       *)

(* FetchAligned is inductive given the types: pc changes only where it is  *)
(* checked (pc_alignment_ok) or masked (trap1).                            *)
LEMMA AlignedStep == TypeOK /\ FetchAligned /\ [Next]_vars => FetchAligned'
<1> SUFFICES ASSUME TypeOK, FetchAligned, [Next]_vars PROVE FetchAligned'
  OBVIOUS
<1> USE DEF FetchAligned
<1>1. CASE UcReset \/ RLoop
  BY <1>1 DEF UcReset, RLoop
<1>2. CASE MainLoopMisaligned
  BY <1>2 DEF MainLoopMisaligned, Raise
<1>3. CASE PcAlignmentOk
  BY <1>3 DEF PcAlignmentOk
<1>4. CASE Interrupt
  BY <1>4 DEF Interrupt
<1>5. CASE NoInterrupt
  BY <1>5 DEF NoInterrupt
<1>6. CASE Trap
  BY <1>6 DEF Trap
<1>7. CASE Trap1
  BY <1>7, TrapVectorType DEF Trap1
<1>8. CASE Fetch
  BY <1>8 DEF Fetch, Raise
<1>9. CASE Execute
  <2>1. upc' \in {"main_loop", "trap"}
    BY <1>9
    DEF Execute, Load, Store, Op, UpperImmediate, Branch, Jal, Jalr, NoEffect,
        CsrAccess, SystemMisc, Mret, IllegalOpcode, Illegal, DataMisaligned,
        PutRd, Done, Raise
  <2> QED BY <2>1
<1>10. CASE ExternalReset
  BY <1>10 DEF ExternalReset
<1>11. CASE UNCHANGED vars
  BY <1>11 DEF vars
<1> QED
  BY <1>1, <1>2, <1>3, <1>4, <1>5, <1>6, <1>7, <1>8, <1>9, <1>10, <1>11
  DEF Next, Step

(* No instruction is ever started or fetched at a misaligned address,      *)
(* whatever programs write to mtvec and mepc.                              *)
THEOREM AlwaysAligned == Spec => []FetchAligned
<1>1. Init => FetchAligned
  BY DEF Init, FetchAligned
<1>2. TypeOK /\ FetchAligned /\ [Next]_vars => FetchAligned'
  BY AlignedStep
<1> QED BY <1>1, <1>2, TypeCorrect, PTL DEF Spec

-----------------------------------------------------------------------------
(* The reset loop.                                                         *)

(* The strengthening: the loop has cleared the cells from the top down to  *)
(* its counter.                                                            *)
ResetProgress ==
  upc = "rloop" =>
    /\ \A c \in Csrs : c >= rloop - 1 => csr[c] = 0
    /\ rloop = 0 => nextpc = 0

LEMMA ResetInit == Init => ResetProgress
BY DEF Init, ResetProgress

LEMMA ResetStep == TypeOK /\ ResetProgress /\ [Next]_vars => ResetProgress'
<1> SUFFICES ASSUME TypeOK, ResetProgress, [Next]_vars PROVE ResetProgress'
  OBVIOUS
<1>1. CASE UcReset
  BY <1>1 DEF UcReset, ResetProgress, BssWords, Csrs
<1>2. CASE RLoop
  <2>1. CASE rloop = 0
    BY <1>2, <2>1 DEF RLoop, ResetProgress
  <2>2. CASE rloop # 0
    BY <1>2, <2>2 DEF RLoop, ResetProgress, TypeOK, Csrs, BssWords
  <2> QED BY <2>1, <2>2
<1>3. CASE upc' # "rloop"
  BY <1>3 DEF ResetProgress
<1>4. CASE UNCHANGED vars
  BY <1>4 DEF vars, ResetProgress
<1>5. ASSUME Next, ~UcReset, ~RLoop PROVE upc' # "rloop"
  BY <1>5
  DEF Next, Step, ExternalReset, MainLoopMisaligned, PcAlignmentOk, Interrupt,
      NoInterrupt, Trap, Trap1, Fetch,
      Execute, Load, Store, Op, UpperImmediate, Branch, Jal, Jalr, NoEffect,
      CsrAccess, SystemMisc, Mret, IllegalOpcode, Illegal, DataMisaligned,
      PutRd, Done, Raise
<1> QED BY <1>1, <1>2, <1>3, <1>4, <1>5

(* When the reset loop hands over to main_loop every CSR and nextpc is     *)
(* zero, however often the reset input was asserted and wherever it struck.*)
THEOREM ResetIsClean == Spec => ResetClean
<1>1. /\ TypeOK /\ ResetProgress /\ [Next]_vars
      => [upc = "rloop" /\ upc' = "main_loop" =>
            nextpc' = 0 /\ \A c \in Csrs : csr'[c] = 0]_vars
  <2> SUFFICES ASSUME TypeOK, ResetProgress, [Next]_vars,
                      upc = "rloop", upc' = "main_loop"
               PROVE  nextpc' = 0 /\ \A c \in Csrs : csr'[c] = 0
    OBVIOUS
  <2>1. RLoop
    BY
    DEF Next, Step, ExternalReset, UcReset, MainLoopMisaligned, PcAlignmentOk,
        Interrupt, NoInterrupt, Trap, Trap1, Fetch, Execute, vars
  <2>2. rloop = 0
    BY <2>1 DEF RLoop
  <2> QED BY <2>1, <2>2 DEF RLoop, ResetProgress, Csrs
<1> QED BY <1>1, ResetInit, ResetStep, TypeCorrect, PTL DEF Spec, ResetClean
-----------------------------------------------------------------------------
(* The microcode is never overwritten.                                     *)

LEMMA ModNegative ==
  ASSUME NEW m \in Nat, NEW d \in Int, d < 0, -m < d
  PROVE  d % m = d + m
OBVIOUS

(* A multiple of 4 (of 2) is one still modulo the size of the RAM.         *)
LEMMA ModAligned ==
  ASSUME NEW a \in Nat
  PROVE  /\ a % 4 = 0 => (a % AddrMod) % 4 = 0
         /\ a % 2 = 0 => (a % AddrMod) % 2 = 0
<1> DEFINE q == a \div AddrMod
<1>1. AddrMod \in Nat /\ AddrMod > 0
  BY AddrModType
<1>2. q \in Int /\ a % AddrMod \in Int /\ a = AddrMod * q + (a % AddrMod)
  BY <1>1
<1>3. PICK j \in Nat : AddrMod = 4 * j
  BY <1>1, LayoutAssumption
<1> HIDE DEF q
<1>4. AddrMod * q = 4 * (j * q) /\ j * q \in Int
  <2>1. \A i, k \in Int : (4 * i) * k = 4 * (i * k) /\ i * k \in Int
    OBVIOUS
  <2> QED BY <1>2, <1>3, <2>1
<1>5. PICK h \in Int : a = 4 * h + (a % AddrMod)
  BY <1>2, <1>4
<1> QED BY <1>2, <1>5

(* n bytes written from y on that end inside the RAM leave what is below y.*)
LEMMA WrittenAbove ==
  ASSUME NEW m, NEW y \in Nat, NEW n \in 1 .. 4, NEW w,
         y + n <= AddrMod, NEW a \in RamAddr, a < y
  PROVE  Written(m, y, n, w)[a] = m[a]
<1>1. (a - y) % AddrMod = a - y + AddrMod
  BY ModNegative, AddrModType DEF RamAddr
<1>2. ~((a - y) % AddrMod < n)
  BY <1>1, AddrModType DEF RamAddr
<1> QED BY <1>2 DEF Written

LEMMA TickAbove ==
  ASSUME NEW m, NEW w, NEW a \in 0 .. Offset - 1
  PROVE  TickedMem(m, w)[a] = m[a]
<1> DEFINE lo == Plus(WordAt(m, MTimeRam), 1)
           m1 == Written(m, MTimeRam, 4, lo)
<1>1. a \in RamAddr /\ a < MTimeRam /\ MTimeRam \in Nat /\ MTimeRam + 8 <= AddrMod
  BY LayoutAssumption DEF RamAddr, MTimeRam
<1>2. m1[a] = m[a]
  BY <1>1, AddrModType, WrittenAbove
<1>3. Written(m1, MTimeRam + 4, 4, w)[a] = m1[a]
  <2> HIDE DEF m1
  <2> QED BY <1>1, AddrModType, WrittenAbove
<1> QED BY <1>2, <1>3 DEF TickedMem

(* An aligned access that does not fault ends inside the RAM.              *)
LEMMA AlignedFits ==
  ASSUME NEW ea \in Nat, ~Faults(ea), NEW n \in {1, 2, 4}, ea % n = 0
  PROVE  RamOf(ea) \in Nat /\ RamOf(ea) >= Offset /\ RamOf(ea) + n <= AddrMod
<1> DEFINE r == ea % AddrMod
<1>1. r \in Nat /\ r + Offset < AddrMod
  <2>1. ea % AddrMod \in 0 .. AddrMod - 1
    BY ModRam DEF RamAddr
  <2> QED BY <2>1, LayoutAssumption DEF Faults
<1>2. (n = 4 => r % 4 = 0) /\ (n = 2 => r % 2 = 0)
  BY ModAligned
<1> HIDE DEF r
<1>3. r + Offset + n <= AddrMod
  BY <1>1, <1>2, LayoutAssumption
<1>4. RamOf(ea) = r + Offset
  BY DEF RamOf, r
<1> QED BY <1>1, <1>3, <1>4, LayoutAssumption

LEMMA StoreAbove ==
  ASSUME TypeOK, MisalignedDataTrap, Store, NEW a \in 0 .. Offset - 1
  PROVE  mem'[a] = mem[a]
<1> DEFINE ea == Plus(Reg(ir.rs1), ir.imm)
           n == AccessBytes(ir.f3)
<1>1. CASE UNCHANGED mem
  BY <1>1
<1>2. CASE /\ ~Faults(ea) /\ ir.f3 \in 0 .. 2 /\ ~Misaligned(ea, n)
           /\ mem' = Written(mem, RamOf(ea), n, Reg(ir.rs2))
  <2>1. ea \in Nat
    BY AddressType, WordsAreNat
  <2>2. n \in {1, 2, 4} /\ ea % n = 0
    BY <1>2 DEF AccessBytes, Misaligned
  <2> HIDE DEF ea, n
  <2>3. RamOf(ea) \in Nat /\ RamOf(ea) >= Offset /\ RamOf(ea) + n <= AddrMod
    BY <1>2, <2>1, <2>2, AlignedFits
  <2>4. a \in RamAddr /\ a < RamOf(ea)
    BY <2>3, LayoutAssumption DEF RamAddr
  <2> QED BY <1>2, <2>2, <2>3, <2>4, WrittenAbove
<1> QED BY <1>1, <1>2 DEF Store

(* With ft_misaligned_data_trap, as the code is built, no store of any     *)
(* program changes a byte below riscv_mem_offset, microcode included.      *)
THEOREM MicrocodeIsIntact == MisalignedDataTrap => (Spec => MicrocodeIntact)
<1> SUFFICES ASSUME MisalignedDataTrap PROVE Spec => MicrocodeIntact
  OBVIOUS
<1>1. TypeOK /\ [Next]_vars => [\A a \in 0 .. Offset - 1 : mem'[a] = mem[a]]_vars
  <2> SUFFICES ASSUME TypeOK, Next, NEW a \in 0 .. Offset - 1
               PROVE  mem'[a] = mem[a]
    OBVIOUS
  <2>1. CASE PcAlignmentOk
    BY <2>1, TickAbove DEF PcAlignmentOk
  <2>2. CASE Execute
    <3>1. CASE Store
      BY <3>1, StoreAbove
    <3>2. CASE ~Store
      BY <2>2, <3>2
      DEF Execute, Load, Op, UpperImmediate, Branch, Jal, Jalr, NoEffect,
          CsrAccess, SystemMisc, Mret, IllegalOpcode, Illegal, DataMisaligned
    <3> QED BY <3>1, <3>2
  <2>3. CASE ~PcAlignmentOk /\ ~Execute
    BY <2>3
    DEF Next, Step, ExternalReset, UcReset, RLoop, MainLoopMisaligned,
        Interrupt, NoInterrupt, Trap, Trap1, Fetch
  <2> QED BY <2>1, <2>2, <2>3
<1> QED BY <1>1, TypeCorrect, PTL DEF Spec, MicrocodeIntact

(***************************************************************************)
(* A word is put together again from its bytes.                            *)
(***************************************************************************)
LEMMA Unique ==
  ASSUME NEW d \in Nat, d > 0, NEW p \in Int, NEW t \in 0 .. d - 1,
         NEW v \in Int, v = d * p + t
  PROVE  v \div d = p
<1>1. v \div d \in Int /\ v % d \in 0 .. d - 1 /\ v = d * (v \div d) + (v % d)
  OBVIOUS
<1> DEFINE q == v \div d
           r == v % d
<1>2. d * (p - q) = r - t
  <2> HIDE DEF q, r
  <2>1. q \in Int /\ r \in Int /\ d * q + r = d * p + t
    BY <1>1 DEF q, r
  <2>2. d * (p - q) = d * p - d * q
    BY <2>1
  <2> QED BY <2>1, <2>2
<1> HIDE DEF q, r
<1>3. q \in Int /\ r \in 0 .. d - 1
  BY <1>1 DEF q, r
<1>4. CASE p - q >= 1
  <2>1. d * (p - q) >= d
    BY <1>3, <1>4
  <2> QED BY <2>1, <1>2, <1>3
<1>5. CASE p - q <= -1
  <2>1. d * (p - q) <= -d
    BY <1>3, <1>5
  <2> QED BY <2>1, <1>2, <1>3
<1>6. CASE p = q
  BY <1>6 DEF q
<1>7. p - q >= 1 \/ p - q <= -1 \/ p = q
  BY <1>3
<1> QED BY <1>4, <1>5, <1>6, <1>7

LEMMA DivDiv ==
  ASSUME NEW m \in Nat, NEW n \in Nat, m > 0, n > 0, NEW a \in Nat
  PROVE  a \div (m * n) = (a \div m) \div n
<1> DEFINE q == a \div m
           r == a % m
           p == q \div n
           s == q % n
<1>1. q \in Nat /\ r \in 0 .. m - 1 /\ a = m * q + r
  <2>1. q \in Int /\ r \in 0 .. m - 1 /\ a = m * q + r
    OBVIOUS
  <2>2. q >= 0
    OBVIOUS
  <2> QED BY <2>1, <2>2
<1>2. p \in Nat /\ s \in 0 .. n - 1 /\ q = n * p + s
  <2> HIDE DEF q, r
  <2> QED BY <1>1
<1> HIDE DEF q, r, p, s
<1>3. m * q = (m * n) * p + m * s
  BY <1>1, <1>2
<1>4. m * s + r \in 0 .. m * n - 1
  <2>1. m * s >= 0 /\ m * (n - 1 - s) >= 0
    BY <1>2
  <2>2. m * (n - 1 - s) = m * n - m - m * s
    BY <1>2
  <2> QED BY <2>1, <2>2, <1>1, <1>2
<1>5. m * n \in Nat /\ m * n > 0
  OBVIOUS
<1>6. a = (m * n) * p + (m * s + r)
  BY <1>1, <1>2, <1>3, <1>5
<1>7. a \div (m * n) = p
  BY <1>2, <1>4, <1>5, <1>6, Unique
<1> QED BY <1>7 DEF p, q

LEMMA WordOfBytes ==
  ASSUME NEW w \in Word
  PROVE  WordOf([k \in 0 .. 3 |-> ByteOf(w, k)]) = w
<1> DEFINE B == ByteMod
           q1 == w \div B
           q2 == q1 \div B
           q3 == q2 \div B
<1>1. B \in Nat /\ B > 0
  BY ByteModAssumption
<1>2. w \in Nat
  BY WordsAreNat
<1>3. q1 \in Nat /\ w = B * q1 + (w % B)
  BY <1>1, <1>2
<1>4. q2 \in Nat /\ q1 = B * q2 + (q1 % B)
  <2> HIDE DEF q1
  <2> QED BY <1>1, <1>3
<1>5. q3 \in Nat /\ q2 = B * q3 + (q2 % B)
  <2> HIDE DEF q2
  <2> QED BY <1>1, <1>4
<1>6. B * B \in Nat /\ B * B > 0 /\ B * (B * B) \in Nat /\ B * (B * B) > 0
  BY <1>1
<1>7. w \div (B * B) = q2
  BY <1>1, <1>2, DivDiv
<1>8. w \div (B * (B * B)) = q3
  <2>1. w \div (B * (B * B)) = q1 \div (B * B)
    BY <1>1, <1>2, <1>6, DivDiv
  <2>2. q1 \div (B * B) = q2 \div B
    BY <1>1, <1>3, DivDiv
  <2> QED BY <2>1, <2>2
<1>9. q3 < B
  <2> DEFINE C == B * (B * B)
  <2>1. w < C * B
    <3>1. w < B * C
      <4>1. w < WordMod
        BY WordModType DEF Word
      <4>2. WordMod = B * C
        BY DEF WordMod
      <4> QED BY <4>1, <4>2
    <3>2. B * C = C * B
      BY <1>1, <1>6
    <3> QED BY <3>1, <3>2
  <2>2. w >= C * q3
    <3> HIDE DEF C
    <3>1. C \in Nat /\ C > 0 /\ w \div C = q3
      BY <1>6, <1>8 DEF C
    <3>2. /\ w = C * (w \div C) + (w % C)
          /\ w % C \in 0 .. C - 1
          /\ w \div C \in Int
      <4>1. \A a, d \in Nat :
              d > 0 => /\ a = d * (a \div d) + (a % d)
                       /\ a % d \in 0 .. d - 1
                       /\ a \div d \in Int
        OBVIOUS
      <4> QED BY <4>1, <3>1, <1>2
    <3> HIDE DEF q3
    <3>3. w = C * q3 + (w % C) /\ C * q3 \in Int
      BY <3>1, <3>2, <1>5
    <3> QED BY <3>2, <3>3, <1>2
  <2>3. C \in Nat /\ C > 0
    BY <1>6
  <2> HIDE DEF C, q3
  <2>4. C * q3 < C * B /\ C * q3 \in Int /\ C * B \in Int
    BY <2>1, <2>2, <2>3, <1>1, <1>2, <1>5
  <2>5. CASE q3 >= B
    <3>1. C * (q3 - B) >= 0
      BY <2>3, <2>5, <1>1, <1>5
    <3>2. C * (q3 - B) = C * q3 - C * B
      BY <2>3, <1>1, <1>5
    <3> QED BY <3>1, <3>2, <2>4
  <2> QED BY <2>5, <1>1, <1>5
<1>10. q3 % B = q3
  <2> HIDE DEF q3
  <2> QED BY <1>1, <1>5, <1>9
<1>11. /\ ByteOf(w, 0) = w % B /\ ByteOf(w, 1) = q1 % B
       /\ ByteOf(w, 2) = q2 % B /\ ByteOf(w, 3) = q3
  <2>1. /\ Place[0] = 1
        /\ Place[1] = B
        /\ Place[2] = B * B
        /\ Place[3] = B * (B * B)
    BY DEF Place
  <2>2. w \div 1 = w
    BY <1>2
  <2> HIDE DEF q1, q2, q3
  <2>3. w \div B = q1
    BY DEF q1
  <2> QED BY <2>1, <2>2, <2>3, <1>7, <1>8, <1>10 DEF ByteOf
<1> HIDE DEF q1, q2, q3
<1>12. WordOf([k \in 0 .. 3 |-> ByteOf(w, k)])
         = (w % B) + B * ((q1 % B) + B * ((q2 % B) + B * q3))
  BY <1>11 DEF WordOf
<1> QED BY <1>3, <1>4, <1>5, <1>12, <1>1, <1>2

-----------------------------------------------------------------------------
(***************************************************************************)
(* Reading back what was written                                           *)
(***************************************************************************)
LEMMA Inside ==
  ASSUME NEW y \in Nat, y + 4 <= AddrMod, NEW k \in 0 .. 3
  PROVE  /\ (y + k) % AddrMod = y + k
         /\ y + k \in RamAddr
         /\ ((y + k) - y) % AddrMod = k
BY AddrModType DEF RamAddr

LEMMA WordAtWritten ==
  ASSUME NEW m, NEW y \in Nat, y + 4 <= AddrMod, NEW w \in Word
  PROVE  WordAt(Written(m, y, 4, w), y) = w
<1>1. \A k \in 0 .. 3 : Written(m, y, 4, w)[(y + k) % AddrMod] = ByteOf(w, k)
  <2> SUFFICES ASSUME NEW k \in 0 .. 3
               PROVE  Written(m, y, 4, w)[(y + k) % AddrMod] = ByteOf(w, k)
    OBVIOUS
  <2>1. /\ (y + k) % AddrMod = y + k
        /\ y + k \in RamAddr
        /\ ((y + k) - y) % AddrMod = k
        /\ k < 4
    BY Inside, SMTT(30)
  <2> QED BY <2>1, Zenon DEF Written
<1>2. [k \in 0 .. 3 |-> Written(m, y, 4, w)[(y + k) % AddrMod]]
        = [k \in 0 .. 3 |-> ByteOf(w, k)]
  BY <1>1
<1> QED BY <1>2, WordOfBytes DEF WordAt

(* Memories that agree on the four bytes of mtime hold the same time.      *)
LEMMA SameTime ==
  ASSUME NEW m, NEW n, \A k \in 0 .. 3 : m[MTimeRam + k] = n[MTimeRam + k]
  PROVE  WordAt(m, MTimeRam) = WordAt(n, MTimeRam)
<1>1. MTimeRam \in Nat /\ MTimeRam + 4 <= AddrMod
  BY LayoutAssumption DEF MTimeRam
<1>2. \A k \in 0 .. 3 : (MTimeRam + k) % AddrMod = MTimeRam + k
  BY <1>1, Inside
<1>3. [k \in 0 .. 3 |-> m[(MTimeRam + k) % AddrMod]]
        = [k \in 0 .. 3 |-> n[(MTimeRam + k) % AddrMod]]
  BY <1>2
<1> QED BY <1>3 DEF WordAt

(* The tick adds one to the lower word, whatever it does to the upper one. *)
LEMMA Tick ==
  ASSUME NEW m \in [RamAddr -> Byte], NEW w
  PROVE  WordAt(TickedMem(m, w), MTimeRam) = Plus(WordAt(m, MTimeRam), 1)
<1> DEFINE lo == Plus(WordAt(m, MTimeRam), 1)
           m1 == Written(m, MTimeRam, 4, lo)
<1>1. MTimeRam \in Nat /\ MTimeRam + 8 <= AddrMod
  BY LayoutAssumption DEF MTimeRam
<1>2. lo \in Word
  <2>1. WordAt(m, MTimeRam) \in Int
    BY <1>1, WordAtType, WordsAreNat
  <2> QED BY <2>1, PlusType
<1> HIDE DEF lo
<1>3. WordAt(m1, MTimeRam) = lo
  BY <1>1, <1>2, AddrModType, WordAtWritten
<1> HIDE DEF m1
<1>4. WordAt(Written(m1, MTimeRam + 4, 4, w), MTimeRam) = WordAt(m1, MTimeRam)
  <2>1. ASSUME NEW k \in 0 .. 3
        PROVE  Written(m1, MTimeRam + 4, 4, w)[MTimeRam + k] = m1[MTimeRam + k]
    <3>1. /\ MTimeRam + k \in RamAddr
          /\ MTimeRam + k < MTimeRam + 4
          /\ MTimeRam + 4 \in Nat
            /\ (MTimeRam + 4) + 4 <= AddrMod
      BY <1>1, AddrModType DEF RamAddr
    <3> QED BY <3>1, WrittenAbove
  <2> QED BY <2>1, SameTime
<1>5. TickedMem(m, w) = IF lo = 0 THEN Written(m1, MTimeRam + 4, 4, w) ELSE m1
  BY DEF TickedMem, lo, m1
<1> QED BY <1>3, <1>4, <1>5 DEF lo

-----------------------------------------------------------------------------
(***************************************************************************)
(* The steps                                                               *)
(***************************************************************************)

(* Before the reset loop is left nothing has been counted.                 *)
NothingCounted == Resetting => retired = 0 /\ WordAt(mem, MTimeRam) = base

CountInv ==
  /\ base \in Word /\ retired \in Word /\ written \in BOOLEAN
  /\ ~written => NothingCounted /\ TimeCountsInstructions

LEMMA Wraps ==
  ASSUME NEW m \in Nat, NEW u \in Nat, u < 2 * m
  PROVE  u % m = IF u < m THEN u ELSE u - m
<1>1. CASE u < m
  BY <1>1
<1>2. CASE u >= m
  <2>1. (u - m) + m = u /\ u - m \in 0 .. m - 1
    BY <1>2
  <2>2. u % m = (u - m) % m
    BY <1>2
  <2> QED BY <2>1, <2>2, <1>2
<1> QED BY <1>1, <1>2

LEMMA Adding ==
  ASSUME NEW a \in Word, NEW b \in Word
  PROVE  /\ Plus((a + b + 0) % WordMod, 1) = (a + b + 1) % WordMod
         /\ (a + Plus(b, 1) + 0) % WordMod = (a + b + 1) % WordMod
         /\ (a + 0 + 0) % WordMod = a
<1> DEFINE M  == WordMod
           u1 == a + b + 0
           u2 == b + 1
           u3 == (u1 % M) + 1
           u4 == a + (u2 % M) + 0
           u5 == a + b + 1
<1>1. M \in Nat /\ M > 0 /\ a \in 0 .. M - 1 /\ b \in 0 .. M - 1
  BY WordModType DEF Word
<1> HIDE DEF M
<1>2. /\ u1 \in Nat
      /\ u1 < 2 * M
      /\ u2 \in Nat
      /\ u2 < 2 * M
      /\ u5 \in Nat
      /\ u5 < 2 * M
  BY <1>1
<1>3. u1 = a + b /\ u2 = b + 1 /\ u5 = a + b + 1
  BY <1>1
<1> HIDE DEF u1, u2, u5
<1>4. /\ u1 % M = IF u1 < M THEN u1 ELSE u1 - M
      /\ u2 % M = IF u2 < M THEN u2 ELSE u2 - M
      /\ u5 % M = IF u5 < M THEN u5 ELSE u5 - M
  BY <1>1, <1>2, Wraps
<1>5. u3 \in Nat /\ u3 < 2 * M /\ u4 \in Nat /\ u4 < 2 * M
  BY <1>1, <1>2, <1>3, <1>4
<1>6. /\ u3 = (IF u1 < M THEN u1 ELSE u1 - M) + 1
      /\ u4 = a + (IF u2 < M THEN u2 ELSE u2 - M)
  BY <1>1, <1>2, <1>4
<1> HIDE DEF u3, u4
<1>7. /\ u3 % M = IF u3 < M THEN u3 ELSE u3 - M
      /\ u4 % M = IF u4 < M THEN u4 ELSE u4 - M
  BY <1>1, <1>5, Wraps
<1>8. u3 % M = u5 % M /\ u4 % M = u5 % M
  BY <1>1, <1>3, <1>4, <1>6, <1>7
<1>9. (a + 0 + 0) % M = a
  BY <1>1
<1> QED BY <1>8, <1>9 DEF M, u1, u2, u3, u4, u5, Plus

(* Where a step of the interpreter can go.                                 *)
LEMMA Leaves ==
  ASSUME TypeOK, Execute
  PROVE  upc' \in {"main_loop", "trap"}
BY DEF Execute, Load, Store, Op, UpperImmediate, Branch, Jal, Jalr, NoEffect,
       CsrAccess, SystemMisc, Mret, IllegalOpcode, Illegal, DataMisaligned,
       PutRd, Done, Raise

(* Only the execution of an instruction changes the history variables.     *)
LEMMA Quiet ==
  ASSUME CountInv, HistNext, upc # "inst_32bit"
  PROVE  retired' = retired /\ base' = base /\ written' = written
<1>1. ~StoresToTime /\ ~Completes
  BY DEF StoresToTime, Completes
<1>2. written \in BOOLEAN /\ written' = (written \/ StoresToTime)
  BY Zenon DEF CountInv, HistNext
<1>3. written' = written
  BY <1>1, <1>2, Zenon
<1>4. retired' = retired
  BY <1>1, Zenon DEF HistNext
<1> QED BY <1>3, <1>4 DEF HistNext

(* What a step that completes nothing and leaves mtime alone preserves.    *)
LEMMA NoCount ==
  ASSUME TypeOK, CountInv, HistNext, upc # "inst_32bit", UNCHANGED mem,
         ~Resetting, ~Resetting', InProgress' = InProgress
  PROVE  CountInv'
<1>1. retired' = retired /\ base' = base /\ written' = written
  BY Quiet
<1>2. WordAt(mem', MTimeRam) = WordAt(mem, MTimeRam)
  OBVIOUS
<1>3. NothingCounted'
  BY DEF NothingCounted
<1>4. ASSUME ~written PROVE TimeCountsInstructions'
  <2>1. WordAt(mem, MTimeRam)
          = (base + retired + (IF InProgress THEN 1 ELSE 0)) % WordMod
    BY <1>4 DEF CountInv, TimeCountsInstructions
  <2> QED BY <2>1, <1>1, <1>2 DEF TimeCountsInstructions
<1> QED BY <1>1, <1>3, <1>4 DEF CountInv

(* The reset loop, left once.                                              *)
LEMMA ResetCount ==
  ASSUME TypeOK, ResetProgress, CountInv, HistNext, UcReset \/ RLoop
  PROVE  CountInv'
<1>1. UNCHANGED mem /\ upc # "inst_32bit" /\ Resetting
  BY DEF UcReset, RLoop, Resetting
<1>2. retired' = retired /\ base' = base /\ written' = written
  BY <1>1, Quiet
<1>3. ASSUME ~written PROVE retired = 0 /\ WordAt(mem, MTimeRam) = base
  BY <1>1, <1>3 DEF CountInv, NothingCounted
<1>4. ASSUME ~written PROVE NothingCounted'
  BY <1>1, <1>2, <1>3, <1>4 DEF NothingCounted
<1>5. ASSUME ~written, ~Resetting' PROVE TimeCountsInstructions'
  <2>1. upc' = "main_loop" /\ nextpc' = 0
    BY <1>5 DEF UcReset, RLoop, Resetting, ResetProgress
  <2>2. ~InProgress'
    BY <2>1 DEF InProgress
  <2>3. (base + 0 + 0) % WordMod = base
    BY Adding DEF CountInv
  <2> QED BY <1>1, <1>2, <1>3, <1>5, <2>2, <2>3 DEF TimeCountsInstructions
<1>6. ASSUME ~written, Resetting' PROVE TimeCountsInstructions'
  BY <1>6 DEF TimeCountsInstructions
<1> QED BY <1>2, <1>4, <1>5, <1>6 DEF CountInv

(* The tick at the start of an instruction.                                *)
LEMMA TickCount ==
  ASSUME TypeOK, CountInv, HistNext, PcAlignmentOk
  PROVE  CountInv'
<1>1. /\ upc = "main_loop"
      /\ nextpc % 4 = 0
      /\ upc' = "loop2"
      /\ mem' = TickedMem(mem, nextpc)
  BY DEF PcAlignmentOk
<1>2. ~Resetting /\ ~Resetting' /\ ~InProgress /\ InProgress'
  BY <1>1 DEF Resetting, InProgress
<1>3. retired' = retired /\ base' = base /\ written' = written
  BY <1>1, Quiet
<1>4. WordAt(mem', MTimeRam) = Plus(WordAt(mem, MTimeRam), 1)
  BY <1>1, Tick DEF TypeOK
<1>5. ASSUME ~written PROVE TimeCountsInstructions'
  <2>1. WordAt(mem, MTimeRam) = (base + retired + 0) % WordMod
    BY <1>2, <1>5 DEF CountInv, TimeCountsInstructions
  <2>2. Plus((base + retired + 0) % WordMod, 1)
          = (base + retired + 1) % WordMod
    BY Adding DEF CountInv
  <2> QED BY <1>2, <1>3, <1>4, <2>1, <2>2 DEF TimeCountsInstructions
<1> QED BY <1>2, <1>3, <1>5 DEF CountInv, NothingCounted

(* An instruction completes, jumps to a misaligned address, or traps.      *)
LEMMA ExecuteCount ==
  ASSUME TypeOK, CountInv, HistNext, Execute
  PROVE  CountInv'
<1>1. upc = "inst_32bit" /\ upc' \in {"main_loop", "trap"}
  BY Leaves DEF Execute
<1>2. ~Resetting /\ ~Resetting' /\ InProgress
  BY <1>1 DEF Resetting, InProgress
<1>3. base' = base /\ base \in Word /\ retired \in Word
  BY DEF HistNext, CountInv
<1>4. retired' \in Word
  BY <1>3, WordsAreNat, PlusType DEF HistNext
<1>5. ASSUME ~written' PROVE TimeCountsInstructions'
  <2>1. ~written /\ \A k \in 0 .. 3 : mem'[MTimeRam + k] = mem[MTimeRam + k]
    BY <1>1, <1>5 DEF HistNext, StoresToTime
  <2>2. WordAt(mem', MTimeRam) = WordAt(mem, MTimeRam)
    BY <2>1, SameTime
  <2>3. WordAt(mem, MTimeRam) = (base + retired + 1) % WordMod
    BY <1>2, <2>1 DEF CountInv, TimeCountsInstructions
  <2>4. CASE Completes
    <3>1. retired' = Plus(retired, 1) /\ ~InProgress'
      BY <1>5, <2>4 DEF HistNext, Completes, InProgress
    <3>2. (base + Plus(retired, 1) + 0) % WordMod
            = (base + retired + 1) % WordMod
      BY <1>3, Adding
    <3> QED BY <1>3, <2>2, <2>3, <3>1, <3>2 DEF TimeCountsInstructions
  <2>5. CASE ~Completes
    <3>1. retired' = retired /\ InProgress'
      BY <1>1, <2>5 DEF HistNext, Completes, InProgress
    <3> QED BY <1>3, <2>2, <2>3, <3>1 DEF TimeCountsInstructions
  <2> QED BY <2>4, <2>5
<1>6. NothingCounted'
  BY <1>2 DEF NothingCounted
<1>7. written' \in BOOLEAN
  BY Zenon DEF HistNext, CountInv
<1> QED BY <1>3, <1>4, <1>5, <1>6, <1>7 DEF CountInv

(***************************************************************************)
(* mtime counts every instruction once (TimeCountsInstructions), whatever  *)
(* traps are taken before, in or after it.                                 *)
(***************************************************************************)
THEOREM TimeCounts == ~ResetEnabled => (HistSpec => []TimeCountsInstructions)
<1> SUFFICES ASSUME ~ResetEnabled PROVE HistSpec => []TimeCountsInstructions
  OBVIOUS
<1>1. HistInit => Init /\ CountInv
  <2> SUFFICES ASSUME HistInit PROVE Init /\ CountInv
    OBVIOUS
  <2>1. Resetting /\ mem \in [RamAddr -> Byte]
    BY ValueAssumption DEF HistInit, Init, Resetting, RamAddr
  <2>2. MTimeRam \in Int
    BY LayoutAssumption DEF MTimeRam
  <2>3. base \in Word /\ retired \in Word
    BY <2>1, <2>2, WordAtType, SmallWords DEF HistInit
  <2> QED BY <2>1, <2>3
             DEF HistInit, CountInv, NothingCounted, TimeCountsInstructions
<1>2. [HistNext]_histVars => [Next]_vars
  BY DEF HistNext, histVars, vars
<1>3. TypeOK /\ ResetProgress /\ CountInv /\ [HistNext]_histVars => CountInv'
  <2> SUFFICES ASSUME TypeOK, ResetProgress, CountInv, [HistNext]_histVars
               PROVE CountInv'
    OBVIOUS
  <2>1. CASE UNCHANGED histVars
    BY <2>1 DEF histVars, CountInv, NothingCounted, TimeCountsInstructions,
       Resetting, InProgress
  <2>2. CASE HistNext
    <3>1. CASE UcReset \/ RLoop
      BY <2>2, <3>1, ResetCount
    <3>2. CASE PcAlignmentOk
      BY <2>2, <3>2, TickCount
    <3>3. CASE Execute
      BY <2>2, <3>3, ExecuteCount
    <3>4. CASE \/ MainLoopMisaligned \/ Interrupt \/ NoInterrupt
               \/ Trap \/ Trap1 \/ Fetch
      <4>1. upc # "inst_32bit" /\ UNCHANGED mem /\ ~Resetting
        BY <3>4 DEF MainLoopMisaligned, Interrupt, NoInterrupt, Trap, Trap1,
           Fetch, Resetting
      <4>2. upc' \in {"trap", "trap1", "loop3", "inst_32bit"}
        BY <3>4 DEF MainLoopMisaligned, Interrupt, NoInterrupt, Trap, Trap1,
           Fetch, Raise
      <4>3. InProgress = TRUE
        BY <3>4 DEF MainLoopMisaligned, Interrupt, NoInterrupt, Trap, Trap1,
           Fetch, InProgress
      <4>4. InProgress' = TRUE /\ ~Resetting'
        BY <4>2 DEF InProgress, Resetting
      <4> QED BY <2>2, <4>1, <4>3, <4>4, NoCount
    <3> QED BY <2>2, <3>1, <3>2, <3>3, <3>4
               DEF HistNext, Next, Step, ExternalReset
  <2> QED BY <2>1, <2>2
<1>4. Init => TypeOK
  BY TypeInit
<1>5. TypeOK /\ [Next]_vars => TypeOK'
  BY TypeStep
<1>6. TypeOK /\ CountInv => TimeCountsInstructions
  <2> SUFFICES ASSUME CountInv PROVE TimeCountsInstructions
    OBVIOUS
  <2> QED BY DEF CountInv, TimeCountsInstructions
<1> QED BY <1>1, <1>2, <1>3, <1>4, <1>5, <1>6, ResetInit, ResetStep, PTL
           DEF HistSpec

-----------------------------------------------------------------------------
(* The other bits of mstatus.                                              *)

(* The bits that the masks name, one by one.                               *)
LEMMA OtherStatusOf ==
  ASSUME NEW w \in Nat
  PROVE  /\ ClearBit(w, 128) \in Nat /\ ClearBit(w, 8) \in Nat
         /\ OtherStatus(ClearBit(w, 128)) = OtherStatus(w)
         /\ OtherStatus(ClearBit(w, 8)) = OtherStatus(w)
         /\ ~Has(w, 128) => OtherStatus(w + 128) = OtherStatus(w)
         /\ ~Has(w, 8) => OtherStatus(w + 8) = OtherStatus(w)
BY DEF OtherStatus, ClearBit, Has, MIE, MPIE

LEMMA BitCleared ==
  ASSUME NEW w \in Nat
  PROVE  ~Has(ClearBit(w, 128), 128) /\ ~Has(ClearBit(w, 8), 8)
BY DEF ClearBit, Has

LEMMA TrapStatusOther ==
  ASSUME NEW w \in Nat
  PROVE  OtherStatus(TrapStatus(w)) = OtherStatus(w)
<1> DEFINE c == ClearBit(w, 128)
           d == IF Has(w, 8) THEN c + 128 ELSE c
<1>1. c \in Nat /\ ~Has(c, 128) /\ OtherStatus(c) = OtherStatus(w)
  BY OtherStatusOf, BitCleared
<1>2. TrapStatus(w) = ClearBit(d, 8)
  BY CellTypes DEF TrapStatus
<1> HIDE DEF c
<1>3. d \in Nat /\ OtherStatus(d) = OtherStatus(w)
  BY <1>1, OtherStatusOf
<1> HIDE DEF d
<1> QED BY <1>2, <1>3, OtherStatusOf

LEMMA MretStatusOther ==
  ASSUME NEW w \in Nat
  PROVE  OtherStatus(MretStatus(w)) = OtherStatus(w)
<1> DEFINE c == ClearBit(w, 8)
<1>1. c \in Nat /\ ~Has(c, 8) /\ OtherStatus(c) = OtherStatus(w)
  BY OtherStatusOf, BitCleared
<1>2. MretStatus(w) = IF Has(w, 128) THEN c + 8 ELSE c
  BY CellTypes DEF MretStatus
<1> HIDE DEF c
<1> QED BY <1>1, <1>2, OtherStatusOf

(* Trap entry and mret, which rewrite mstatus with "and" and "adc" on a    *)
(* byte, change no bit but MIE and MPIE.                                   *)
THEOREM OtherBitsPreserved == Spec => StatusBitsPreserved
<1>1. TypeOK /\ [Next]_vars
      => [upc = "trap1" \/ (upc = "inst_32bit" /\ IsMret /\ ir.op = "system") =>
            OtherStatus(csr'[MSTATUS]) = OtherStatus(csr[MSTATUS])
            \/ upc' = "uc_reset"]_vars
  <2> SUFFICES ASSUME TypeOK, Next, upc' # "uc_reset",
                      \/ upc = "trap1"
                      \/ upc = "inst_32bit" /\ IsMret /\ ir.op = "system"
               PROVE  OtherStatus(csr'[MSTATUS]) = OtherStatus(csr[MSTATUS])
    OBVIOUS
  <2>1. csr[MSTATUS] \in Nat /\ csr \in [Csrs -> Word] /\ MSTATUS \in Csrs
    BY CellTypes, WordsAreNat DEF TypeOK
  <2>2. CASE upc = "trap1"
    <3>1. Trap1
      BY <2>2
      DEF Next, Step, UcReset, RLoop, MainLoopMisaligned, PcAlignmentOk,
          Interrupt, NoInterrupt, Trap, Fetch, Execute, ExternalReset
    <3>2. csr'[MSTATUS] = TrapStatus(csr[MSTATUS])
      BY <2>1, <3>1 DEF Trap1, MSTATUS, MEPC
    <3> QED BY <2>1, <3>2, TrapStatusOther
  <2>3. CASE upc = "inst_32bit" /\ IsMret /\ ir.op = "system"
    <3>1. Execute
      BY <2>3
      DEF Next, Step, UcReset, RLoop, MainLoopMisaligned, PcAlignmentOk,
          Interrupt, NoInterrupt, Trap, Trap1, Fetch, ExternalReset
    <3>2. Mret
      BY <2>3, <3>1
      DEF Execute, Load, Store, Op, UpperImmediate, Branch, Jal, Jalr,
          NoEffect, CsrAccess, SystemMisc, IllegalOpcode, IsMret, IsEcall, IsEbreak,
          MiscForm
    <3>3. csr'[MSTATUS] = MretStatus(csr[MSTATUS])
      BY <2>1, <3>2 DEF Mret
    <3> QED BY <2>1, <3>3, MretStatusOther
  <2> QED BY <2>2, <2>3
<1> QED BY <1>1, TypeCorrect, PTL DEF Spec, StatusBitsPreserved

-----------------------------------------------------------------------------
(* The timer interrupt is withdrawn by software only.                      *)

(* The reasons for which mip.MTIP may be cleared.                          *)
Answered ==
  \/ upc = "rloop"
  \/ /\ upc = "inst_32bit"
     /\ \/ ir.op = "system" /\ ir.csr = 836
        \/ /\ ir.op = "store"
           /\ Plus(Reg(ir.rs1), ir.imm) \in MTimeCmp .. MTimeCmp + 7

LEMMA OtherCellKeepsMip ==
  ASSUME NEW r \in [Csrs -> Word], NEW c \in Csrs, c # MIP, NEW v
  PROVE  [r EXCEPT ![c] = v][MIP] = r[MIP]
BY CellTypes

LEMMA MtvalKeepsMip ==
  ASSUME NEW r \in [Csrs -> Word], NEW v
  PROVE  [r EXCEPT ![MTVAL] = v][MIP] = r[MIP]
BY OtherCellKeepsMip, CellTypes DEF MTVAL, MIP

LEMMA StoreAnswers ==
  ASSUME TypeOK, upc = "inst_32bit", Store, csr'[MIP] # csr[MIP]
  PROVE  Answered
<1> DEFINE ea == Plus(Reg(ir.rs1), ir.imm)
           csr1 == AfterMtimecmpCheck(ea)
<1>1. csr1 \in [Csrs -> Word] /\ csr \in [Csrs -> Word] /\ ea \in Nat
  BY AddressType, MtimecmpCheckType, WordsAreNat DEF TypeOK
<1>2. CASE csr1 = csr
  <2>1. csr' = csr1 \/ csr' = csr \/ \E v : csr' = [csr1 EXCEPT ![MTVAL] = v]
    BY DEF Store
  <2> HIDE DEF csr1
  <2> QED BY <1>1, <1>2, <2>1, MtvalKeepsMip
<1>3. CASE ea - (ea % 8) = MTimeCmp
  <2> HIDE DEF ea
  <2>1. ea \in MTimeCmp .. MTimeCmp + 7
    BY <1>1, <1>3, LayoutAssumption
  <2> QED BY <2>1 DEF Answered, Store, ea
<1> QED BY <1>2, <1>3 DEF AfterMtimecmpCheck

LEMMA CsrAnswers ==
  ASSUME TypeOK, upc = "inst_32bit", CsrAccess, csr'[MIP] # csr[MIP]
  PROVE  Answered
<1> DEFINE c == CsrCell(ir.csr)
<1>1. csr \in [Csrs -> Word]
  BY DEF TypeOK
<1>2. ir.csr \in CsrNumbers /\ c \in Csrs /\ \E v : csr' = [csr EXCEPT ![c] = v]
  BY <1>1, MtvalKeepsMip DEF CsrAccess, Illegal
<1>3. c = MIP
  <2> HIDE DEF c
  <2> QED BY <1>1, <1>2, OtherCellKeepsMip
<1>4. ir.csr = 836
  BY <1>2, <1>3 DEF CsrNumbers, CsrCell, MIP
<1> QED BY <1>4 DEF Answered, CsrAccess

LEMMA ExecuteAnswers ==
  ASSUME TypeOK, Execute, csr'[MIP] # csr[MIP]
  PROVE  Answered
<1>1. csr \in [Csrs -> Word] /\ upc = "inst_32bit"
  BY DEF TypeOK, Execute
<1>2. CASE Store
  BY <1>1, <1>2, StoreAnswers
<1>3. CASE CsrAccess
  BY <1>1, <1>3, CsrAnswers
<1>4. CASE Load \/ Op \/ UpperImmediate \/ Branch \/ Jal \/ Jalr \/ NoEffect
           \/ SystemMisc \/ IllegalOpcode
  BY <1>1, <1>4, MtvalKeepsMip
  DEF Load, Op, UpperImmediate, Branch, Jal, Jalr, NoEffect, SystemMisc,
      IllegalOpcode, Illegal, DataMisaligned
<1>5. CASE Mret
  BY <1>1, <1>5 DEF Mret, MIP, MSTATUS, Csrs
<1> QED BY <1>2, <1>3, <1>4, <1>5 DEF Execute

(* Once pending, the timer interrupt stays pending through interrupts,     *)
(* traps, returns and the comparisons of later instructions, until a store *)
(* to mtimecmp, a CSR instruction on mip or a reset clears it.             *)
THEOREM TimerIsKept == Spec => TimerStaysPending
<1>1. TypeOK /\ [Next]_vars
      => [Has(csr[MIP], MTI) /\ ~Has(csr'[MIP], MTI) => Answered]_vars
  <2> SUFFICES ASSUME TypeOK, Next, Has(csr[MIP], MTI), ~Has(csr'[MIP], MTI)
               PROVE  Answered
    OBVIOUS
  <2>1. csr \in [Csrs -> Word] /\ csr'[MIP] # csr[MIP]
    BY DEF TypeOK
  <2>2. CASE Execute
    BY <2>1, <2>2, ExecuteAnswers
  <2>3. CASE RLoop
    BY <2>3 DEF RLoop, Answered
  <2>4. CASE PcAlignmentOk
    BY <2>1, <2>4 DEF PcAlignmentOk, SetBit
  <2>5. CASE MainLoopMisaligned
    BY <2>1, <2>5, MtvalKeepsMip DEF MainLoopMisaligned
  <2>6. CASE Interrupt \/ Trap \/ Trap1
    BY <2>1, <2>6 DEF Interrupt, Trap, Trap1, MIP, MCAUSE, MSTATUS, MEPC, Csrs
  <2> QED
    BY <2>1, <2>2, <2>3, <2>4, <2>5, <2>6
    DEF Next, Step, UcReset, NoInterrupt, Fetch, ExternalReset
<1> QED BY <1>1, TypeCorrect, PTL DEF Spec, TimerStaysPending, Answered

-----------------------------------------------------------------------------
(* The bits of mstatus after a trap and after mret.                        *)

LEMMA ClearedBits ==
  ASSUME NEW w \in Nat
  PROVE  /\ ClearBit(w, 8) \in Nat /\ ClearBit(w, 128) \in Nat
         /\ ~Has(ClearBit(w, 8), 8) /\ ~Has(ClearBit(w, 128), 128)
         /\ Has(ClearBit(w, 8), 128) = Has(w, 128)
         /\ Has(ClearBit(w, 128), 8) = Has(w, 8)
BY DEF ClearBit, Has

LEMMA AddedBits ==
  ASSUME NEW w \in Nat
  PROVE  /\ ~Has(w, 8) => Has(w + 8, 8) /\ Has(w + 8, 128) = Has(w, 128)
         /\ ~Has(w, 128) => Has(w + 128, 128) /\ Has(w + 128, 8) = Has(w, 8)
BY DEF Has

LEMMA TrapStatusBits ==
  ASSUME NEW w \in Nat
  PROVE  /\ ~Has(TrapStatus(w), MIE)
         /\ Has(TrapStatus(w), MPIE) = Has(w, MIE)
<1> DEFINE c == ClearBit(w, 128)
           d == IF Has(w, 8) THEN c + 128 ELSE c
<1>1. c \in Nat /\ ~Has(c, 128) /\ Has(c, 8) = Has(w, 8)
  BY ClearedBits
<1> HIDE DEF c
<1>2. d \in Nat /\ Has(d, 128) = Has(w, 8)
  BY <1>1, AddedBits DEF Has
<1> HIDE DEF d
<1>3. ~Has(ClearBit(d, 8), 8) /\ Has(ClearBit(d, 8), 128) = Has(d, 128)
  BY <1>2, ClearedBits
<1>4. TrapStatus(w) = ClearBit(d, 8)
  BY CellTypes DEF TrapStatus, c, d
<1> QED BY <1>2, <1>3, <1>4, CellTypes

LEMMA MretStatusBits ==
  ASSUME NEW w \in Nat
  PROVE  /\ Has(MretStatus(w), MIE) = Has(w, MPIE)
         /\ Has(MretStatus(w), MPIE) = Has(w, MPIE)
<1> DEFINE c == ClearBit(w, 8)
<1>1. c \in Nat /\ ~Has(c, 8) /\ Has(c, 128) = Has(w, 128)
  BY ClearedBits
<1>2. MretStatus(w) = IF Has(w, 128) THEN c + 8 ELSE c
  BY CellTypes DEF MretStatus
<1> HIDE DEF c
<1> QED BY <1>1, <1>2, AddedBits, CellTypes DEF Has

-----------------------------------------------------------------------------
(* What the mapping needs beyond the types, FetchAligned and ResetProgress.*)

(* nextpc follows pc until the instruction changes it, and the cause in ac *)
(* is that of an exception.                                                *)
TrapInv ==
  /\ upc = "inst_32bit" => nextpc = Plus(pc, 4)
  /\ upc = "trap" => ac \in ExceptionCauses

LEMMA TrapInvStep == TypeOK /\ TrapInv /\ [Next]_vars => TrapInv'
<1> SUFFICES ASSUME TypeOK, TrapInv, [Next]_vars PROVE TrapInv'
  OBVIOUS
<1>1. CASE MainLoopMisaligned
  BY <1>1 DEF MainLoopMisaligned, Raise, TrapInv, ExceptionCauses
<1>2. CASE Fetch
  BY <1>2 DEF Fetch, Raise, TrapInv, ExceptionCauses
<1>3. CASE Execute
  <2>1. upc' = "main_loop" \/ (upc' = "trap" /\ ac' \in ExceptionCauses)
    BY <1>3
    DEF Execute, Load, Store, Op, UpperImmediate, Branch, Jal, Jalr, NoEffect,
        CsrAccess, SystemMisc, Mret, IllegalOpcode, Illegal, DataMisaligned,
        PutRd, Done, Raise, ExceptionCauses
  <2> QED BY <2>1 DEF TrapInv
<1>4. CASE UNCHANGED vars
  BY <1>4 DEF vars, TrapInv
<1>5. CASE Next /\ ~MainLoopMisaligned /\ ~Fetch /\ ~Execute
  BY <1>5
  DEF Next, Step, UcReset, RLoop, PcAlignmentOk, Interrupt, NoInterrupt, Trap,
      Trap1, ExternalReset, TrapInv
<1> QED BY <1>1, <1>2, <1>3, <1>4, <1>5

Inv == TypeOK /\ FetchAligned /\ ResetProgress /\ TrapInv

LEMMA InvInit == Init => Inv
BY TypeInit, ResetInit DEF Init, FetchAligned, TrapInv, Inv

LEMMA InvStep == Inv /\ [Next]_vars => Inv'
BY TypeStep, AlignedStep, ResetStep, TrapInvStep DEF Inv

-----------------------------------------------------------------------------
(* The mapping, label by label.                                            *)

(* Where the CSRs are the architecture's and pc is the instruction.        *)
Plain == upc \in {"loop2", "loop3", "inst_32bit", "trap"}

PlainView ==
  Plain => /\ ArchPc = pc
           /\ ArchMie = Has(csr[MSTATUS], MIE)
           /\ ArchMpie = Has(csr[MSTATUS], MPIE)
           /\ ArchMepc = csr[MEPC]
           /\ ArchCsr(MCAUSE) = csr[MCAUSE]
           /\ ArchCsr(MTVEC) = csr[MTVEC]

MainView ==
  upc = "main_loop" =>
           /\ ArchPc = IF nextpc % 4 = 0 THEN nextpc ELSE pc
           /\ ArchMie = Has(csr[MSTATUS], MIE)
           /\ ArchMpie = Has(csr[MSTATUS], MPIE)
           /\ ArchMepc = csr[MEPC]
           /\ ArchCsr(MCAUSE) = csr[MCAUSE]
           /\ ArchCsr(MTVEC) = csr[MTVEC]

Trap1View ==
  upc = "trap1" =>
           /\ ArchPc = TrapVector
           /\ ArchMie = FALSE
           /\ ArchMpie = Has(csr[MSTATUS], MIE)
           /\ ArchMepc = pc
           /\ ArchCsr(MCAUSE) = csr[MCAUSE]
           /\ ArchCsr(MTVEC) = csr[MTVEC]

ResetView ==
  Resetting =>
           /\ ArchPc = 0
           /\ ArchMie = FALSE
           /\ ArchMpie = FALSE
           /\ ArchMepc = 0
           /\ ArchCsr(MCAUSE) = 0
           /\ ArchCsr(MTVEC) = 0

LEMMA Views == PlainView /\ MainView /\ Trap1View /\ ResetView
BY DEF PlainView, MainView, Trap1View, ResetView, Plain, ArchPc, ArchMie,
       ArchMpie, ArchMepc, ArchCsr, Resetting, Has

LEMMA ViewsNext == PlainView' /\ MainView' /\ Trap1View' /\ ResetView'
BY Views, PTL

-----------------------------------------------------------------------------
(* Invisible steps.                                                        *)

(* The cells that the mapping reads are left alone.                        *)
SameCells == \A c \in {MSTATUS, MEPC, MCAUSE, MTVEC} : csr'[c] = csr[c]

LEMMA OtherCells ==
  ASSUME csr \in [Csrs -> Word], NEW c \in {MIP, MTVAL}, NEW v,
         csr' = [csr EXCEPT ![c] = v]
  PROVE  SameCells
BY DEF SameCells, MSTATUS, MEPC, MCAUSE, MTVEC, MIP, MTVAL, Csrs

LEMMA StutterPlain ==
  ASSUME Plain, Plain', pc' = pc, SameCells
  PROVE  UNCHANGED Traps!absVars
BY Views, ViewsNext DEF PlainView, SameCells, Traps!absVars, Has

LEMMA StutterMain ==
  ASSUME upc = "main_loop", Plain',
         pc' = IF nextpc % 4 = 0 THEN nextpc ELSE pc, SameCells
  PROVE  UNCHANGED Traps!absVars
BY Views, ViewsNext DEF PlainView, MainView, SameCells, Traps!absVars, Has
LEMMA StutterReset ==
  ASSUME Resetting, Resetting'
  PROVE  UNCHANGED Traps!absVars
BY Views, ViewsNext DEF ResetView, Traps!absVars

-----------------------------------------------------------------------------
(* The visible steps outside inst_32bit.                                   *)

LEMMA InterruptStep ==
  ASSUME Inv, Interrupt
  PROVE  Traps!Interrupt
<1>1. Plain /\ upc' = "trap1" /\ pc' = pc
  BY DEF Interrupt, Plain
<1>2. csr \in [Csrs -> Word] /\ {MSTATUS, MTVEC, MCAUSE} \subseteq Csrs
  BY CellTypes DEF Inv, TypeOK
<1>3. /\ csr'[MSTATUS] = csr[MSTATUS] /\ csr'[MTVEC] = csr[MTVEC]
      /\ csr'[MCAUSE] = TopBit + InterruptCode
  BY <1>2 DEF Interrupt, MSTATUS, MTVEC, MCAUSE
<1>4. csr'[MCAUSE] \in InterruptCauses
  BY <1>3 DEF InterruptCode, InterruptCauses
<1>5. Has(csr[MSTATUS], MIE)
  BY DEF Interrupt, InterruptDue
<1>6. ArchPc' = TrapBase(ArchCsr(MTVEC))
  BY <1>1, <1>3, Views, ViewsNext DEF PlainView, Trap1View, TrapVector, TrapBase
<1> QED
  BY <1>1, <1>3, <1>4, <1>5, <1>6, Views, ViewsNext
  DEF PlainView, Trap1View, Traps!Interrupt, Traps!EnterTrap, Has

LEMMA ExceptionStep ==
  ASSUME Inv, Trap
  PROVE  Traps!Exception
<1>1. Plain /\ upc' = "trap1" /\ pc' = pc
  BY DEF Trap, Plain
<1>2. csr \in [Csrs -> Word] /\ {MSTATUS, MTVEC, MCAUSE} \subseteq Csrs
  BY CellTypes DEF Inv, TypeOK
<1>3. /\ csr'[MSTATUS] = csr[MSTATUS] /\ csr'[MTVEC] = csr[MTVEC]
      /\ csr'[MCAUSE] = ac
  BY <1>2 DEF Trap, MSTATUS, MTVEC, MCAUSE
<1>4. csr'[MCAUSE] \in ExceptionCauses
  BY <1>3 DEF Inv, TrapInv, Trap
<1>5. ArchPc' = TrapBase(ArchCsr(MTVEC))
  BY <1>1, <1>3, Views, ViewsNext DEF PlainView, Trap1View, TrapVector, TrapBase
<1> QED
  BY <1>1, <1>3, <1>4, <1>5, Views, ViewsNext
  DEF PlainView, Trap1View, Traps!Exception, Traps!EnterTrap, Has

(* The rest of a trap entry is invisible: it makes the CSRs agree with     *)
(* what the mapping already shows.                                         *)
LEMMA Trap1Step ==
  ASSUME Inv, Trap1
  PROVE  UNCHANGED Traps!absVars
<1>1. upc = "trap1" /\ Plain' /\ pc' = TrapVector
  BY DEF Trap1, Plain
<1>2. csr \in [Csrs -> Word] /\ {MSTATUS, MTVEC, MCAUSE, MEPC} \subseteq Csrs
  BY CellTypes DEF Inv, TypeOK
<1>3. /\ csr'[MSTATUS] = TrapStatus(csr[MSTATUS]) /\ csr'[MEPC] = pc
      /\ csr'[MCAUSE] = csr[MCAUSE] /\ csr'[MTVEC] = csr[MTVEC]
  BY <1>2 DEF Trap1, MSTATUS, MTVEC, MCAUSE, MEPC
<1>4. csr[MSTATUS] \in Nat
  BY <1>2, WordsAreNat
<1>5. /\ ~Has(csr'[MSTATUS], MIE)
      /\ Has(csr'[MSTATUS], MPIE) = Has(csr[MSTATUS], MIE)
  BY <1>3, <1>4, TrapStatusBits
<1> QED
  BY <1>1, <1>3, <1>5, Views, ViewsNext
  DEF PlainView, Trap1View, Traps!absVars, Has

LEMMA RLoopStep ==
  ASSUME Inv, RLoop
  PROVE  UNCHANGED Traps!absVars
<1>1. CASE rloop # 0
  BY <1>1, StutterReset DEF RLoop, Resetting
<1>2. CASE rloop = 0
  <2>1. Resetting /\ upc' = "main_loop" /\ nextpc' = 0
    BY <1>2 DEF RLoop, Resetting, Inv, ResetProgress
  <2>2. \A c \in Csrs : csr'[c] = 0
    BY <1>2 DEF RLoop, Inv, ResetProgress, Csrs
  <2>3. /\ csr'[MSTATUS] = 0 /\ csr'[MEPC] = 0 /\ csr'[MCAUSE] = 0
        /\ csr'[MTVEC] = 0
    BY <2>2, CellTypes
  <2>4. Has(csr'[MSTATUS], MIE) = FALSE /\ Has(csr'[MSTATUS], MPIE) = FALSE
    BY <2>3, CellTypes DEF Has
  <2>5. ArchPc' = 0 /\ ArchMie' = FALSE /\ ArchMpie' = FALSE
    BY <2>1, <2>4, Views, ViewsNext DEF MainView
  <2>6. ArchMepc' = 0 /\ ArchCsr(MCAUSE)' = 0 /\ ArchCsr(MTVEC)' = 0
    BY <2>1, <2>3, Views, ViewsNext DEF MainView
  <2> QED BY <2>1, <2>5, <2>6, Views DEF ResetView, Traps!absVars
<1> QED BY <1>1, <1>2

LEMMA ResetInputStep ==
  ASSUME ExternalReset
  PROVE  Traps!Reset
<1>1. Resetting'
  BY DEF ExternalReset, Resetting
<1> QED BY <1>1, ViewsNext DEF ResetView, Traps!Reset

LEMMA QuietSteps ==
  ASSUME Inv, UcReset \/ MainLoopMisaligned \/ PcAlignmentOk \/ NoInterrupt \/ Fetch
  PROVE  UNCHANGED Traps!absVars
<1>0. csr \in [Csrs -> Word]
  BY DEF Inv, TypeOK
<1>1. CASE UcReset
  BY <1>1, StutterReset DEF UcReset, Resetting
<1>2. CASE MainLoopMisaligned
  <2>1. SameCells
    BY <1>0, <1>2, OtherCells DEF MainLoopMisaligned
  <2> QED BY <1>2, <2>1, StutterMain DEF MainLoopMisaligned, Raise, Plain
<1>3. CASE PcAlignmentOk
  <2>1. SameCells
    <3>1. CASE csr' = csr
      BY <3>1 DEF SameCells
    <3>2. CASE csr' = [csr EXCEPT ![MIP] = SetBit(@, MTI)]
      BY <1>0, <3>2, OtherCells
    <3> QED BY <1>3, <3>1, <3>2 DEF PcAlignmentOk
  <2> QED BY <1>3, <2>1, StutterMain DEF PcAlignmentOk, Plain
<1>4. CASE NoInterrupt
  BY <1>4, StutterPlain DEF NoInterrupt, Plain, SameCells
<1>5. CASE Fetch
  BY <1>5, StutterPlain DEF Fetch, Raise, Plain, SameCells
<1> QED BY <1>1, <1>2, <1>3, <1>4, <1>5

-----------------------------------------------------------------------------
(* Instructions.                                                           *)

LEMMA PlusAligned ==
  ASSUME NEW a \in Word, a % 4 = 0
  PROVE  Plus(a, 4) \in Word /\ Plus(a, 4) % 4 = 0
<1>1. PICK q \in Nat : q > 0 /\ WordMod = 4096 * q
  BY WordModMultiple
<1>2. CASE a + 4 < WordMod
  BY <1>1, <1>2 DEF Plus, Word
<1>3. CASE a + 4 >= WordMod
  BY <1>1, <1>3 DEF Plus, Word
<1> QED BY <1>1, <1>2, <1>3 DEF Word

LEMMA ExceptionExit ==
  ASSUME upc = "inst_32bit", upc' = "trap", pc' = pc, SameCells
  PROVE  UNCHANGED Traps!absVars
BY StutterPlain DEF Plain

LEMMA OrdinaryExit ==
  ASSUME upc = "inst_32bit", upc' = "main_loop", pc' = pc, SameCells,
         nextpc' \in Word
  PROVE  Traps!Retire \/ UNCHANGED Traps!absVars
<1>1. CASE nextpc' % 4 = 0
  BY <1>1, Views, ViewsNext
  DEF PlainView, MainView, Plain, SameCells, Traps!Retire, InstrAddr, Has
<1>2. CASE nextpc' % 4 # 0
  BY <1>2, Views, ViewsNext
  DEF PlainView, MainView, Plain, SameCells, Traps!absVars, Has
<1> QED BY <1>1, <1>2
(* Loads, stores, arithmetic, branches and jumps: no mapped cell changes.  *)
LEMMA OrdinaryCells ==
  ASSUME Inv,
         \/ Load \/ Store \/ Op \/ UpperImmediate \/ Branch \/ Jal \/ Jalr
         \/ NoEffect \/ SystemMisc \/ IllegalOpcode
  PROVE  SameCells /\ upc' \in {"main_loop", "trap"}
<1>0. csr \in [Csrs -> Word]
  BY DEF Inv, TypeOK
<1>1. ASSUME csr' = csr PROVE SameCells
  BY <1>1 DEF SameCells
<1>2. ASSUME NEW v, csr' = [csr EXCEPT ![MTVAL] = v] PROVE SameCells
  BY <1>0, <1>2, OtherCells
<1>3. CASE Store
  <2> DEFINE ea == Plus(Reg(ir.rs1), ir.imm)
             csr1 == AfterMtimecmpCheck(ea)
  <2>1. ea \in Word
    BY AddressType DEF Inv
  <2>2. csr1 \in [Csrs -> Word]
    BY <2>1, MtimecmpCheckType DEF Inv
  <2>3. \A c \in {MSTATUS, MEPC, MCAUSE, MTVEC} : csr1[c] = csr[c]
    BY <1>0 DEF AfterMtimecmpCheck, MSTATUS, MEPC, MCAUSE, MTVEC, MIP, Csrs
  <2>4. \/ csr' = csr \/ csr' = csr1
        \/ \E v : csr' = [csr1 EXCEPT ![MTVAL] = v]
    BY <1>3 DEF Store
  <2> HIDE DEF csr1
  <2>5. SameCells
    BY <2>2, <2>3, <2>4
    DEF SameCells, MSTATUS, MEPC, MCAUSE, MTVEC, MTVAL, Csrs
  <2> QED BY <1>3, <2>5 DEF Store, Raise, Done
<1>4. CASE Load \/ Op \/ UpperImmediate \/ Branch \/ Jal \/ Jalr
           \/ NoEffect \/ SystemMisc \/ IllegalOpcode
  <2>1. csr' = csr \/ \E v : csr' = [csr EXCEPT ![MTVAL] = v]
    BY <1>4
    DEF Load, Op, UpperImmediate, Branch, Jal, Jalr, NoEffect, SystemMisc,
        IllegalOpcode, Illegal, DataMisaligned
  <2>2. SameCells
    BY <1>1, <1>2, <2>1
  <2> QED
    BY <1>4, <2>2
    DEF Load, Op, UpperImmediate, Branch, Jal, Jalr, NoEffect, SystemMisc,
        IllegalOpcode, Illegal, DataMisaligned, PutRd, Raise, Done
<1> QED BY <1>3, <1>4

(* A CSR instruction rewrites one cell and goes on behind itself.          *)
LEMMA CsrStep ==
  ASSUME Inv, TypeOK', upc = "inst_32bit", pc' = pc, CsrAccess
  PROVE  Traps!Retire \/ Traps!CsrWrite \/ UNCHANGED Traps!absVars
<1>0. csr \in [Csrs -> Word] /\ csr' \in [Csrs -> Word]
  BY DEF Inv, TypeOK
<1>1. CASE Illegal
  <2>1. SameCells /\ upc' = "trap"
    BY <1>0, <1>1, OtherCells DEF Illegal, Raise
  <2> QED BY <2>1, ExceptionExit
<1>2. CASE UNCHANGED <<csr, nextpc>> /\ Done
  BY <1>2, OrdinaryExit DEF Done, SameCells, TypeOK
<1>3. ASSUME NEW c \in Csrs, NEW v, csr' = [csr EXCEPT ![c] = v],
             nextpc' = nextpc, Done
      PROVE  Traps!Retire \/ Traps!CsrWrite \/ UNCHANGED Traps!absVars
  <2>1. upc' = "main_loop" /\ nextpc' \in Word
    BY <1>3 DEF Done, TypeOK
  <2>2. CASE SameCells
    BY <2>1, <2>2, OrdinaryExit
  <2>3. CASE c \in {MSTATUS, MEPC, MCAUSE, MTVEC}
    <3>1. pc \in Word /\ pc % 4 = 0 /\ nextpc = Plus(pc, 4)
      BY DEF Inv, TypeOK, FetchAligned, TrapInv
    <3>2. nextpc' = Plus(pc, 4) /\ nextpc' % 4 = 0
      BY <1>3, <3>1, PlusAligned
    <3>3. ArchPc' = Following(ArchPc)
      BY <2>1, <3>2, Views, ViewsNext DEF PlainView, MainView, Plain, Following
    <3>4. \A d \in {MSTATUS, MEPC, MCAUSE, MTVEC} :
            /\ d # c => csr'[d] = csr[d]
            /\ csr'[d] \in Word
      BY <1>0, <1>3, <2>3, CellTypes
    <3>5. /\ ArchMie = Has(csr[MSTATUS], MIE) /\ ArchMie' = Has(csr'[MSTATUS], MIE)
          /\ ArchMpie = Has(csr[MSTATUS], MPIE) /\ ArchMpie' = Has(csr'[MSTATUS], MPIE)
          /\ ArchMepc = csr[MEPC] /\ ArchMepc' = csr'[MEPC]
          /\ ArchCsr(MCAUSE) = csr[MCAUSE] /\ ArchCsr(MCAUSE)' = csr'[MCAUSE]
          /\ ArchCsr(MTVEC) = csr[MTVEC] /\ ArchCsr(MTVEC)' = csr'[MTVEC]
      BY <2>1, Views, ViewsNext DEF PlainView, MainView, Plain, Has
    <3>6. ArchMie' \in BOOLEAN /\ ArchMpie' \in BOOLEAN
      BY <3>5 DEF Has
    <3>7. CASE c = MSTATUS
      BY <3>3, <3>4, <3>5, <3>6, <3>7
      DEF Traps!CsrWrite, MSTATUS, MEPC, MCAUSE, MTVEC
    <3>8. CASE c = MEPC
      BY <3>3, <3>4, <3>5, <3>8
      DEF Traps!CsrWrite, MSTATUS, MEPC, MCAUSE, MTVEC, Has
    <3>9. CASE c = MCAUSE
      BY <3>3, <3>4, <3>5, <3>9
      DEF Traps!CsrWrite, MSTATUS, MEPC, MCAUSE, MTVEC, Has
    <3>10. CASE c = MTVEC
      BY <3>3, <3>4, <3>5, <3>10
      DEF Traps!CsrWrite, MSTATUS, MEPC, MCAUSE, MTVEC, Has
    <3> QED BY <2>3, <3>7, <3>8, <3>9, <3>10
  <2>4. CASE c \notin {MSTATUS, MEPC, MCAUSE, MTVEC}
    <3>1. SameCells
      BY <1>0, <1>3, <2>4 DEF SameCells
    <3> QED BY <3>1, <2>2
  <2> QED BY <2>3, <2>4
<1>4. CASE CsrCell(ir.csr) \in Csrs /\ ~Illegal
  <2>1. /\ csr' = [csr EXCEPT ![CsrCell(ir.csr)] = CsrUpdate(csr[CsrCell(ir.csr)])]
        /\ nextpc' = nextpc /\ Done
    BY <1>4 DEF CsrAccess, PutRd
  <2> QED BY <1>3, <1>4, <2>1
<1>5. CASE CsrCell(ir.csr) \notin Csrs /\ ~Illegal
  BY <1>2, <1>5 DEF CsrAccess, PutRd
<1> QED BY <1>1, <1>4, <1>5

LEMMA MretStep ==
  ASSUME Inv, upc = "inst_32bit", pc' = pc, Mret
  PROVE  Traps!Mret
<1>0. csr \in [Csrs -> Word] /\ {MSTATUS, MTVEC, MCAUSE, MEPC} \subseteq Csrs
  BY CellTypes DEF Inv, TypeOK
<1>1. upc' = "main_loop" /\ nextpc' = csr[MEPC]
  BY DEF Mret, Done
<1>2. /\ csr'[MSTATUS] = MretStatus(csr[MSTATUS]) /\ csr'[MEPC] = csr[MEPC]
      /\ csr'[MCAUSE] = csr[MCAUSE] /\ csr'[MTVEC] = csr[MTVEC]
  BY <1>0 DEF Mret, MSTATUS, MTVEC, MCAUSE, MEPC
<1>3. csr[MSTATUS] \in Nat /\ csr[MEPC] \in Word
  BY <1>0, WordsAreNat
<1>4. /\ Has(csr'[MSTATUS], MIE) = Has(csr[MSTATUS], MPIE)
      /\ Has(csr'[MSTATUS], MPIE) = Has(csr[MSTATUS], MPIE)
  BY <1>2, <1>3, MretStatusBits
<1>5. ArchPc' = IF csr[MEPC] \in InstrAddr THEN csr[MEPC] ELSE pc
  BY <1>1, <1>3, Views, ViewsNext DEF MainView, InstrAddr
<1> QED
  BY <1>1, <1>2, <1>4, <1>5, Views, ViewsNext
  DEF PlainView, MainView, Plain, Traps!Mret, Has

LEMMA ExecuteStep ==
  ASSUME Inv, TypeOK', Execute
  PROVE  Traps!Retire \/ Traps!CsrWrite \/ Traps!Mret \/ UNCHANGED Traps!absVars
<1>1. upc = "inst_32bit" /\ pc' = pc /\ nextpc' \in Word
  BY DEF Execute, TypeOK
<1>2. CASE Mret
  BY <1>1, <1>2, MretStep
<1>3. CASE CsrAccess
  BY <1>1, <1>3, CsrStep
<1>4. CASE \/ Load \/ Store \/ Op \/ UpperImmediate \/ Branch \/ Jal \/ Jalr
           \/ NoEffect \/ SystemMisc \/ IllegalOpcode
  <2>1. SameCells /\ upc' \in {"main_loop", "trap"}
    BY <1>4, OrdinaryCells
  <2> QED BY <1>1, <2>1, ExceptionExit, OrdinaryExit
<1> QED BY <1>2, <1>3, <1>4 DEF Execute

-----------------------------------------------------------------------------
(* Every behaviour of the microcode is one of TrapDiscipline: traps save   *)
(* exactly the interrupted instruction's address and enable, interrupts    *)
(* are taken only when enabled, mret undoes the trap, and nothing else     *)
(* touches them.                                                           *)
THEOREM TrapsImplemented == Spec => ImplementsTraps
<1>1. Init => Traps!AbsInit
  BY Views DEF Init, ResetView, Resetting, Traps!AbsInit
<1>2. Inv /\ Inv' /\ [Next]_vars => [Traps!AbsNext]_(Traps!absVars)
  <2> SUFFICES ASSUME Inv, Inv', [Next]_vars
               PROVE  Traps!AbsNext \/ UNCHANGED Traps!absVars
    OBVIOUS
  <2>1. CASE Interrupt
    BY <2>1, InterruptStep DEF Traps!AbsNext
  <2>2. CASE Trap
    BY <2>2, ExceptionStep DEF Traps!AbsNext
  <2>3. CASE Trap1
    BY <2>3, Trap1Step
  <2>4. CASE RLoop
    BY <2>4, RLoopStep
  <2>5. CASE ExternalReset
    BY <2>5, ResetInputStep DEF Traps!AbsNext
  <2>6. CASE UcReset \/ MainLoopMisaligned \/ PcAlignmentOk \/ NoInterrupt \/ Fetch
    BY <2>6, QuietSteps
  <2>7. CASE Execute
    BY <2>7, ExecuteStep DEF Traps!AbsNext, Inv
  <2>8. CASE UNCHANGED vars
    BY <2>8
    DEF vars, Traps!absVars, ArchPc, ArchMie, ArchMpie, ArchMepc, ArchCsr,
        Resetting, TrapVector
  <2> QED
    BY <2>1, <2>2, <2>3, <2>4, <2>5, <2>6, <2>7, <2>8 DEF Next, Step
<1> QED
  BY <1>1, <1>2, InvInit, InvStep, PTL DEF Spec, ImplementsTraps, Traps!AbsSpec

-----------------------------------------------------------------------------
(* Traps are precise.                                                      *)

TrapLimits ==
  /\ UNCHANGED mem
  /\ \A r \in Regs \ {0} : x'[r] = x[r] \/ LinkWritten(r)
  /\ \A c \in Csrs \ {MTVAL} : csr'[c] = csr[c] \/ EnableRestored(c) \/ TimerAnswered(c)

LEMMA NothingChanged ==
  ASSUME UNCHANGED <<x, csr, mem>>
  PROVE  TrapLimits
BY DEF TrapLimits

LEMMA MtvalChanged ==
  ASSUME TypeOK, NEW v, csr' = [csr EXCEPT ![MTVAL] = v], UNCHANGED <<x, mem>>
  PROVE  TrapLimits
BY DEF TypeOK, TrapLimits

(* The mtimecmp check of a store and mtval are all that a store that traps *)
(* may have written.                                                       *)
LEMMA TrappingStore ==
  ASSUME TypeOK, upc = "inst_32bit", Store, upc' = "trap"
  PROVE  TrapLimits
<1> DEFINE ea == Plus(Reg(ir.rs1), ir.imm)
           csr1 == AfterMtimecmpCheck(ea)
<1>1. csr1 \in [Csrs -> Word] /\ csr \in [Csrs -> Word] /\ ea \in Nat
  BY AddressType, MtimecmpCheckType, WordsAreNat DEF TypeOK
<1>2. UNCHANGED <<x, mem>>
  BY DEF Store, Done
<1>3. CASE csr' = csr
  BY <1>2, <1>3, NothingChanged
<1>4. CASE \E v : csr' = [csr1 EXCEPT ![MTVAL] = v]
  <2>1. \A c \in Csrs \ {MTVAL} : csr'[c] = csr1[c]
    <3> HIDE DEF csr1
    <3> QED BY <1>1, <1>4
  <2>2. CASE csr1 = csr
    BY <1>2, <2>1, <2>2 DEF TrapLimits
  <2>3. CASE ea - (ea % 8) = MTimeCmp
    <3>1. /\ \A c \in Csrs \ {MIP} : csr1[c] = csr[c]
          /\ csr1[MIP] = ClearBit(csr[MIP], MTI)
      BY <1>1, <2>3, CellTypes DEF AfterMtimecmpCheck
    <3>2. ea \in MTimeCmp .. MTimeCmp + 7
      <4> HIDE DEF ea
      <4> QED BY <1>1, <2>3, LayoutAssumption
    <3>3. csr'[MIP] = csr1[MIP]
      BY <2>1, CellTypes DEF MIP, MTVAL
    <3>4. TimerAnswered(MIP)
      BY <3>1, <3>2, <3>3 DEF TimerAnswered, Executes, Store
    <3> HIDE DEF csr1
    <3> QED BY <1>2, <2>1, <3>1, <3>4 DEF TrapLimits
  <2> QED BY <2>2, <2>3 DEF AfterMtimecmpCheck
<1> QED BY <1>3, <1>4 DEF Store, Done

(* The instructions that fail one of their checks.                         *)
LEMMA ExecuteRaises ==
  ASSUME TypeOK, Execute, upc' = "trap"
  PROVE  TrapLimits
<1>1. CASE Store
  BY <1>1, TrappingStore DEF Execute
<1>2. CASE Load
  <2>1. CASE UNCHANGED <<x, csr, mem>>
    BY <2>1, NothingChanged
  <2>2. CASE UNCHANGED <<x, mem>> /\ \E v : csr' = [csr EXCEPT ![MTVAL] = v]
    BY <2>2, MtvalChanged
  <2> QED
    BY <1>2, <2>1, <2>2 DEF Load, Illegal, DataMisaligned, PutRd, Done
<1>3. CASE Branch \/ CsrAccess \/ SystemMisc \/ IllegalOpcode
  <2>1. CASE UNCHANGED <<x, csr, mem>>
    BY <2>1, NothingChanged
  <2>2. CASE Illegal
    BY <2>2, MtvalChanged DEF Illegal
  <2> QED
    BY <1>3, <2>1, <2>2
    DEF Branch, CsrAccess, SystemMisc, IllegalOpcode, PutRd, Done
<1>4. CASE Op \/ UpperImmediate \/ Jal \/ Jalr \/ NoEffect \/ Mret
  BY <1>4 DEF Op, UpperImmediate, Jal, Jalr, NoEffect, Mret, PutRd, Done
<1> QED BY <1>1, <1>2, <1>3, <1>4 DEF Execute

(* The instructions that leave a misaligned address: it is they that       *)
(* change nextpc, which was the aligned address behind them.               *)
LEMMA ExecuteMisaligns ==
  ASSUME Inv, Execute, upc' = "main_loop", nextpc' % 4 # 0
  PROVE  TrapLimits
<1>1. pc \in Word /\ pc % 4 = 0 /\ nextpc = Plus(pc, 4) /\ upc = "inst_32bit"
  BY DEF Inv, TypeOK, FetchAligned, TrapInv, Execute
<1>2. nextpc' # nextpc
  BY <1>1, PlusAligned
<1>3. CASE Jal \/ Jalr
  <2>1. /\ UNCHANGED <<csr, mem>>
        /\ \E v : x' = IF ir.rd = 0 THEN x ELSE [x EXCEPT ![ir.rd] = v]
    BY <1>3 DEF Jal, Jalr, PutRd
  <2>2. x \in [Regs \ {0} -> Word]
    BY DEF Inv, TypeOK
  <2>3. \A r \in Regs \ {0} : x'[r] = x[r] \/ r = ir.rd
    BY <2>1, <2>2
  <2>4. Executes({"jal", "jalr"})
    BY <1>1, <1>3 DEF Executes, Jal, Jalr
  <2> QED BY <2>1, <2>3, <2>4 DEF TrapLimits, LinkWritten
<1>4. CASE Branch
  <2>1. UNCHANGED <<x, csr, mem>>
    BY <1>2, <1>4 DEF Branch, Illegal
  <2> QED BY <2>1, NothingChanged
<1>5. CASE Mret
  <2>1. UNCHANGED <<x, mem>> /\ csr \in [Csrs -> Word]
        /\ csr' = [csr EXCEPT ![MSTATUS] = MretStatus(csr[MSTATUS])]
    BY <1>5 DEF Mret, Inv, TypeOK
  <2>2. EnableRestored(MSTATUS)
    BY <1>1, <1>5 DEF EnableRestored, Executes, Mret
  <2> QED BY <2>1, <2>2 DEF TrapLimits
<1>6. CASE Load \/ Store \/ Op \/ UpperImmediate \/ NoEffect \/ CsrAccess \/ SystemMisc
           \/ IllegalOpcode
  BY <1>2, <1>6
  DEF Load, Store, Op, UpperImmediate, NoEffect, CsrAccess, SystemMisc, IllegalOpcode,
      Illegal, DataMisaligned, Raise
<1> QED BY <1>3, <1>4, <1>5, <1>6 DEF Execute

(* An instruction that traps, whatever check it fails and whenever that    *)
(* check is made, changes no memory, no register but the link of jal and   *)
(* jalr, and no CSR but mtval, mstatus by an mret to a misaligned mepc and *)
(* mip.MTIP by a store into mtimecmp; the interrupt check and the fetch    *)
(* before it change none of them.                                          *)
THEOREM TrapsArePrecise == Spec => TrapEffectsLimited
<1>1. Inv /\ [Next]_vars
      => [/\ upc \in {"loop2", "loop3"} /\ upc' \in {"loop3", "inst_32bit"} =>
               UNCHANGED <<x, csr, mem>>
          /\ Trapping => TrapLimits]_vars
  <2> SUFFICES ASSUME Inv, Next
               PROVE  /\ upc \in {"loop2", "loop3"} /\ upc' \in {"loop3", "inst_32bit"} =>
                           UNCHANGED <<x, csr, mem>>
                      /\ Trapping => TrapLimits
    OBVIOUS
  <2>1. CASE Execute
    BY <2>1, ExecuteRaises, ExecuteMisaligns DEF Execute, Trapping, Inv
  <2>2. CASE MainLoopMisaligned
    BY <2>2, MtvalChanged DEF MainLoopMisaligned, Inv
  <2>3. CASE Fetch
    BY <2>3, NothingChanged DEF Fetch
  <2>4. CASE Interrupt \/ NoInterrupt
    BY <2>4 DEF Interrupt, NoInterrupt, Trapping
  <2> QED
    BY <2>1, <2>2, <2>3, <2>4
    DEF Next, Step, UcReset, RLoop, PcAlignmentOk, Trap, Trap1, ExternalReset, Trapping
<1>2. Init => Inv
  BY InvInit
<1>3. Inv /\ [Next]_vars => Inv'
  BY InvStep
<1> QED BY <1>1, <1>2, <1>3, PTL DEF Spec, TrapEffectsLimited, TrapLimits

-----------------------------------------------------------------------------
(* Interrupts are served.                                                  *)

(* How far the interrupt check, or another trap, still is.                 *)
Wait ==
  CASE upc = "uc_reset" -> 21
    [] upc = "rloop" -> rloop + 6
    [] upc = "loop3" -> 5
    [] upc = "inst_32bit" -> 4
    [] upc = "main_loop" -> 3
    [] upc = "loop2" -> 2
    [] upc = "trap" -> 1
    [] upc = "trap1" -> 0

WaitIs ==
  /\ Wait \in 0 .. 21
  /\ upc = "uc_reset" => Wait = 21
  /\ upc = "rloop" => Wait = rloop + 6
  /\ upc = "loop3" => Wait = 5
  /\ upc = "inst_32bit" => Wait = 4
  /\ upc = "main_loop" => Wait = 3
  /\ upc = "loop2" => Wait = 2
  /\ upc = "trap" => Wait = 1
  /\ upc = "trap1" => Wait = 0

LEMMA WaitAt == TypeOK => WaitIs
<1> SUFFICES ASSUME TypeOK PROVE WaitIs
  OBVIOUS
<1>1. upc \in Labels /\ rloop \in 0 .. 14
  BY DEF TypeOK, BssWords
<1> QED BY <1>1 DEF Wait, WaitIs, Labels

LEMMA WaitNext == TypeOK' => WaitIs'
<1>1. TypeOK => WaitIs
  BY WaitAt
<1> QED BY <1>1, PTL

(* While an interrupt waits every step comes nearer to the check, and at   *)
(* the check it is taken.  Trap entry disables interrupts.                 *)
LEMMA WaitShortens ==
  ASSUME TypeOK, TypeOK', InterruptWaits, InterruptWaits', Step
  PROVE  Wait' < Wait
<1>1. CASE UcReset
  <2>1. upc = "uc_reset" /\ upc' = "rloop" /\ rloop' = 14
    BY <1>1 DEF UcReset, BssWords
  <2> QED BY <2>1, WaitAt, WaitNext DEF WaitIs
<1>2. CASE RLoop
  <2>1. upc = "rloop" /\ rloop \in 0 .. 14
    BY <1>2 DEF RLoop, TypeOK, BssWords
  <2>2. upc' = "main_loop" \/ (upc' = "rloop" /\ rloop' = rloop - 1)
    BY <1>2 DEF RLoop
  <2> QED BY <2>1, <2>2, WaitAt, WaitNext DEF WaitIs
<1>3. CASE MainLoopMisaligned \/ PcAlignmentOk
  <2>1. upc = "main_loop" /\ upc' \in {"trap", "loop2"}
    BY <1>3 DEF MainLoopMisaligned, PcAlignmentOk, Raise
  <2> QED BY <2>1, WaitAt, WaitNext DEF WaitIs
<1>4. CASE Interrupt
  <2>1. upc = "loop2" /\ upc' = "trap1"
    BY <1>4 DEF Interrupt
  <2> QED BY <2>1, WaitAt, WaitNext DEF WaitIs
<1>5. ~NoInterrupt
  BY DEF NoInterrupt, InterruptDue, Pending, InterruptWaits
<1>6. CASE Trap
  <2>1. upc = "trap" /\ upc' = "trap1"
    BY <1>6 DEF Trap
  <2> QED BY <2>1, WaitAt, WaitNext DEF WaitIs
<1>7. ~Trap1
  <2>1. SUFFICES ASSUME Trap1 PROVE ~Has(csr'[MSTATUS], MIE)
    BY DEF InterruptWaits
  <2>2. csr[MSTATUS] \in Nat
    BY CellTypes, WordsAreNat DEF TypeOK
  <2>3. csr'[MSTATUS] = TrapStatus(csr[MSTATUS])
    BY <2>1, CellTypes DEF Trap1, TypeOK
  <2> QED BY <2>2, <2>3, TrapStatusBits
<1>8. CASE Fetch
  <2>1. upc = "loop3" /\ upc' \in {"trap", "inst_32bit"}
    BY <1>8 DEF Fetch, Raise
  <2> QED BY <2>1, WaitAt, WaitNext DEF WaitIs
<1>9. CASE Execute
  <2>1. upc = "inst_32bit" /\ upc' \in {"main_loop", "trap"}
    BY <1>9
    DEF Execute, Load, Store, Op, UpperImmediate, Branch, Jal, Jalr, NoEffect,
        CsrAccess, SystemMisc, Mret, IllegalOpcode, Illegal, DataMisaligned,
        PutRd, Done, Raise
  <2> QED BY <2>1, WaitAt, WaitNext DEF WaitIs
<1> QED BY <1>1, <1>2, <1>3, <1>4, <1>5, <1>6, <1>7, <1>8, <1>9 DEF Step

(* Two natural numbers below 32 are ordered by the first of their binary   *)
(* digits that differs.                                                    *)
Half(n) == n \div 2
Odd(n) == n % 2 = 1
Drops(a, b) == Odd(a) /\ ~Odd(b)
SameDigit(a, b) == Odd(a) <=> Odd(b)

DigitsFall(d4, d3, d2, d1, d0, e4, e3, e2, e1, e0) ==
  \/ Drops(d4, e4)
  \/ /\ SameDigit(d4, e4)
     /\ \/ Drops(d3, e3)
        \/ /\ SameDigit(d3, e3)
           /\ \/ Drops(d2, e2)
              \/ /\ SameDigit(d2, e2)
                 /\ \/ Drops(d1, e1)
                    \/ SameDigit(d1, e1) /\ Drops(d0, e0)

LEMMA Halved ==
  ASSUME NEW d \in Nat, NEW e \in Nat, e < d
  PROVE  Half(e) < Half(d) \/ (Half(e) = Half(d) /\ Drops(d, e))
BY DEF Half, Odd, Drops

LEMMA LessByDigits ==
  ASSUME NEW d0 \in 0 .. 31, NEW d1, NEW d2, NEW d3, NEW d4,
         NEW e0 \in 0 .. 31, NEW e1, NEW e2, NEW e3, NEW e4,
         d1 = Half(d0), d2 = Half(d1), d3 = Half(d2), d4 = Half(d3),
         e1 = Half(e0), e2 = Half(e1), e3 = Half(e2), e4 = Half(e3),
         e0 < d0
  PROVE  DigitsFall(d4, d3, d2, d1, d0, e4, e3, e2, e1, e0)
<1>1. d1 \in 0 .. 15 /\ e1 \in 0 .. 15
  BY DEF Half
<1>2. d2 \in 0 .. 7 /\ e2 \in 0 .. 7
  BY <1>1 DEF Half
<1>3. d3 \in 0 .. 3 /\ e3 \in 0 .. 3
  BY <1>2 DEF Half
<1>4. d4 \in 0 .. 1 /\ e4 \in 0 .. 1
  BY <1>3 DEF Half
<1>5. e4 < d4 => Drops(d4, e4)
  BY <1>4 DEF Drops, Odd
<1>6. e1 < d1 \/ (e1 = d1 /\ Drops(d0, e0))
  BY Halved
<1>7. e1 < d1 => e2 < d2 \/ (e2 = d2 /\ Drops(d1, e1))
  BY <1>1, Halved
<1>8. e2 < d2 => e3 < d3 \/ (e3 = d3 /\ Drops(d2, e2))
  BY <1>2, Halved
<1>9. e3 < d3 => e4 < d4 \/ (e4 = d4 /\ Drops(d3, e3))
  BY <1>3, Halved
<1>10. \A a, b : a = b => SameDigit(a, b)
  BY DEF SameDigit
<1>11. e1 = d1 => e2 = d2 /\ e3 = d3 /\ e4 = d4
  OBVIOUS
<1>12. e2 = d2 => e3 = d3 /\ e4 = d4
  OBVIOUS
<1>13. e3 = d3 => e4 = d4
  OBVIOUS
<1> QED BY <1>5, <1>6, <1>7, <1>8, <1>9, <1>10, <1>11, <1>12, <1>13, Zenon DEF DigitsFall

(* An interrupt that is enabled and pending does not wait for ever: it is  *)
(* taken, or disabled, or an exception comes first, from any label and     *)
(* whatever the program does, after any number of resets if they come to   *)
(* an end.  The check that each trap entry passes over (ucode.asm:321) is  *)
(* reached in the end.  That a next step exists while it waits is a        *)
(* hypothesis, for ENABLED is beyond the provers.                          *)
ResetsEnd == <>[][Step]_vars
InterruptBlocked == InterruptWaits /\ ~ENABLED <<Step>>_vars

THEOREM InterruptsAreServed ==
  FairSpec /\ ResetsEnd /\ []~InterruptBlocked => InterruptServed
<1> DEFINE
      d0 == Wait
      d1 == Half(d0)
      d2 == Half(d1)
      d3 == Half(d2)
      d4 == Half(d3)
      P0 == Odd(d0)
      P1 == Odd(d1)
      P2 == Odd(d2)
      P3 == Odd(d3)
      P4 == Odd(d4)
      T4 == P4 <=> P4'
      T3 == T4 /\ (P3 <=> P3')
      T2 == T3 /\ (P2 <=> P2')
      T1 == T2 /\ (P1 <=> P1')
      T0 == T1 /\ (P0 <=> P0')
      Falls == \/ P4 /\ ~P4'
               \/ T4 /\ P3 /\ ~P3'
               \/ T3 /\ P2 /\ ~P2'
               \/ T2 /\ P1 /\ ~P1'
               \/ T1 /\ P0 /\ ~P0'
      Still == TypeOK /\ InterruptWaits
<1> HIDE DEF d0, d1, d2, d3, d4
<1>1. Still /\ Still' /\ Step => Falls
  <2> SUFFICES ASSUME Still, Still', Step PROVE Falls
    OBVIOUS
  <2>1. Wait \in 0 .. 21 /\ Wait' \in 0 .. 21 /\ Wait' < Wait
    BY WaitAt, WaitNext, WaitShortens DEF WaitIs
  <2>2. Wait \in 0 .. 31 /\ Wait' \in 0 .. 31
    BY <2>1
  <2>3. DigitsFall(d4, d3, d2, d1, d0, d4', d3', d2', d1', d0')
    BY <2>1, <2>2, LessByDigits DEF d0, d1, d2, d3, d4, Half
  <2> QED BY <2>3 DEF DigitsFall, Drops, SameDigit
<1>2. UNCHANGED vars => T0
  <2> SUFFICES ASSUME UNCHANGED vars PROVE T0
    OBVIOUS
  <2>1. Wait' = Wait
    BY DEF vars, Wait
  <2> QED BY <2>1 DEF d0, d1, d2, d3, d4, Half, Odd
<1> HIDE DEF P0, P1, P2, P3, P4
<1>3. Still /\ Still' /\ [Step]_vars => Falls \/ T0
  BY <1>1, <1>2
<1>4. Still /\ Still' /\ [Step]_vars => (P4' => P4) /\ ((P4 <=> P4') => T4)
  BY <1>3
<1>5. Still /\ Still' /\ [Step]_vars /\ [T4]_vars => (P3' => P3) /\ ((P3 <=> P3') => T3)
  BY <1>2, <1>3
<1>6. Still /\ Still' /\ [Step]_vars /\ [T3]_vars => (P2' => P2) /\ ((P2 <=> P2') => T2)
  BY <1>2, <1>3
<1>7. Still /\ Still' /\ [Step]_vars /\ [T2]_vars => (P1' => P1) /\ ((P1 <=> P1') => T1)
  BY <1>2, <1>3
<1>8. Still /\ Still' /\ [Step]_vars /\ [T1]_vars => (P0' => P0) /\ ((P0 <=> P0') => T0)
  BY <1>2, <1>3
<1>9. Still /\ Still' /\ <<Step>>_vars => ~[T0]_vars
  BY <1>1
<1> HIDE DEF T0, T1, T2, T3, T4
<1>10. <>[]Still /\ <>[][Step]_vars => <>[][T4]_vars
  BY <1>4, PTL
<1>11. <>[]Still /\ <>[][Step]_vars => <>[][T3]_vars
  BY <1>5, <1>10, PTL
<1>12. <>[]Still /\ <>[][Step]_vars => <>[][T2]_vars
  BY <1>6, <1>11, PTL
<1>13. <>[]Still /\ <>[][Step]_vars => <>[][T1]_vars
  BY <1>7, <1>12, PTL
<1>14. <>[]Still /\ <>[][Step]_vars => <>[][T0]_vars
  BY <1>8, <1>13, PTL
<1>15. <>[]Still /\ <>[][Step]_vars => ~[]<><<Step>>_vars
  BY <1>9, <1>14, PTL
<1>16. []TypeOK /\ <>[]InterruptWaits => <>[]Still
  BY PTL DEF Still
<1>17. WF_vars(Step) /\ []~InterruptBlocked /\ <>[]InterruptWaits => []<><<Step>>_vars
  BY PTL DEF InterruptBlocked
<1> QED BY <1>15, <1>16, <1>17, TypeCorrect, PTL DEF FairSpec, ResetsEnd, InterruptServed

=============================================================================
