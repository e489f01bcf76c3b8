----------------------------- MODULE MCPrograms -----------------------------
(***************************************************************************)
(* Instances of the interpreter for TLC: bytes of 3 bits, words of 12, a   *)
(* RAM of 64 bytes whose lowest 8 stand for microcode and scratchpad, and  *)
(* sets of programs.  Every run has mtime at 16 and mtimecmp at 24, as in  *)
(* the code; the last RISC-V address is 55 and 56 .. 63 fault.             *)
(***************************************************************************)
EXTENDS Words

(* The bitwise "and" of two 3-bit bytes.                                   *)
BitAnd(a, b) ==
  LET both(m) == IF Has(a, m) /\ Has(b, m) THEN m ELSE 0
  IN  both(1) + both(2) + both(4)

Instruction(op, f3, rd, rs1, rs2, imm, n) ==
  [op |-> op, f3 |-> f3, rd |-> rd, rs1 |-> rs1, rs2 |-> rs2,
   imm |-> imm, csr |-> n, code |-> 99]

Minus(n) == WordMod - n
Nop == Instruction("op", 0, 0, 0, 0, 0, 0)
Bad == Instruction("illegal", 0, 0, 0, 0, 0, 0)
Jump(rd, off) == Instruction("jal", 0, rd, 0, 0, off, 0)
Ecall == Instruction("system", 0, 0, 0, 0, 0, 0)
Ebreak == Instruction("system", 0, 0, 0, 0, 0, 1)
MretInstr == Instruction("system", 0, 0, 0, 0, 0, 770)
Csr(f3, rd, rs1, n) == Instruction("system", f3, rd, rs1, 0, 0, n)

(* Sets of programs for traps: mtvec and the enables are set up or not, in *)
(* any of several ways, then something happens; a handler at 32 changes    *)
(* mepc, nests a trap or returns.  52 holds the last word of RAM.          *)
TrapCode(a) ==
  CASE a = 0  -> {Csr(1, 0, 1, 773)}
    [] a = 4  -> {Csr(6, 0, 8, 772), Csr(1, 0, 8, 772), Csr(5, 0, 0, 832)}
    [] a = 8  -> {Csr(6, 1, 8, 768), Csr(6, 0, 8, 836), Csr(1, 0, 1, 836),
                  Ecall, Ebreak, Jump(1, 2),
                  Instruction("jalr", 0, 0, 1, 0, 0, 0),
                  Csr(1, 0, 1, 839), Csr(2, 0, 1, 775), Csr(1, 0, 1, 3072)}
    [] a = 12 -> {Jump(0, Minus(4)), Jump(0, 40), Ecall, MretInstr, Bad,
                  Instruction("branch", 1, 0, 0, 1, Minus(8), 0),
                  Instruction("branch", 7, 0, 1, 0, Minus(6), 0),
                  Instruction("jalr", 0, 8, 8, 0, Minus(20), 0)}
    [] a = 32 -> {Csr(7, 0, 8, 836), Csr(1, 0, 8, 833), Ecall,
                  Csr(1, 0, 8, 768), Csr(1, 0, 0, 834)}
    [] a = 36 -> {MretInstr, Jump(0, Minus(4)), Bad}
    [] a = 52 -> {Nop}
    [] OTHER  -> {Bad}

(* Single loads and stores of every width around every boundary, and the   *)
(* instructions that trap on a misaligned target, an mret behind writes of *)
(* mstatus and mepc among them.  Registers hold 2723, with bit MPIE set.   *)
Edges == {0, 23, 24, 26, 28, 31, 32, 40, 41, 42, 52, 53, 54, 55, 56, 63, 88,
          Minus(8)}
Loads == {Instruction("load", f3, 1, 0, 0, e, 0) : f3 \in 0 .. 7, e \in Edges}
Stores == {Instruction("store", f3, 0, 0, 8, e, 0) : f3 \in 0 .. 3, e \in Edges}
MemoryCode(a) ==
  CASE a = 0 -> Loads \cup Stores \cup
                {Jump(1, 2), Jump(0, 6), Instruction("jalr", 0, 1, 8, 0, 0, 0),
                 Instruction("branch", 0, 0, 1, 8, 6, 0), Csr(1, 0, 8, 768)}
    [] a = 4 -> {Csr(1, 0, 8, 833)} \cup
                {Instruction(op, 0, 1, 0, 0, 0, 0) :
                   op \in {"lui", "auipc", "misc_mem", "custom0", "op"}}
    [] a = 8 -> {MretInstr}
    [] OTHER -> {Nop}

(* A memory image: zero, but for mtime, mtimeh and mtimecmp.               *)
Image(lo, hi, cmp) ==
  [a \in 0 .. 63 |->
     CASE a \in 24 .. 27 -> ByteOf(lo, a - 24)
       [] a \in 28 .. 31 -> ByteOf(hi, a - 28)
       [] a \in 32 .. 35 -> ByteOf(cmp, a - 32)
       [] OTHER -> 0]

(* Programs that answer and provoke the timer: stores to mtimecmp[h] and to *)
(* mtime, mip written, traps and misaligned jumps in between.              *)
StoreWord(rs2, at) == Instruction("store", 2, 0, 0, rs2, at, 0)
TimerCode(a) ==
  CASE a = 0  -> {Csr(1, 0, 1, 773)}
    [] a = 4  -> {Csr(1, 0, 8, 772)}
    [] a = 8  -> {Csr(6, 0, 8, 768), Nop}
    [] a = 12 -> {Jump(0, 32)}
    [] a = 44 -> {StoreWord(1, 24), StoreWord(8, 28), StoreWord(0, 40),
                  Csr(1, 0, 1, 836), Csr(7, 0, 8, 836), Ecall, Jump(0, 6),
                  MretInstr}
    [] a = 48 -> {Jump(0, Minus(4)), StoreWord(0, 16), Bad}
    [] a = 32 -> {Csr(3, 0, 8, 836), StoreWord(8, 24), Nop}
    [] a = 36 -> {MretInstr, Jump(0, Minus(2)), Ecall}
    [] OTHER  -> {Bad}

(* One program with every interrupt enabled, which keeps mtime small for   *)
(* ever by storing zero to it, traps now and then, and whose handler may   *)
(* clear mip or move mtimecmp.  LoopWords gives mie and mtvec one value;   *)
(* the handler is at 2220, of which the RAM keeps 44.                      *)
LoopCode(a) ==
  CASE a = 0  -> {Csr(1, 0, 1, 773)}
    [] a = 4  -> {Csr(1, 0, 8, 772)}
    [] a = 8  -> {Csr(6, 0, 8, 768), Nop}
    [] a = 12 -> {Jump(0, 20)}
    [] a = 32 -> {StoreWord(0, 16)}
    [] a = 36 -> {StoreWord(8, 24), Csr(6, 0, 8, 836), Csr(1, 0, 8, 836), Ecall,
                  Nop}
    [] a = 40 -> {Jump(0, Minus(8))}
    [] a = 44 -> {StoreWord(0, 16)}
    [] a = 48 -> {Csr(1, 0, 0, 836), StoreWord(0, 24), Nop}
    [] a = 52 -> {MretInstr}
    [] OTHER  -> {Bad}

NoSamples == {5}
TrapWords == {0, 33, 56, 2184}
TrapImages == {Image(0, 0, 3)}
TimerImages == {Image(4094, 7, 1), Image(0, 0, 5)}
TimerWords == {33, 2184}
LoopImages == {Image(0, 0, 5), Image(0, 0, 0)}
LoopWords == {2220}
MemoryWords == {2723}
MemoryImages == {Image(0, 0, 5)}
=============================================================================
