-------------------------------- MODULE Alu ---------------------------------
(***************************************************************************)
(* The arithmetic of ucode.asm: what op, op-imm and the branches compute   *)
(* from s1 and s2, a byte at a time, through one carry.  Words are their   *)
(* four bytes, lowest first, at full width.                                *)
(*                                                                         *)
(* An instruction word from Instructions is followed from inst_op,         *)
(* inst_op_imm or inst_branch to where the routine hands its result on;    *)
(* Rv32Ucode goes on from there.  Its fields are taken from ir as Fields   *)
(* has it; all other words are only decoded.                               *)
(***************************************************************************)
EXTENDS Fields

CONSTANTS
  Instructions, (* words of op, op-imm and branch that are executed        *)
  Firsts,       (* words found in the register rs1                         *)
  Seconds,      (* words found in the register rs2                         *)
  Leftovers     (* words the instruction before may have left in dest      *)

Byte == 0 .. 255
Word == [0 .. 3 -> Byte]

ASSUME AluAssumption ==
  /\ Instructions \subseteq {w \in Word : w[0] % 128 \in {19, 51, 99}}
  /\ {Firsts, Seconds, Leftovers} \subseteq SUBSET Word

VARIABLES
  at,           (* the label the microprogram is at                        *)
  s1, s2, dest,
  operands      (* what s1 and s2 held when the routine was entered        *)

inst == <<fieldVars, operands>>
vars == <<at, s1, s2, dest, inst>>

OpImm == 4
Op == 12
Branch == 24

-----------------------------------------------------------------------------
(* Bytes and the carry                                                     *)

And(a, b) ==
  LET Both(i) == Power(i) * Bit(a, i) * Bit(b, i)
  IN  Both(0) + Both(1) + Both(2) + Both(3)
        + Both(4) + Both(5) + Both(6) + Both(7)
Xor(a, b) == a + b - 2 * And(a, b)

(* xor #0xff on each byte, and xor #0x80 on the highest.                   *)
Complement(w)  == [k \in 0 .. 3 |-> 255 - w[k]]
SignFlipped(w) == [w EXCEPT ![3] = (@ + 128) % 256]

(* The carry into each byte of a + b + c; the one that comes out is [4].   *)
Carries(a, b, c) ==
  LET carry[k \in 0 .. 4] ==
        IF k = 0 THEN c ELSE (a[k - 1] + b[k - 1] + carry[k - 1]) \div 256
  IN  carry

Adc(a, b, c) ==
  LET carry == Carries(a, b, c)
  IN  [k \in 0 .. 3 |-> (a[k] + b[k] + carry[k]) % 256]

(* rlc from the lowest byte up, rrc from the highest down.                 *)
Rlc(w, c) ==
  [k \in 0 .. 3 |->
     ((2 * w[k]) % 256) + (IF k = 0 THEN c ELSE w[k - 1] \div 128)]
Rrc(w, c) ==
  [k \in 0 .. 3 |->
     (w[k] \div 2) + 128 * (IF k = 3 THEN c ELSE w[k + 1] % 2)]

-----------------------------------------------------------------------------
AluInit ==
  /\ at = "inst_32bit"
  /\ ir \in Bases \cup Instructions /\ toggled = {}
  /\ dest \in Leftovers /\ s1 = dest /\ s2 = dest
  /\ operands = [s1 |-> s1, s2 |-> s2]

(* A word that is not executed, with another bit toggled.                  *)
DecodeOnly ==
  /\ at = "inst_32bit"
  /\ ir \notin Instructions
  /\ FieldsNext
  /\ UNCHANGED <<at, s1, s2, dest, operands>>

(* x0 reads as zero, and the registers may be one and the same.            *)
ZeroWord == [k \in 0 .. 3 |-> 0]
GetRs1 == s1' \in (IF Rs1Address = 0 THEN {ZeroWord} ELSE Firsts)
GetRs2 == s2' \in (CASE Rs2Address = 0 -> {ZeroWord}
                     [] Rs2Address = Rs1Address -> {s1'}
                     [] OTHER -> Seconds)

Executes(opcode) ==
  /\ at = "inst_32bit"
  /\ ir \in Instructions /\ OpcodeIndex = opcode

DispatchFunct3 ==
  /\ at' = "dispatch_funct3"
  /\ operands' = [s1 |-> s1', s2 |-> s2']
  /\ UNCHANGED <<dest, fieldVars>>

InstOp     == Executes(Op) /\ GetRs1 /\ GetRs2 /\ DispatchFunct3
InstOpImm  == Executes(OpImm) /\ GetRs1 /\ s2' = GetImm12I /\ DispatchFunct3
InstBranch == Executes(Branch) /\ GetRs1 /\ GetRs2 /\ DispatchFunct3

(* The jump tables of inst_op and inst_op_imm differ in their first entry. *)
Dispatched(function) ==
  /\ at = "dispatch_funct3"
  /\ OpcodeIndex # Branch
  /\ Funct3 = function

Put(w) ==
  /\ at' = "put_rd_main_loop"
  /\ dest' = w

InstAddSub ==
  /\ Dispatched(0)
  /\ \/ /\ OpcodeIndex = Op /\ BitOf(ir, 30) = 1
        /\ s2' = Complement(s2)
        /\ Put(Adc(s1, s2', 1))
     \/ /\ ~(OpcodeIndex = Op /\ BitOf(ir, 30) = 1)
        /\ Put(Adc(s1, s2, 0))
        /\ UNCHANGED s2
  /\ UNCHANGED <<s1, inst>>

(* The bytes of s1 are in dest from here on; s2 is the count of rounds.    *)
InstShift ==
  /\ \/ Dispatched(1) /\ at' = "sll_loop"
     \/ Dispatched(5) /\ at' = "srl_sra_loop"
  /\ dest' = s1
  /\ UNCHANGED <<s1, s2, inst>>

Remaining(w) == w[0] % 32

CountedDown == s2' = [s2 EXCEPT ![0] = Remaining(s2) - 1]

ShiftDone ==
  /\ at \in {"sll_loop", "srl_sra_loop"}
  /\ Remaining(s2) = 0
  /\ at' = "put_rd_main_loop"
  /\ UNCHANGED <<s1, s2, dest, inst>>

SllLoop ==
  /\ at = "sll_loop"
  /\ Remaining(s2) # 0
  /\ CountedDown
  /\ dest' = Rlc(dest, 0)
  /\ UNCHANGED <<at, s1, inst>>

(* The sign is that of s1, which the rounds leave as it was.               *)
SrlSraLoop ==
  /\ at = "srl_sra_loop"
  /\ Remaining(s2) # 0
  /\ CountedDown
  /\ dest' = Rrc(dest, IF BitOf(ir, 30) = 1 THEN s1[3] \div 128 ELSE 0)
  /\ UNCHANGED <<at, s1, inst>>

(* compare_s1_s2_u, and compare_s1_s2_s, which turns both signs over       *)
(* first; the carry comes out set unless the first is less.                *)

(* Mutant of CompareU: sec is clc, so that equal words are less.           *)
CompareUWithoutSec(a, b) == Carries(a, Complement(b), 0)[4]

CompareU(a, b) == Carries(a, Complement(b), 1)[4]

(* clear_dest, and the 1 that put_1_rd_main_loop adds.                     *)
PutFlag(f) == Put([ZeroWord EXCEPT ![0] = f])

InstSlt ==
  /\ Dispatched(2)
  /\ s1' = SignFlipped(s1) /\ s2' = SignFlipped(s2)
  /\ PutFlag(1 - CompareU(s1', s2'))
  /\ UNCHANGED inst

InstSltu ==
  /\ Dispatched(3)
  /\ PutFlag(1 - CompareU(s1, s2))
  /\ UNCHANGED <<s1, s2, inst>>

InstXor ==
  /\ Dispatched(4)
  /\ Put([k \in 0 .. 3 |-> Xor(s1[k], s2[k])])
  /\ UNCHANGED <<s1, s2, inst>>

(* There is no or among the microinstructions.                             *)
InstOr ==
  /\ Dispatched(6)
  /\ s2' = Complement(s2)
  /\ Put(Complement([k \in 0 .. 3 |-> And(Complement(s1)[k], s2'[k])]))
  /\ UNCHANGED <<s1, inst>>

InstAnd ==
  /\ Dispatched(7)
  /\ Put([k \in 0 .. 3 |-> And(s1[k], s2[k])])
  /\ UNCHANGED <<s1, s2, inst>>

(* Bit 4 of ir+1, the lowest of funct3, turns the outcome over.            *)
BranchIf(holds) ==
  /\ at = "dispatch_funct3"
  /\ OpcodeIndex = Branch
  /\ at' = IF holds # (Funct3 % 2 = 1) THEN "branch_taken_1" ELSE "main_loop"
  /\ UNCHANGED <<dest, inst>>

InstBeqBne ==
  /\ Funct3 \in {0, 1}
  /\ BranchIf(\A k \in 0 .. 3 : Xor(s1[k], s2[k]) = 0)
  /\ UNCHANGED <<s1, s2>>

InstBltBge ==
  /\ Funct3 \in {4, 5}
  /\ s1' = SignFlipped(s1) /\ s2' = SignFlipped(s2)
  /\ BranchIf(CompareU(s1', s2') = 0)

InstBltuBgeu ==
  /\ Funct3 \in {6, 7}
  /\ BranchIf(CompareU(s1, s2) = 0)
  /\ UNCHANGED <<s1, s2>>

AluNext ==
  \/ InstOp \/ InstOpImm \/ InstBranch
  \/ InstAddSub \/ InstShift \/ ShiftDone \/ SllLoop \/ SrlSraLoop
  \/ InstSlt \/ InstSltu \/ InstXor \/ InstOr \/ InstAnd
  \/ InstBeqBne \/ InstBltBge \/ InstBltuBgeu

(* No microinstruction waits for anything.                                 *)
AluSpec == AluInit /\ [][AluNext \/ DecodeOnly]_vars /\ WF_vars(AluNext)

-----------------------------------------------------------------------------
(* What RV32I defines, bit by bit                                          *)

Bits == 0 .. 31

IsSum(r, a, b) ==
  LET carry[k \in 0 .. 32] ==
        IF k = 0 THEN 0
        ELSE (BitOf(a, k - 1) + BitOf(b, k - 1) + carry[k - 1]) \div 2
  IN  \A k \in Bits : BitOf(r, k) = (BitOf(a, k) + BitOf(b, k) + carry[k]) % 2

(* The highest bit in which two words differ decides.  Where it is the     *)
(* sign the lesser has top there: 1 among signed words, else 0.            *)
Less(a, b, top) ==
  \E k \in Bits :
    /\ \A j \in k + 1 .. 31 : BitOf(a, j) = BitOf(b, j)
    /\ BitOf(a, k) = IF k = 31 THEN top ELSE 0
    /\ BitOf(b, k) = 1 - BitOf(a, k)

IsBits(r, BitAt(_)) == \A k \in Bits : BitOf(r, k) = BitAt(k)

Result(r, a, b) ==
  LET n == b[0] % 32
      Left(k) == IF k >= n THEN BitOf(a, k - n) ELSE 0
      Right(k) == IF k + n \in Bits THEN BitOf(a, k + n)
                  ELSE IF BitOf(ir, 30) = 1 THEN BitOf(a, 31) ELSE 0
      Slt(k) == IF k = 0 /\ Less(a, b, 1) THEN 1 ELSE 0
      Sltu(k) == IF k = 0 /\ Less(a, b, 0) THEN 1 ELSE 0
      Either(k) == IF BitOf(a, k) = BitOf(b, k) THEN 0 ELSE 1
      OneOf(k) == IF 1 \in {BitOf(a, k), BitOf(b, k)} THEN 1 ELSE 0
      Both(k) == BitOf(a, k) * BitOf(b, k)
  IN  CASE Funct3 = 0 -> IF OpcodeIndex = Op /\ BitOf(ir, 30) = 1
                         THEN IsSum(a, r, b) ELSE IsSum(r, a, b)
        [] Funct3 = 1 -> IsBits(r, Left)
        [] Funct3 = 2 -> IsBits(r, Slt)
        [] Funct3 = 3 -> IsBits(r, Sltu)
        [] Funct3 = 4 -> IsBits(r, Either)
        [] Funct3 = 5 -> IsBits(r, Right)
        [] Funct3 = 6 -> IsBits(r, OneOf)
        [] Funct3 = 7 -> IsBits(r, Both)

Taken(a, b) ==
  CASE Funct3 = 0 -> a = b
    [] Funct3 = 1 -> a # b
    [] Funct3 = 4 -> Less(a, b, 1)
    [] Funct3 = 5 -> ~Less(a, b, 1)
    [] Funct3 = 6 -> Less(a, b, 0)
    [] Funct3 = 7 -> ~Less(a, b, 0)

Correct ==
  IF OpcodeIndex = Branch
  THEN at = (IF Taken(operands.s1, operands.s2) THEN "branch_taken_1"
                                                ELSE "main_loop")
  ELSE at = "put_rd_main_loop" /\ Result(dest, operands.s1, operands.s2)

(* Every operation comes to an end, with the result RV32I defines for its  *)
(* operands or on the side of the branch they select, whatever the         *)
(* instruction before has left in dest, though the routines overwrite s1   *)
(* and s2 and count their rounds in s2 (ucode.asm:600-793, 930-981).       *)
ComputesAsDefined ==
  <>[](\/ at = "inst_32bit" /\ ir \notin Instructions
       \/ Correct)
=============================================================================
