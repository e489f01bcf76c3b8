------------------------------- MODULE Fields -------------------------------
(***************************************************************************)
(* Where ucode.asm finds the fields of an instruction word: the four bytes *)
(* of ir are rotated through the carry, masked and added together, one     *)
(* byte at a time.  Each routine is modelled by the bytes it delivers, and *)
(* compared with the layout of the RV32I formats, given as the bit of ir   *)
(* that every bit of the result comes from.                                *)
(*                                                                         *)
(* The instruction words visited are those at most MaxToggles bits away    *)
(* from one of Bases: every bit, and every interaction of a few bits.      *)
(***************************************************************************)
EXTENDS Integers, FiniteSets

CONSTANTS
  Bases,        (* words to start from, as sequences of four bytes         *)
  MaxToggles    (* bound: bits toggled away from a base                    *)

ASSUME FieldsAssumption ==
  /\ Bases \subseteq [0 .. 3 -> 0 .. 255]
  /\ MaxToggles \in Nat

VARIABLES ir, toggled

fieldVars == <<ir, toggled>>

Power(i) == <<1, 2, 4, 8, 16, 32, 64, 128>>[i + 1]
Bit(b, i) == (b \div Power(i)) % 2
BitOf(w, k) == Bit(w[k \div 8], k % 8)

-----------------------------------------------------------------------------
(* Registers and small fields.  Register n is at RAM address 4 * n.        *)

Rs1Address == ((2 * ir[2] + Bit(ir[1], 7)) % 32) * 4
(* Mutant of Rs2Address: bit 0 of ir+3 is not rotated in.                  *)
Rs2AddressShort == ((ir[2] \div 16) % 32) * 4

Rs2Address == (((256 * ir[3] + ir[2]) \div 16) % 32) * 4
RdAddress == ((2 * ir[1] + Bit(ir[0], 7)) % 32) * 4
Uimm5 == (2 * ir[2] + Bit(ir[1], 7)) % 32
Funct3 == (ir[1] \div 16) % 8
OpcodeIndex == (ir[0] \div 4) % 32

-----------------------------------------------------------------------------
(* Immediates, as the four bytes delivered in s2 or temp.                  *)

Word4(b0, b1, b2, b3) ==
  [k \in 0 .. 3 |-> IF k = 0 THEN b0 ELSE IF k = 1 THEN b1
                    ELSE IF k = 2 THEN b2 ELSE b3]

(* The two upper bytes of ir, rotated right by four places.                *)
Upper == (256 * ir[3] + ir[2]) \div 16

(* Twelve bits b1 (four of them), b0, sign-extended from bit 11.           *)
Extended12(b0, b1) ==
  IF Bit(b1, 3) = 1 THEN Word4(b0, b1 + 240, 255, 255)
                    ELSE Word4(b0, b1, 0, 0)

GetImm12I == Extended12(Upper % 256, (Upper \div 256) % 16)

GetImm12S ==
  Extended12(((ir[3] % 16) \div 2) * 32 + ((2 * ir[1] + Bit(ir[0], 7)) % 32),
             ir[3] \div 16)

(* ir[7] goes to bit 11, the sign to everything above.  In the first       *)
(* addition the carry in only reaches bit 0, which is masked.              *)

(* Mutant of GetImm12B: ir[7] is left in bit 0, as in the S format.        *)
GetImm12BAsS ==
  LET sign == Bit(ir[3], 7)
  IN  Word4(((ir[3] % 16) \div 2) * 32 + ((2 * ir[1] + Bit(ir[0], 7)) % 32),
            ((ir[3] \div 16) % 8) + 248 * sign, 255 * sign, 255 * sign)

GetImm12B ==
  LET sign == Bit(ir[3], 7)
  IN  Word4(((ir[3] % 16) \div 2) * 32 + ((2 * ir[1]) % 32),
            ((ir[3] \div 16) % 8) + 8 * Bit(ir[0], 7) + 240 * sign,
            255 * sign, 255 * sign)

(* Bit 11 of the result: what is tested is bit 4 of ir+3, ir[28].          *)
GetImm20J ==
  LET sign == Bit(ir[3], 7)
      low == Upper % 256
  IN  Word4(low - (low % 2),
            (((Upper \div 256) % 8) + 8 * Bit(ir[3], 4)) + (ir[1] \div 16) * 16,
            (ir[2] % 16) + 240 * sign, 255 * sign)

(* inst_lui and inst_auipc: the upper twenty bits.                         *)
Imm20U == Word4(0, (ir[1] \div 16) * 16, ir[2], ir[3])

-----------------------------------------------------------------------------
FieldsInit ==
  /\ ir \in Bases
  /\ toggled = {}

Toggle(k) ==
  /\ k \notin toggled
  /\ Cardinality(toggled) < MaxToggles
  /\ toggled' = toggled \cup {k}
  /\ ir' = [ir EXCEPT ![k \div 8] =
              IF Bit(@, k % 8) = 1 THEN @ - Power(k % 8) ELSE @ + Power(k % 8)]

FieldsNext == \E k \in 0 .. 31 : Toggle(k)

FieldsSpec == FieldsInit /\ [][FieldsNext]_fieldVars

-----------------------------------------------------------------------------
(* The formats: bit k of the immediate is bit Source(k) of ir, or zero.    *)

Zero == -1
IrBit(i) == IF i = Zero THEN 0 ELSE BitOf(ir, i)
Matches(w, Source(_)) == \A k \in 0 .. 31 : BitOf(w, k) = IrBit(Source(k))

SourceI(k) == IF k >= 11 THEN 31 ELSE k + 20
SourceS(k) == IF k >= 11 THEN 31 ELSE IF k >= 5 THEN k + 20 ELSE k + 7
SourceB(k) ==
  IF k = 0 THEN Zero
  ELSE IF k <= 4 THEN k + 7
  ELSE IF k <= 10 THEN k + 20
  ELSE IF k = 11 THEN 7 ELSE 31
SourceU(k) == IF k < 12 THEN Zero ELSE k
SourceJ(k) ==
  IF k = 0 THEN Zero
  ELSE IF k <= 10 THEN k + 20
  ELSE IF k = 11 THEN 20
  ELSE IF k <= 19 THEN k ELSE 31

(* The n bits of ir from lo on, and nothing else.                          *)
IsField(value, lo, n) ==
  /\ value \in 0 .. 2 * Power(n - 1) - 1
  /\ \A i \in 0 .. n - 1 : Bit(value, i) = IrBit(lo + i)

IsRegister(address, lo) == address % 4 = 0 /\ IsField(address \div 4, lo, 5)

(* Register numbers, uimm5, funct3, opcode and upper immediate are those   *)
(* of the instruction, whatever the neighbouring bits are.                 *)
FieldsDecoded ==
  /\ IsRegister(Rs1Address, 15)
  /\ IsRegister(Rs2Address, 20)
  /\ IsRegister(RdAddress, 7)
  /\ IsField(Uimm5, 15, 5)
  /\ IsField(Funct3, 12, 3)
  /\ IsField(OpcodeIndex, 2, 5)
  /\ Matches(Imm20U, SourceU)

(* The offsets of loads and jalr and the operands of op-imm, the offsets   *)
(* of stores and those of branches: every bit, the sign extension included. *)
Immediates ==
  /\ Matches(GetImm12I, SourceI)
  /\ Matches(GetImm12S, SourceS)
  /\ Matches(GetImm12B, SourceB)

(* ucode.asm:1648: "s2[11] := ir[20]", and the other lines of get_imm20_j. *)
ImmediateJ == Matches(GetImm20J, SourceJ)
=============================================================================
