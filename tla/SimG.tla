-------------------------------- MODULE SimG ---------------------------------
(***************************************************************************)
(* The simulator of the microarchitecture, ucode/tools/simg: each step of  *)
(* execute_single decodes the word at pc with the instruction table and    *)
(* executes it.  This is the instruction-level description of the CPU.     *)
(*                                                                         *)
(* Nothing in simg sets ext_int_pending or tick_pending; here they may be  *)
(* set from outside at any time.  The driver's memory is zero where        *)
(* nothing was loaded.  A step that raises an exception is not taken.      *)
(***************************************************************************)
EXTENDS InstructionSet

CONSTANTS And(_, _), Or(_, _), Xor(_, _)     (* bitwise                      *)

VARIABLES
  memory, pc, return_address, x, y, accumulator, carry,
  ext_int_pending, tick_pending,
  line               (* the bit last given to the UART                     *)

registers == <<memory, pc, return_address, x, y, accumulator, carry, line>>
vars == <<registers, ext_int_pending, tick_pending>>

MemSize == 65536
Peek(a) == IF a \in DOMAIN memory THEN memory[a] ELSE 0
Poke(a, value) ==
  memory' = [b \in DOMAIN memory \cup {a} |-> IF b = a THEN value ELSE memory[b]]

(* Raised from outside, or still as they were.                             *)
Signals ==
  /\ ext_int_pending' \in {0, 1}
  /\ tick_pending' \in {tick_pending, 1}

(***************************************************************************)
(* Operands                                                                *)
(***************************************************************************)
Ind(d) == IF d.fields["x"] = 0 THEN x ELSE y

OperandAddress(d) == IF d.types[1] = "mem" THEN d.fields["m"] ELSE Ind(d)

Operand(d) == IF d.types[1] = "imm" THEN d.fields["i"] ELSE Peek(OperandAddress(d))

Readable(d) == d.types[1] = "imm" \/ OperandAddress(d) < MemSize

(* The code masks y with 32 bits, but fails at an address beyond the       *)
(* memory long before that.                                                *)
Postinc(d) ==
  IF d.types[1] # "postinc" THEN UNCHANGED <<x, y>>
  ELSE IF d.fields["x"] = 0 THEN x' = (x + 1) % 256 /\ UNCHANGED y
  ELSE y' = y + 1 /\ UNCHANGED x

(***************************************************************************)
(* The instructions.  d is the decoded word; pc is behind it when they     *)
(* run.                                                                    *)
(***************************************************************************)
Next_pc == pc + 2

(* Bits 10 and 11 ask for a serial interface that simg does not have.      *)
InstOpr(d) ==
  LET Has(i)  == Digit(d.fields["i"], i) = 1
      c       == IF Has(3) THEN Digit(d.fields["i"], 2) ELSE carry
      left    == 2 * accumulator + c
      rotated == IF ~Has(5) THEN [ac |-> accumulator, c |-> c]
                 ELSE IF Has(4) THEN [ac |-> accumulator \div 2 + 128 * c, c |-> accumulator % 2]
                 ELSE [ac |-> left % 256, c |-> left \div 256]
  IN  /\ d.mnem = "opr" /\ ~Has(10) /\ ~Has(11)
      /\ x' = IF Has(1) /\ ~Has(0) THEN accumulator ELSE x
      /\ y' = IF Has(1) /\ Has(0) THEN Or(y \div 256, accumulator * 256) ELSE y
      /\ line' = IF Has(8) THEN accumulator % 2 ELSE line
      /\ accumulator' = rotated.ac /\ carry' = rotated.c
      /\ pc' = (IF Has(6) THEN return_address ELSE Next_pc) + (IF Has(7) THEN 2 * rotated.ac ELSE 0)
      /\ IF Has(9) THEN tick_pending' = 0 /\ ext_int_pending' \in {0, 1} ELSE Signals
      /\ UNCHANGED <<memory, return_address>>

InstStore(d) ==
  /\ d.mnem = "store" /\ OperandAddress(d) < MemSize
  /\ Poke(OperandAddress(d), accumulator) /\ Postinc(d) /\ pc' = Next_pc
  /\ UNCHANGED <<return_address, accumulator, carry, line>> /\ Signals

Computes(d, result, c) ==
  /\ Readable(d)
  /\ accumulator' = result /\ carry' = c /\ Postinc(d) /\ pc' = Next_pc
  /\ UNCHANGED <<memory, return_address, line>> /\ Signals

InstLoad(d) == d.mnem = "load" /\ Computes(d, Operand(d), carry)
InstAnd(d)  == d.mnem = "and" /\ Computes(d, And(accumulator, Operand(d)), carry)
InstXor(d)  == d.mnem = "xor" /\ Computes(d, Xor(accumulator, Operand(d)), carry)
InstAdc(d)  ==
  LET result == accumulator + Operand(d) + carry
  IN  d.mnem = "adc" /\ Computes(d, result % 256, result \div 256)

InstSkb(d) ==
  /\ d.mnem = "skb" /\ Readable(d) /\ Postinc(d)
  /\ pc' = Next_pc + (IF Digit(Operand(d), d.fields["b"]) = d.fields["i"] THEN 2 ELSE 0)
  /\ UNCHANGED <<memory, return_address, accumulator, carry, line>> /\ Signals

InstBr(d) ==
  LET cond == CASE d.fields["c"] \div 2 = 0 -> IF accumulator = 0 THEN 1 ELSE 0
                [] d.fields["c"] \div 2 = 1 -> carry
                [] d.fields["c"] \div 2 = 2 -> ext_int_pending
                [] OTHER -> tick_pending
  IN  /\ d.mnem = "br"
      /\ pc' = IF cond = d.fields["c"] % 2 THEN d.fields["j"] ELSE Next_pc
      /\ UNCHANGED <<memory, return_address, x, y, accumulator, carry, line>> /\ Signals

InstJump(d) ==
  /\ d.mnem \in {"jump", "call"} /\ pc' = d.fields["j"]
  /\ return_address' = IF d.mnem = "call" THEN Next_pc ELSE return_address
  /\ UNCHANGED <<memory, x, y, accumulator, carry, line>> /\ Signals

ExecuteSingle ==
  LET word == 256 * Peek(pc) + Peek(pc + 1)
  IN  /\ Matching(word) # {} /\ pc + 1 < MemSize
      /\ \E d \in {Decoded(word)} :
           \/ InstOpr(d) \/ InstStore(d) \/ InstLoad(d) \/ InstAnd(d) \/ InstXor(d)
           \/ InstAdc(d) \/ InstSkb(d) \/ InstBr(d) \/ InstJump(d)

Outside == Signals /\ UNCHANGED registers

Next == ExecuteSingle \/ Outside
=============================================================================
