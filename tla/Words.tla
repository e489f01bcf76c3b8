------------------------------- MODULE Words -------------------------------
(***************************************************************************)
(* The 32-bit words of the RV32I microcode, which live in its scratchpad   *)
(* as four bytes, least significant first, and are computed on one byte at *)
(* a time by the 8-bit ALU.  The size of a byte is a parameter, so that a  *)
(* model can be checked with words of few values; the code has             *)
(* ByteMod = 256.                                                          *)
(***************************************************************************)
EXTENDS Integers

CONSTANTS
  ByteMod,      (* number of values of a byte of the data path             *)
  And(_, _)     (* the ALU's bitwise "and" of two bytes                    *)

Byte == 0 .. ByteMod - 1

ASSUME ByteModAssumption ==
  /\ ByteMod \in Nat
  /\ ByteMod >= 8
  /\ ByteMod % 8 = 0

ASSUME AndAssumption ==
  \A a, b \in Byte : And(a, b) \in Byte

(* A word is four bytes; word arithmetic is modulo WordMod (2^32).         *)
WordMod == ByteMod * (ByteMod * (ByteMod * ByteMod))
Word == 0 .. WordMod - 1

(* The weight of byte k of a word.                                         *)
Place == [k \in 0 .. 3 |->
            IF k = 0 THEN 1
            ELSE IF k = 1 THEN ByteMod
            ELSE IF k = 2 THEN ByteMod * ByteMod
            ELSE ByteMod * (ByteMod * ByteMod)]

ByteOf(w, k) == (w \div Place[k]) % ByteMod

WordOf(b) == b[0] + ByteMod * (b[1] + ByteMod * (b[2] + ByteMod * b[3]))

(* Mutant of Plus: the carry out of the top byte is kept.                  *)
PlusUnwrapped(a, b) == a + b

Plus(a, b) == (a + b) % WordMod

(* The top bit of a word: mcause's interrupt flag, and the sign.           *)
TopBit == WordMod \div 2

(* Signed comparison as compare_s1_s2_s makes it: flip both sign bits,     *)
(* then compare unsigned.                                                  *)
LessSigned(a, b) == Plus(a, TopBit) < Plus(b, TopBit)

(* Bit tests and updates: m is the weight (a power of two) of the bit.     *)
Has(w, m) == (w \div m) % 2 = 1
SetBit(w, m) == IF Has(w, m) THEN w ELSE w + m
ClearBit(w, m) == IF Has(w, m) THEN w - m ELSE w

(* The ALU has "and" and "xor" but no "or": the microcode complements with *)
(* "xor #0xff" and uses De Morgan's law.                                   *)
Complement(b) == ByteMod - 1 - b
OrWord(a, b) ==
  WordOf([k \in 0 .. 3 |->
            Complement(And(Complement(ByteOf(a, k)), Complement(ByteOf(b, k))))])
AndNotWord(a, b) ==
  WordOf([k \in 0 .. 3 |-> And(Complement(ByteOf(b, k)), ByteOf(a, k))])
=============================================================================
