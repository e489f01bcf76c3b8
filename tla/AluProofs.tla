----------------------------- MODULE AluProofs ------------------------------
(***************************************************************************)
(* Fields and immediates are decoded as the formats say from every         *)
(* instruction word, and the arithmetic routines compute what RV32I        *)
(* defines from all operands.                                              *)
(*                                                                         *)
(* A byte is the sum of its bits, and a sum of bits has these bits; the    *)
(* bytes each routine delivers are written as sums of bits of ir.  An      *)
(* addition byte by byte is the addition bit by bit, since the carry into  *)
(* a byte is the one its lowest bit sees; a comparison is decided by the   *)
(* highest byte that differs and in it by the highest bit; a shift has     *)
(* gone as many places as rounds are missing from its count (AluInv).      *)
(***************************************************************************)
EXTENDS Alu, NaturalsInduction, WellFoundedInduction, TLAPS

Sum(a0, a1, a2, a3, a4, a5, a6, a7) ==
  a0 + 2 * a1 + 4 * a2 + 8 * a3 + 16 * a4 + 32 * a5 + 64 * a6 + 128 * a7

LEMMA Powers ==
  /\ Power(0) = 1 /\ Power(1) = 2 /\ Power(2) = 4 /\ Power(3) = 8
  /\ Power(4) = 16 /\ Power(5) = 32 /\ Power(6) = 64 /\ Power(7) = 128
BY DEF Power

LEMMA Halves ==
  ASSUME NEW b \in Nat
  PROVE  b \div 2 \in Nat /\ b % 2 \in {0, 1} /\ b = 2 * (b \div 2) + (b % 2)
OBVIOUS

(* Shifting by i places is halving i times.                                *)
LEMMA Quotients ==
  ASSUME NEW b \in Byte
  PROVE  /\ b \div 1 = b /\ b \div 4 = (b \div 2) \div 2
         /\ b \div 8 = (b \div 4) \div 2 /\ b \div 16 = (b \div 8) \div 2
         /\ b \div 32 = (b \div 16) \div 2 /\ b \div 64 = (b \div 32) \div 2
         /\ b \div 128 = (b \div 64) \div 2 /\ (b \div 128) \div 2 = 0
BY DEF Byte

LEMMA BitValue ==
  ASSUME NEW b \in Byte, NEW i \in 0 .. 7
  PROVE  Bit(b, i) \in {0, 1}
BY Powers DEF Bit, Byte

LEMMA SumOfBits ==
  ASSUME NEW b \in Byte
  PROVE  b = Sum(Bit(b, 0), Bit(b, 1), Bit(b, 2), Bit(b, 3),
                 Bit(b, 4), Bit(b, 5), Bit(b, 6), Bit(b, 7))
<1> DEFINE q1 == b \div 2
           q2 == q1 \div 2
           q3 == q2 \div 2
           q4 == q3 \div 2
           q5 == q4 \div 2
           q6 == q5 \div 2
           q7 == q6 \div 2
<1>1. /\ Bit(b, 0) = b % 2 /\ Bit(b, 1) = q1 % 2 /\ Bit(b, 2) = q2 % 2
      /\ Bit(b, 3) = q3 % 2 /\ Bit(b, 4) = q4 % 2 /\ Bit(b, 5) = q5 % 2
      /\ Bit(b, 6) = q6 % 2 /\ Bit(b, 7) = q7 % 2
  <2>1. b \div 1 = b
    BY DEF Byte
  <2> QED BY <2>1, Powers, Quotients DEF Bit
<1>2. q7 \in {0, 1}
  BY Quotients DEF Byte
<1>3. b \in Nat
  BY DEF Byte
<1> HIDE DEF q7
<1>4. b = 2 * q1 + Bit(b, 0) /\ q1 \in Nat
  BY <1>1, <1>3, Halves
<1> HIDE DEF q1
<1>5. q1 = 2 * q2 + Bit(b, 1) /\ q2 \in Nat
  BY <1>1, <1>4, Halves
<1> HIDE DEF q2
<1>6. q2 = 2 * q3 + Bit(b, 2) /\ q3 \in Nat
  BY <1>1, <1>5, Halves
<1> HIDE DEF q3
<1>7. q3 = 2 * q4 + Bit(b, 3) /\ q4 \in Nat
  BY <1>1, <1>6, Halves
<1> HIDE DEF q4
<1>8. q4 = 2 * q5 + Bit(b, 4) /\ q5 \in Nat
  BY <1>1, <1>7, Halves
<1> HIDE DEF q5
<1>9. q5 = 2 * q6 + Bit(b, 5) /\ q6 \in Nat
  BY <1>1, <1>8, Halves
<1> HIDE DEF q6
<1>10. q6 = 2 * q7 + Bit(b, 6)
  BY <1>1, <1>9, Halves DEF q7
<1>11. q7 = Bit(b, 7)
  BY <1>1, <1>2
<1>12. /\ Bit(b, 0) \in Int /\ Bit(b, 1) \in Int /\ Bit(b, 2) \in Int
       /\ Bit(b, 3) \in Int /\ Bit(b, 4) \in Int /\ Bit(b, 5) \in Int
       /\ Bit(b, 6) \in Int
  BY BitValue
<1>13. q6 = Bit(b, 6) + 2 * Bit(b, 7)
  BY <1>2, <1>10, <1>11, <1>12
<1>14. q5 = Bit(b, 5) + 2 * Bit(b, 6) + 4 * Bit(b, 7)
  BY <1>2, <1>11, <1>12, <1>9, <1>13
<1>15. q4 = Bit(b, 4) + 2 * Bit(b, 5) + 4 * Bit(b, 6) + 8 * Bit(b, 7)
  BY <1>2, <1>11, <1>12, <1>8, <1>14
<1>16. q3 = Bit(b, 3) + 2 * Bit(b, 4) + 4 * Bit(b, 5) + 8 * Bit(b, 6)
             + 16 * Bit(b, 7)
  BY <1>2, <1>11, <1>12, <1>7, <1>15
<1>17. q2 = Bit(b, 2) + 2 * Bit(b, 3) + 4 * Bit(b, 4) + 8 * Bit(b, 5)
             + 16 * Bit(b, 6) + 32 * Bit(b, 7)
  BY <1>2, <1>11, <1>12, <1>6, <1>16
<1>18. q1 = Bit(b, 1) + 2 * Bit(b, 2) + 4 * Bit(b, 3) + 8 * Bit(b, 4)
             + 16 * Bit(b, 5) + 32 * Bit(b, 6) + 64 * Bit(b, 7)
  BY <1>2, <1>11, <1>12, <1>5, <1>17
<1> QED
  BY <1>2, <1>11, <1>12, <1>4, <1>18 DEF Sum

HasBits(b, a0, a1, a2, a3, a4, a5, a6, a7) ==
  /\ b \in Byte
  /\ Bit(b, 0) = a0 /\ Bit(b, 1) = a1 /\ Bit(b, 2) = a2 /\ Bit(b, 3) = a3
  /\ Bit(b, 4) = a4 /\ Bit(b, 5) = a5 /\ Bit(b, 6) = a6 /\ Bit(b, 7) = a7

AreBits(a0, a1, a2, a3, a4, a5, a6, a7) ==
  /\ a0 \in {0, 1} /\ a1 \in {0, 1} /\ a2 \in {0, 1} /\ a3 \in {0, 1}
  /\ a4 \in {0, 1} /\ a5 \in {0, 1} /\ a6 \in {0, 1} /\ a7 \in {0, 1}

LEMMA SumReadBack ==
  ASSUME NEW a0, NEW a1, NEW a2, NEW a3, NEW a4, NEW a5, NEW a6, NEW a7,
         AreBits(a0, a1, a2, a3, a4, a5, a6, a7)
  PROVE  HasBits(Sum(a0, a1, a2, a3, a4, a5, a6, a7), a0, a1, a2, a3, a4, a5, a6, a7)
<1>1. /\ a0 \in {0, 1} /\ a1 \in {0, 1} /\ a2 \in {0, 1} /\ a3 \in {0, 1}
      /\ a4 \in {0, 1} /\ a5 \in {0, 1} /\ a6 \in {0, 1} /\ a7 \in {0, 1}
  BY Zenon DEF AreBits
<1> DEFINE b == Sum(a0, a1, a2, a3, a4, a5, a6, a7)
<1>2. b \in Byte
  BY <1>1 DEF Sum, Byte
<1>3. b \div 1 = b
  BY <1>2 DEF Byte
<1>4. b \div 2 = a1 + 2 * a2 + 4 * a3 + 8 * a4 + 16 * a5 + 32 * a6 + 64 * a7
  BY <1>1 DEF Sum
<1>5. b \div 4 = a2 + 2 * a3 + 4 * a4 + 8 * a5 + 16 * a6 + 32 * a7
  BY <1>1 DEF Sum
<1>6. b \div 8 = a3 + 2 * a4 + 4 * a5 + 8 * a6 + 16 * a7
  BY <1>1 DEF Sum
<1>7. b \div 16 = a4 + 2 * a5 + 4 * a6 + 8 * a7
  BY <1>1 DEF Sum
<1>8. b \div 32 = a5 + 2 * a6 + 4 * a7 /\ b \div 64 = a6 + 2 * a7
  BY <1>1 DEF Sum
<1>9. b \div 128 = a7
  BY <1>1 DEF Sum
<1> QED
  BY <1>1, <1>2, <1>3, <1>4, <1>5, <1>6, <1>7, <1>8, <1>9, Powers DEF Bit, Sum, HasBits

LEMMA BitsOfSum ==
  ASSUME NEW a0 \in {0, 1}, NEW a1 \in {0, 1}, NEW a2 \in {0, 1},
         NEW a3 \in {0, 1}, NEW a4 \in {0, 1}, NEW a5 \in {0, 1},
         NEW a6 \in {0, 1}, NEW a7 \in {0, 1}
  PROVE  HasBits(Sum(a0, a1, a2, a3, a4, a5, a6, a7), a0, a1, a2, a3, a4, a5, a6, a7)
<1>1. AreBits(a0, a1, a2, a3, a4, a5, a6, a7)
  BY Zenon DEF AreBits
<1> QED BY <1>1, SumReadBack, Zenon

(* The same for the four bytes of a word.                                  *)
LEMMA BitsOfWord ==
  ASSUME NEW w, NEW c \in [0 .. 31 -> {0, 1}],
         \A j \in 0 .. 3 :
           w[j] = Sum(c[8 * j], c[8 * j + 1], c[8 * j + 2], c[8 * j + 3],
                      c[8 * j + 4], c[8 * j + 5], c[8 * j + 6], c[8 * j + 7])
  PROVE  \A k \in 0 .. 31 : BitOf(w, k) = c[k]
<1> TAKE k \in 0 .. 31
<1> DEFINE j == k \div 8
           i == k % 8
<1>1. j \in 0 .. 3 /\ i \in 0 .. 7 /\ k = 8 * j + i
  OBVIOUS
<1> HIDE DEF j, i
<1>2. \A n \in 0 .. 7 : 8 * j + n \in 0 .. 31
  BY <1>1
<1>3. AreBits(c[8 * j], c[8 * j + 1], c[8 * j + 2], c[8 * j + 3],
              c[8 * j + 4], c[8 * j + 5], c[8 * j + 6], c[8 * j + 7])
  <2>1. 8 * j + 0 = 8 * j
    BY <1>1
  <2> QED BY <1>2, <2>1 DEF AreBits
<1>4. /\ Bit(w[j], 0) = c[8 * j] /\ Bit(w[j], 1) = c[8 * j + 1]
      /\ Bit(w[j], 2) = c[8 * j + 2] /\ Bit(w[j], 3) = c[8 * j + 3]
      /\ Bit(w[j], 4) = c[8 * j + 4] /\ Bit(w[j], 5) = c[8 * j + 5]
      /\ Bit(w[j], 6) = c[8 * j + 6] /\ Bit(w[j], 7) = c[8 * j + 7]
  <2>1. w[j] = Sum(c[8 * j], c[8 * j + 1], c[8 * j + 2], c[8 * j + 3],
                   c[8 * j + 4], c[8 * j + 5], c[8 * j + 6], c[8 * j + 7])
    BY <1>1, Zenon
  <2>2. HasBits(Sum(c[8 * j], c[8 * j + 1], c[8 * j + 2], c[8 * j + 3],
                  c[8 * j + 4], c[8 * j + 5], c[8 * j + 6], c[8 * j + 7]),
              c[8 * j], c[8 * j + 1], c[8 * j + 2], c[8 * j + 3],
              c[8 * j + 4], c[8 * j + 5], c[8 * j + 6], c[8 * j + 7])
    BY <1>3, SumReadBack, Zenon
  <2> QED BY <2>1, <2>2, Zenon DEF HasBits
<1>5. Bit(w[j], i) = c[k]
  BY <1>1, <1>4
<1> QED BY <1>5 DEF BitOf, i, j

LEMMA WordOfBits ==
  ASSUME ir \in [0 .. 3 -> Byte]
  PROVE  /\ \A k \in 0 .. 31 : BitOf(ir, k) \in {0, 1}
         /\ ir[0] = Sum(BitOf(ir, 0), BitOf(ir, 1),
                        BitOf(ir, 2), BitOf(ir, 3),
                        BitOf(ir, 4), BitOf(ir, 5),
                        BitOf(ir, 6), BitOf(ir, 7))
         /\ ir[1] = Sum(BitOf(ir, 8), BitOf(ir, 9),
                        BitOf(ir, 10), BitOf(ir, 11),
                        BitOf(ir, 12), BitOf(ir, 13),
                        BitOf(ir, 14), BitOf(ir, 15))
         /\ ir[2] = Sum(BitOf(ir, 16), BitOf(ir, 17),
                        BitOf(ir, 18), BitOf(ir, 19),
                        BitOf(ir, 20), BitOf(ir, 21),
                        BitOf(ir, 22), BitOf(ir, 23))
         /\ ir[3] = Sum(BitOf(ir, 24), BitOf(ir, 25),
                        BitOf(ir, 26), BitOf(ir, 27),
                        BitOf(ir, 28), BitOf(ir, 29),
                        BitOf(ir, 30), BitOf(ir, 31))
<1>1. ASSUME NEW k \in 0 .. 31 PROVE BitOf(ir, k) \in {0, 1}
  <2>1. k \div 8 \in 0 .. 3 /\ k % 8 \in 0 .. 7
    OBVIOUS
  <2> QED BY <2>1, BitValue DEF BitOf
<1>2. /\ BitOf(ir, 0) = Bit(ir[0], 0) /\ BitOf(ir, 1) = Bit(ir[0], 1)
      /\ BitOf(ir, 2) = Bit(ir[0], 2) /\ BitOf(ir, 3) = Bit(ir[0], 3)
      /\ BitOf(ir, 4) = Bit(ir[0], 4) /\ BitOf(ir, 5) = Bit(ir[0], 5)
      /\ BitOf(ir, 6) = Bit(ir[0], 6) /\ BitOf(ir, 7) = Bit(ir[0], 7)
  BY DEF BitOf
<1>3. /\ BitOf(ir, 8) = Bit(ir[1], 0) /\ BitOf(ir, 9) = Bit(ir[1], 1)
      /\ BitOf(ir, 10) = Bit(ir[1], 2) /\ BitOf(ir, 11) = Bit(ir[1], 3)
      /\ BitOf(ir, 12) = Bit(ir[1], 4) /\ BitOf(ir, 13) = Bit(ir[1], 5)
      /\ BitOf(ir, 14) = Bit(ir[1], 6) /\ BitOf(ir, 15) = Bit(ir[1], 7)
  BY DEF BitOf
<1>4. /\ BitOf(ir, 16) = Bit(ir[2], 0) /\ BitOf(ir, 17) = Bit(ir[2], 1)
      /\ BitOf(ir, 18) = Bit(ir[2], 2) /\ BitOf(ir, 19) = Bit(ir[2], 3)
      /\ BitOf(ir, 20) = Bit(ir[2], 4) /\ BitOf(ir, 21) = Bit(ir[2], 5)
      /\ BitOf(ir, 22) = Bit(ir[2], 6) /\ BitOf(ir, 23) = Bit(ir[2], 7)
  BY DEF BitOf
<1>5. /\ BitOf(ir, 24) = Bit(ir[3], 0) /\ BitOf(ir, 25) = Bit(ir[3], 1)
      /\ BitOf(ir, 26) = Bit(ir[3], 2) /\ BitOf(ir, 27) = Bit(ir[3], 3)
      /\ BitOf(ir, 28) = Bit(ir[3], 4) /\ BitOf(ir, 29) = Bit(ir[3], 5)
      /\ BitOf(ir, 30) = Bit(ir[3], 6) /\ BitOf(ir, 31) = Bit(ir[3], 7)
  BY DEF BitOf
<1> QED BY <1>1, <1>2, <1>3, <1>4, <1>5, SumOfBits

(* Rotating the upper half of ir to the right by four.                     *)
LEMMA UpperBits ==
  ASSUME ir \in [0 .. 3 -> Byte]
  PROVE  /\ Upper = (ir[2] \div 16) + 16 * ir[3]
         /\ ir[2] \div 16 = BitOf(ir, 20) + 2 * BitOf(ir, 21)
                               + 4 * BitOf(ir, 22) + 8 * BitOf(ir, 23)
<1> DEFINE h == ir[2] \div 16
           l == ir[2] % 16
           b == ir[2]
           t == ir[3]
<1>1. b \in Byte /\ t \in Byte
  OBVIOUS
<1> HIDE DEF b, t
<1>2. b = 16 * h + l /\ h \in 0 .. 15 /\ l \in 0 .. 15
  BY <1>1 DEF b, Byte
<1> HIDE DEF h, l
<1>3. 256 * t + b = 16 * (h + 16 * t) + l
  BY <1>1, <1>2 DEF Byte
<1>4. h + 16 * t \in Nat
  BY <1>1, <1>2 DEF Byte
<1>5. \A q \in Nat, r \in 0 .. 15 : (16 * q + r) \div 16 = q
  OBVIOUS
<1>6. (256 * t + b) \div 16 = h + 16 * t
  BY <1>2, <1>3, <1>4, <1>5
<1>7. h = BitOf(ir, 20) + 2 * BitOf(ir, 21) + 4 * BitOf(ir, 22)
            + 8 * BitOf(ir, 23)
  BY WordOfBits DEF h, Sum
<1> QED BY <1>6, <1>7 DEF Upper, h, b, t

-----------------------------------------------------------------------------
(***************************************************************************)
(* Registers and small fields                                              *)
(***************************************************************************)

LEMMA FiveBits ==
  ASSUME ir \in [0 .. 3 -> Byte], NEW lo \in 0 .. 27, NEW v,
         v = Sum(BitOf(ir, lo), BitOf(ir, lo + 1), BitOf(ir, lo + 2),
                 BitOf(ir, lo + 3), BitOf(ir, lo + 4), 0, 0, 0)
  PROVE  IsField(v, lo, 5)
<1>1. /\ BitOf(ir, lo) \in {0, 1} /\ BitOf(ir, lo + 1) \in {0, 1}
      /\ BitOf(ir, lo + 2) \in {0, 1} /\ BitOf(ir, lo + 3) \in {0, 1}
      /\ BitOf(ir, lo + 4) \in {0, 1}
  BY WordOfBits
<1>2. /\ Bit(v, 0) = BitOf(ir, lo) /\ Bit(v, 1) = BitOf(ir, lo + 1)
      /\ Bit(v, 2) = BitOf(ir, lo + 2) /\ Bit(v, 3) = BitOf(ir, lo + 3)
      /\ Bit(v, 4) = BitOf(ir, lo + 4)
  BY <1>1, BitsOfSum DEF HasBits
<1>3. v \in 0 .. 31
  BY <1>1 DEF Sum
<1>4. ASSUME NEW i \in 0 .. 4 PROVE Bit(v, i) = IrBit(lo + i)
  <2>1. IrBit(lo + i) = BitOf(ir, lo + i)
    BY DEF IrBit, Zero
  <2> QED BY <1>2, <2>1
<1> QED BY <1>3, <1>4, Powers DEF IsField

LEMMA ThreeBits ==
  ASSUME ir \in [0 .. 3 -> Byte], NEW lo \in 0 .. 27, NEW v,
         v = Sum(BitOf(ir, lo), BitOf(ir, lo + 1), BitOf(ir, lo + 2),
                 0, 0, 0, 0, 0)
  PROVE  IsField(v, lo, 3)
<1>1. /\ BitOf(ir, lo) \in {0, 1} /\ BitOf(ir, lo + 1) \in {0, 1}
      /\ BitOf(ir, lo + 2) \in {0, 1}
  BY WordOfBits
<1>2. /\ Bit(v, 0) = BitOf(ir, lo) /\ Bit(v, 1) = BitOf(ir, lo + 1)
      /\ Bit(v, 2) = BitOf(ir, lo + 2)
  BY <1>1, BitsOfSum DEF HasBits
<1>3. v \in 0 .. 7
  BY <1>1 DEF Sum
<1>4. ASSUME NEW i \in 0 .. 2 PROVE Bit(v, i) = IrBit(lo + i)
  <2>1. IrBit(lo + i) = BitOf(ir, lo + i)
    BY DEF IrBit, Zero
  <2> QED BY <1>2, <2>1
<1> QED BY <1>3, <1>4, Powers DEF IsField

LEMMA SmallFields ==
  ASSUME ir \in [0 .. 3 -> Byte]
  PROVE  /\ IsRegister(Rs1Address, 15) /\ IsRegister(Rs2Address, 20)
         /\ IsRegister(RdAddress, 7) /\ IsField(Uimm5, 15, 5)
         /\ IsField(Funct3, 12, 3) /\ IsField(OpcodeIndex, 2, 5)
<1> DEFINE D(k) == BitOf(ir, k)
<1>1. \A k \in 0 .. 31 : D(k) \in {0, 1}
  BY WordOfBits
<1>2. /\ ir[0] = Sum(D(0), D(1), D(2), D(3), D(4), D(5), D(6), D(7))
      /\ ir[1] = Sum(D(8), D(9), D(10), D(11), D(12), D(13), D(14), D(15))
      /\ ir[2] = Sum(D(16), D(17), D(18), D(19), D(20), D(21), D(22), D(23))
      /\ ir[3] = Sum(D(24), D(25), D(26), D(27), D(28), D(29), D(30), D(31))
  BY WordOfBits
<1>3. Bit(ir[0], 7) = D(7) /\ Bit(ir[1], 7) = D(15)
  BY DEF BitOf
<1>4. \A k \in 0 .. 27 :
        IsField(D(k) + 2 * D(k + 1) + 4 * D(k + 2) + 8 * D(k + 3)
                  + 16 * D(k + 4), k, 5)
  <2> TAKE k \in 0 .. 27
  <2>1. /\ D(k) \in Int /\ D(k + 1) \in Int /\ D(k + 2) \in Int
        /\ D(k + 3) \in Int /\ D(k + 4) \in Int
    BY <1>1
  <2>2. Sum(D(k), D(k + 1), D(k + 2), D(k + 3), D(k + 4), 0, 0, 0)
          = D(k) + 2 * D(k + 1) + 4 * D(k + 2) + 8 * D(k + 3)
              + 16 * D(k + 4)
    BY <2>1 DEF Sum
  <2> QED BY <2>2, FiveBits
<1> HIDE DEF D
<1>5. (2 * ir[2] + Bit(ir[1], 7)) % 32
        = D(15) + 2 * D(16) + 4 * D(17) + 8 * D(18) + 16 * D(19)
  BY <1>1, <1>2, <1>3 DEF Sum
<1>6. ((256 * ir[3] + ir[2]) \div 16) % 32
        = D(20) + 2 * D(21) + 4 * D(22) + 8 * D(23) + 16 * D(24)
  <2>1. ((256 * ir[3] + ir[2]) \div 16)
          = (D(20) + 2 * D(21) + 4 * D(22) + 8 * D(23)) + 16 * ir[3]
    BY UpperBits DEF Upper, D
  <2> QED BY <1>1, <1>2, <2>1 DEF Sum
<1>7. (2 * ir[1] + Bit(ir[0], 7)) % 32
        = D(7) + 2 * D(8) + 4 * D(9) + 8 * D(10) + 16 * D(11)
  BY <1>1, <1>2, <1>3 DEF Sum
<1>8. (ir[0] \div 4) % 32
        = D(2) + 2 * D(3) + 4 * D(4) + 8 * D(5) + 16 * D(6)
  BY <1>1, <1>2 DEF Sum
<1>9. (ir[1] \div 16) % 8
        = Sum(D(12), D(13), D(14), 0, 0, 0, 0, 0)
  BY <1>1, <1>2 DEF Sum
<1>10. \A r \in 0 .. 31 : (r * 4) % 4 = 0 /\ (r * 4) \div 4 = r
  OBVIOUS
<1>11. IsRegister(Rs1Address, 15) /\ IsField(Uimm5, 15, 5)
  BY <1>4, <1>5, <1>10 DEF Rs1Address, Uimm5, IsRegister, IsField
<1>12. IsRegister(Rs2Address, 20)
  BY <1>4, <1>6, <1>10 DEF Rs2Address, IsRegister, IsField
<1>13. IsRegister(RdAddress, 7)
  BY <1>4, <1>7, <1>10 DEF RdAddress, IsRegister, IsField
<1>14. IsField(OpcodeIndex, 2, 5)
  BY <1>4, <1>8 DEF OpcodeIndex
<1>15. IsField(Funct3, 12, 3)
  BY <1>9, ThreeBits DEF Funct3, D
<1> QED BY <1>11, <1>12, <1>13, <1>14, <1>15

-----------------------------------------------------------------------------
(***************************************************************************)
(* Immediates                                                              *)
(***************************************************************************)

LEMMA BitsOfBytes ==
  ASSUME NEW w, NEW c \in [0 .. 31 -> {0, 1}],
         w[0] = Sum(c[0], c[1], c[2], c[3], c[4], c[5], c[6], c[7]),
         w[1] = Sum(c[8], c[9], c[10], c[11], c[12], c[13], c[14], c[15]),
         w[2] = Sum(c[16], c[17], c[18], c[19], c[20], c[21], c[22], c[23]),
         w[3] = Sum(c[24], c[25], c[26], c[27], c[28], c[29], c[30], c[31])
  PROVE  \A k \in 0 .. 31 : BitOf(w, k) = c[k]
<1>1. ASSUME NEW j \in 0 .. 3
      PROVE  w[j] = Sum(c[8 * j], c[8 * j + 1], c[8 * j + 2], c[8 * j + 3],
                        c[8 * j + 4], c[8 * j + 5], c[8 * j + 6],
                        c[8 * j + 7])
  <2>1. CASE j = 0
    BY <2>1
  <2>2. CASE j = 1
    BY <2>2
  <2>3. CASE j = 2
    BY <2>3
  <2>4. CASE j = 3
    BY <2>4
  <2> QED BY <2>1, <2>2, <2>3, <2>4
<1> QED BY <1>1, BitsOfWord

(* The parts of ir that the immediates are put together from.              *)
LEMMA Parts ==
  ASSUME ir \in [0 .. 3 -> Byte]
  PROVE  LET D(k) == BitOf(ir, k)
         IN  /\ Upper % 256 = Sum(D(20), D(21), D(22), D(23),
                                  D(24), D(25), D(26), D(27))
             /\ (Upper \div 256) % 16 = Sum(D(28), D(29), D(30), D(31),
                                            0, 0, 0, 0)
             /\ ir[3] \div 16 = Sum(D(28), D(29), D(30), D(31), 0, 0, 0, 0)
             /\ (ir[3] \div 16) % 8 = Sum(D(28), D(29), D(30), 0, 0, 0, 0, 0)
             /\ (ir[3] % 16) \div 2 = Sum(D(25), D(26), D(27), 0, 0, 0, 0, 0)
             /\ (2 * ir[1] + D(7)) % 32
                  = Sum(D(7), D(8), D(9), D(10), D(11), 0, 0, 0)
             /\ (2 * ir[1]) % 32 = Sum(0, D(8), D(9), D(10), D(11), 0, 0, 0)
             /\ (ir[1] \div 16) * 16
                  = Sum(0, 0, 0, 0, D(12), D(13), D(14), D(15))
<1> DEFINE D(k) == BitOf(ir, k)
<1>1. \A k \in 0 .. 31 : D(k) \in {0, 1}
  BY WordOfBits
<1>2. /\ ir[1] = Sum(D(8), D(9), D(10), D(11), D(12), D(13), D(14), D(15))
      /\ ir[3] = Sum(D(24), D(25), D(26), D(27), D(28), D(29), D(30), D(31))
  BY WordOfBits
<1>3. Upper = (D(20) + 2 * D(21) + 4 * D(22) + 8 * D(23)) + 16 * ir[3]
  BY UpperBits
<1> HIDE DEF D
<1>4. /\ ir[3] \div 16 = Sum(D(28), D(29), D(30), D(31), 0, 0, 0, 0)
      /\ (ir[3] \div 16) % 8 = Sum(D(28), D(29), D(30), 0, 0, 0, 0, 0)
  BY <1>1, <1>2 DEF Sum
<1>5. (ir[3] % 16) \div 2 = Sum(D(25), D(26), D(27), 0, 0, 0, 0, 0)
  BY <1>1, <1>2 DEF Sum
<1>6. /\ (2 * ir[1] + D(7)) % 32
          = Sum(D(7), D(8), D(9), D(10), D(11), 0, 0, 0)
      /\ (2 * ir[1]) % 32 = Sum(0, D(8), D(9), D(10), D(11), 0, 0, 0)
  BY <1>1, <1>2 DEF Sum
<1>7. (ir[1] \div 16) * 16 = Sum(0, 0, 0, 0, D(12), D(13), D(14), D(15))
  BY <1>1, <1>2 DEF Sum
<1>8. /\ Upper % 256 = Sum(D(20), D(21), D(22), D(23),
                           D(24), D(25), D(26), D(27))
      /\ (Upper \div 256) % 16 = Sum(D(28), D(29), D(30), D(31), 0, 0, 0, 0)
  <2> DEFINE s == Sum(D(20), D(21), D(22), D(23), D(24), D(25), D(26), D(27))
             g == Sum(D(28), D(29), D(30), D(31), 0, 0, 0, 0)
  <2>1. Upper = 256 * g + s /\ g \in 0 .. 15 /\ s \in 0 .. 255
    BY <1>1, <1>2, <1>3 DEF Sum
  <2> HIDE DEF s, g
  <2>2. Upper % 256 = s /\ Upper \div 256 = g /\ g % 16 = g
    BY <2>1
  <2> QED BY <2>2 DEF s, g
<1> QED BY <1>4, <1>5, <1>6, <1>7, <1>8 DEF D
LEMMA SignBits == Bit(ir[3], 7) = BitOf(ir, 31) /\ Bit(ir[0], 7) = BitOf(ir, 7)
BY DEF BitOf

LEMMA ImmediateIDecoded ==
  ASSUME ir \in [0 .. 3 -> Byte]
  PROVE  Matches(GetImm12I, SourceI)
<1> DEFINE D(k) == BitOf(ir, k)
           c == [k \in 0 .. 31 |-> IrBit(SourceI(k))]
           w == GetImm12I
<1>1. \A k \in 0 .. 31 : D(k) \in {0, 1}
  BY WordOfBits
<1>2. /\ c[0] = D(20) /\ c[1] = D(21) /\ c[2] = D(22) /\ c[3] = D(23)
      /\ c[4] = D(24) /\ c[5] = D(25) /\ c[6] = D(26) /\ c[7] = D(27)
  BY DEF IrBit, SourceI, Zero
<1>3. /\ c[8] = D(28) /\ c[9] = D(29) /\ c[10] = D(30) /\ c[11] = D(31)
      /\ c[12] = D(31) /\ c[13] = D(31) /\ c[14] = D(31) /\ c[15] = D(31)
  BY DEF IrBit, SourceI, Zero
<1>4. /\ c[16] = D(31) /\ c[17] = D(31) /\ c[18] = D(31) /\ c[19] = D(31)
      /\ c[20] = D(31) /\ c[21] = D(31) /\ c[22] = D(31) /\ c[23] = D(31)
  BY DEF IrBit, SourceI, Zero
<1>5. /\ c[24] = D(31) /\ c[25] = D(31) /\ c[26] = D(31) /\ c[27] = D(31)
      /\ c[28] = D(31) /\ c[29] = D(31) /\ c[30] = D(31) /\ c[31] = D(31)
  BY DEF IrBit, SourceI, Zero
<1>6. c \in [0 .. 31 -> {0, 1}]
  <2>1. \A k \in 0 .. 31 : SourceI(k) \in 0 .. 31 \cup {Zero}
    BY DEF SourceI, Zero
  <2> QED BY <1>1, <2>1 DEF IrBit
<1> HIDE DEF c
<1> DEFINE b0 == Upper % 256
           b1 == (Upper \div 256) % 16
<1>7. /\ b1 = Sum(D(28), D(29), D(30), D(31), 0, 0, 0, 0)
      /\ Bit(b1, 3) = D(31)
      /\ b0 = Sum(D(20), D(21), D(22), D(23), D(24), D(25), D(26), D(27))
  <2>1. b1 = Sum(D(28), D(29), D(30), D(31), 0, 0, 0, 0)
    BY Parts
  <2>2. Bit(b1, 3) = D(31)
    BY <1>1, <2>1, BitsOfSum DEF HasBits
  <2>3. b0 = Sum(D(20), D(21), D(22), D(23), D(24), D(25), D(26), D(27))
    BY Parts
  <2> QED BY <2>1, <2>2, <2>3
<1> HIDE DEF b0, b1, D
<1>8. /\ w[0] = Sum(c[0], c[1], c[2], c[3], c[4], c[5], c[6], c[7])
      /\ w[1] = Sum(c[8], c[9], c[10], c[11], c[12], c[13], c[14], c[15])
      /\ w[2] = Sum(c[16], c[17], c[18], c[19], c[20], c[21], c[22], c[23])
      /\ w[3] = Sum(c[24], c[25], c[26], c[27], c[28], c[29], c[30], c[31])
  <2>1. w = IF D(31) = 1 THEN Word4(b0, b1 + 240, 255, 255)
                         ELSE Word4(b0, b1, 0, 0)
    BY <1>7 DEF Extended12, GetImm12I, b0, b1
  <2>2. CASE D(31) = 1
    <3>1. w[0] = b0 /\ w[1] = b1 + 240 /\ w[2] = 255 /\ w[3] = 255
      BY <2>1, <2>2 DEF Word4
    <3> QED BY <1>1, <1>2, <1>3, <1>4, <1>5, <1>7, <2>2, <3>1 DEF Sum
  <2>3. CASE D(31) = 0
    <3>1. w[0] = b0 /\ w[1] = b1 /\ w[2] = 0 /\ w[3] = 0
      BY <2>1, <2>3 DEF Word4
    <3> QED BY <1>1, <1>2, <1>3, <1>4, <1>5, <1>7, <2>3, <3>1 DEF Sum
  <2> QED BY <1>1, <2>2, <2>3
<1>9. \A k \in 0 .. 31 : BitOf(w, k) = c[k]
  BY <1>6, <1>8, BitsOfBytes
<1> QED BY <1>9 DEF c, Matches

LEMMA ImmediateSDecoded ==
  ASSUME ir \in [0 .. 3 -> Byte]
  PROVE  Matches(GetImm12S, SourceS)
<1> DEFINE D(k) == BitOf(ir, k)
           c == [k \in 0 .. 31 |-> IrBit(SourceS(k))]
           w == GetImm12S
<1>1. \A k \in 0 .. 31 : D(k) \in {0, 1}
  BY WordOfBits
<1>2. /\ c[0] = D(7) /\ c[1] = D(8) /\ c[2] = D(9) /\ c[3] = D(10)
      /\ c[4] = D(11) /\ c[5] = D(25) /\ c[6] = D(26) /\ c[7] = D(27)
  BY DEF IrBit, SourceS, Zero
<1>3. /\ c[8] = D(28) /\ c[9] = D(29) /\ c[10] = D(30) /\ c[11] = D(31)
      /\ c[12] = D(31) /\ c[13] = D(31) /\ c[14] = D(31) /\ c[15] = D(31)
  BY DEF IrBit, SourceS, Zero
<1>4. /\ c[16] = D(31) /\ c[17] = D(31) /\ c[18] = D(31) /\ c[19] = D(31)
      /\ c[20] = D(31) /\ c[21] = D(31) /\ c[22] = D(31) /\ c[23] = D(31)
  BY DEF IrBit, SourceS, Zero
<1>5. /\ c[24] = D(31) /\ c[25] = D(31) /\ c[26] = D(31) /\ c[27] = D(31)
      /\ c[28] = D(31) /\ c[29] = D(31) /\ c[30] = D(31) /\ c[31] = D(31)
  BY DEF IrBit, SourceS, Zero
<1>6. c \in [0 .. 31 -> {0, 1}]
  <2>1. \A k \in 0 .. 31 : SourceS(k) \in 0 .. 31 \cup {Zero}
    BY DEF SourceS, Zero
  <2> QED BY <1>1, <2>1 DEF IrBit
<1> HIDE DEF c
<1> DEFINE b0 == ((ir[3] % 16) \div 2) * 32
                   + ((2 * ir[1] + Bit(ir[0], 7)) % 32)
           b1 == ir[3] \div 16
<1>7. /\ b1 = Sum(D(28), D(29), D(30), D(31), 0, 0, 0, 0)
      /\ Bit(b1, 3) = D(31)
      /\ b0 = Sum(D(7), D(8), D(9), D(10), D(11), D(25), D(26), D(27))
  <2>1. b1 = Sum(D(28), D(29), D(30), D(31), 0, 0, 0, 0)
    BY Parts
  <2>2. Bit(b1, 3) = D(31)
    BY <1>1, <2>1, BitsOfSum DEF HasBits
  <2>3. b0 = Sum(D(7), D(8), D(9), D(10), D(11), D(25), D(26), D(27))
    BY <1>1, Parts, SignBits DEF Sum
  <2> QED BY <2>1, <2>2, <2>3
<1> HIDE DEF b0, b1, D
<1>8. /\ w[0] = Sum(c[0], c[1], c[2], c[3], c[4], c[5], c[6], c[7])
      /\ w[1] = Sum(c[8], c[9], c[10], c[11], c[12], c[13], c[14], c[15])
      /\ w[2] = Sum(c[16], c[17], c[18], c[19], c[20], c[21], c[22], c[23])
      /\ w[3] = Sum(c[24], c[25], c[26], c[27], c[28], c[29], c[30], c[31])
  <2>1. w = IF D(31) = 1 THEN Word4(b0, b1 + 240, 255, 255)
                         ELSE Word4(b0, b1, 0, 0)
    BY <1>7 DEF Extended12, GetImm12S, b0, b1
  <2>2. CASE D(31) = 1
    <3>1. w[0] = b0 /\ w[1] = b1 + 240 /\ w[2] = 255 /\ w[3] = 255
      BY <2>1, <2>2 DEF Word4
    <3> QED BY <1>1, <1>2, <1>3, <1>4, <1>5, <1>7, <2>2, <3>1 DEF Sum
  <2>3. CASE D(31) = 0
    <3>1. w[0] = b0 /\ w[1] = b1 /\ w[2] = 0 /\ w[3] = 0
      BY <2>1, <2>3 DEF Word4
    <3> QED BY <1>1, <1>2, <1>3, <1>4, <1>5, <1>7, <2>3, <3>1 DEF Sum
  <2> QED BY <1>1, <2>2, <2>3
<1>9. \A k \in 0 .. 31 : BitOf(w, k) = c[k]
  BY <1>6, <1>8, BitsOfBytes
<1> QED BY <1>9 DEF c, Matches

LEMMA ImmediateBDecoded ==
  ASSUME ir \in [0 .. 3 -> Byte]
  PROVE  Matches(GetImm12B, SourceB)
<1> DEFINE D(k) == BitOf(ir, k)
           c == [k \in 0 .. 31 |-> IrBit(SourceB(k))]
           w == GetImm12B
<1>1. \A k \in 0 .. 31 : D(k) \in {0, 1}
  BY WordOfBits
<1>2. /\ c[0] = 0 /\ c[1] = D(8) /\ c[2] = D(9) /\ c[3] = D(10)
      /\ c[4] = D(11) /\ c[5] = D(25) /\ c[6] = D(26) /\ c[7] = D(27)
  BY DEF IrBit, SourceB, Zero
<1>3. /\ c[8] = D(28) /\ c[9] = D(29) /\ c[10] = D(30) /\ c[11] = D(7)
      /\ c[12] = D(31) /\ c[13] = D(31) /\ c[14] = D(31) /\ c[15] = D(31)
  BY DEF IrBit, SourceB, Zero
<1>4. /\ c[16] = D(31) /\ c[17] = D(31) /\ c[18] = D(31) /\ c[19] = D(31)
      /\ c[20] = D(31) /\ c[21] = D(31) /\ c[22] = D(31) /\ c[23] = D(31)
  BY DEF IrBit, SourceB, Zero
<1>5. /\ c[24] = D(31) /\ c[25] = D(31) /\ c[26] = D(31) /\ c[27] = D(31)
      /\ c[28] = D(31) /\ c[29] = D(31) /\ c[30] = D(31) /\ c[31] = D(31)
  BY DEF IrBit, SourceB, Zero
<1>6. c \in [0 .. 31 -> {0, 1}]
  <2>1. \A k \in 0 .. 31 : SourceB(k) \in 0 .. 31 \cup {Zero}
    BY DEF SourceB, Zero
  <2> QED BY <1>1, <2>1 DEF IrBit
<1> HIDE DEF c
<1> DEFINE p == (ir[3] % 16) \div 2
           q == (2 * ir[1]) % 32
           r == (ir[3] \div 16) % 8
<1>7. /\ p = Sum(D(25), D(26), D(27), 0, 0, 0, 0, 0)
      /\ q = Sum(0, D(8), D(9), D(10), D(11), 0, 0, 0)
      /\ r = Sum(D(28), D(29), D(30), 0, 0, 0, 0, 0)
      /\ Bit(ir[3], 7) = D(31) /\ Bit(ir[0], 7) = D(7)
  BY Parts, SignBits
<1> HIDE DEF p, q, r, D
<1>8. /\ w[0] = Sum(c[0], c[1], c[2], c[3], c[4], c[5], c[6], c[7])
      /\ w[1] = Sum(c[8], c[9], c[10], c[11], c[12], c[13], c[14], c[15])
      /\ w[2] = Sum(c[16], c[17], c[18], c[19], c[20], c[21], c[22], c[23])
      /\ w[3] = Sum(c[24], c[25], c[26], c[27], c[28], c[29], c[30], c[31])
  <2>1. w = Word4(p * 32 + q, r + 8 * D(7) + 240 * D(31),
                 255 * D(31), 255 * D(31))
    BY <1>7 DEF GetImm12B, p, q, r
  <2>2. /\ w[0] = p * 32 + q /\ w[1] = r + 8 * D(7) + 240 * D(31)
        /\ w[2] = 255 * D(31) /\ w[3] = 255 * D(31)
    BY <2>1 DEF Word4
  <2> HIDE DEF w
  <2>3. w[0] = Sum(c[0], c[1], c[2], c[3], c[4], c[5], c[6], c[7])
    BY <1>1, <1>2, <1>7, <2>2 DEF Sum
  <2>4. w[1] = Sum(c[8], c[9], c[10], c[11], c[12], c[13], c[14], c[15])
    BY <1>1, <1>3, <1>7, <2>2 DEF Sum
  <2>5. 255 * D(31) = Sum(D(31), D(31), D(31), D(31),
                          D(31), D(31), D(31), D(31))
    BY <1>1 DEF Sum
  <2> QED BY <1>4, <1>5, <2>2, <2>3, <2>4, <2>5
<1>9. \A k \in 0 .. 31 : BitOf(w, k) = c[k]
  BY <1>6, <1>8, BitsOfBytes
<1> QED BY <1>9 DEF c, Matches

LEMMA UpperImmediateDecoded ==
  ASSUME ir \in [0 .. 3 -> Byte]
  PROVE  Matches(Imm20U, SourceU)
<1> DEFINE D(k) == BitOf(ir, k)
           c == [k \in 0 .. 31 |-> IrBit(SourceU(k))]
           w == Imm20U
<1>1. \A k \in 0 .. 31 : D(k) \in {0, 1}
  BY WordOfBits
<1>2. /\ c[0] = 0 /\ c[1] = 0 /\ c[2] = 0 /\ c[3] = 0
      /\ c[4] = 0 /\ c[5] = 0 /\ c[6] = 0 /\ c[7] = 0
  BY DEF IrBit, SourceU, Zero
<1>3. /\ c[8] = 0 /\ c[9] = 0 /\ c[10] = 0 /\ c[11] = 0
      /\ c[12] = D(12) /\ c[13] = D(13) /\ c[14] = D(14) /\ c[15] = D(15)
  BY DEF IrBit, SourceU, Zero
<1>4. /\ c[16] = D(16) /\ c[17] = D(17) /\ c[18] = D(18) /\ c[19] = D(19)
      /\ c[20] = D(20) /\ c[21] = D(21) /\ c[22] = D(22) /\ c[23] = D(23)
  BY DEF IrBit, SourceU, Zero
<1>5. /\ c[24] = D(24) /\ c[25] = D(25) /\ c[26] = D(26) /\ c[27] = D(27)
      /\ c[28] = D(28) /\ c[29] = D(29) /\ c[30] = D(30) /\ c[31] = D(31)
  BY DEF IrBit, SourceU, Zero
<1>6. c \in [0 .. 31 -> {0, 1}]
  <2>1. \A k \in 0 .. 31 : SourceU(k) \in 0 .. 31 \cup {Zero}
    BY DEF SourceU, Zero
  <2> QED BY <1>1, <2>1 DEF IrBit
<1> HIDE DEF c
<1>7. /\ ir[2] = Sum(D(16), D(17), D(18), D(19), D(20), D(21), D(22), D(23))
      /\ ir[3] = Sum(D(24), D(25), D(26), D(27), D(28), D(29), D(30), D(31))
      /\ (ir[1] \div 16) * 16 = Sum(0, 0, 0, 0, D(12), D(13), D(14), D(15))
  BY Parts, WordOfBits
<1> HIDE DEF D
<1>8. /\ w[0] = Sum(c[0], c[1], c[2], c[3], c[4], c[5], c[6], c[7])
      /\ w[1] = Sum(c[8], c[9], c[10], c[11], c[12], c[13], c[14], c[15])
      /\ w[2] = Sum(c[16], c[17], c[18], c[19], c[20], c[21], c[22], c[23])
      /\ w[3] = Sum(c[24], c[25], c[26], c[27], c[28], c[29], c[30], c[31])
  <2>1. /\ w[0] = 0 /\ w[1] = (ir[1] \div 16) * 16
        /\ w[2] = ir[2] /\ w[3] = ir[3]
    BY DEF Imm20U, Word4
  <2>2. Sum(0, 0, 0, 0, 0, 0, 0, 0) = 0
    BY DEF Sum
  <2> QED BY <1>2, <1>3, <1>4, <1>5, <1>7, <2>1, <2>2
<1>9. \A k \in 0 .. 31 : BitOf(w, k) = c[k]
  BY <1>6, <1>8, BitsOfBytes
<1> QED BY <1>9 DEF c, Matches

-----------------------------------------------------------------------------
(***************************************************************************)
(* The words visited stay words, so the lemmas hold of each.               *)
(***************************************************************************)
IrIsWord == ir \in [0 .. 3 -> Byte]

LEMMA ToggleKeepsWord ==
  ASSUME IrIsWord, NEW k \in 0 .. 31, Toggle(k)
  PROVE  IrIsWord'
<1> DEFINE j == k \div 8
           i == k % 8
           b == ir[j]
           t == IF Bit(b, i) = 1 THEN b - Power(i) ELSE b + Power(i)
<1>1. j \in 0 .. 3 /\ i \in 0 .. 7
  OBVIOUS
<1>2. ir' = [ir EXCEPT ![j] = t]
  BY DEF Toggle
<1> HIDE DEF j, i
<1>3. b \in Byte
  BY <1>1 DEF IrIsWord
<1>4. \A n \in 0 .. 7 : Bit(b, n) \in {0, 1}
  BY <1>3, BitValue
<1> HIDE DEF b
<1>5. t \in Byte
  <2>1. /\ Bit(b, 0) \in {0, 1} /\ Bit(b, 1) \in {0, 1}
        /\ Bit(b, 2) \in {0, 1} /\ Bit(b, 3) \in {0, 1}
        /\ Bit(b, 4) \in {0, 1} /\ Bit(b, 5) \in {0, 1}
        /\ Bit(b, 6) \in {0, 1} /\ Bit(b, 7) \in {0, 1}
    BY <1>4
  <2>2. b = Sum(Bit(b, 0), Bit(b, 1), Bit(b, 2), Bit(b, 3),
                Bit(b, 4), Bit(b, 5), Bit(b, 6), Bit(b, 7))
    BY <1>3, SumOfBits
  <2>3. CASE i = 0
    BY <1>3, <2>1, <2>2, <2>3, Powers DEF Sum, Byte
  <2>4. CASE i = 1
    BY <1>3, <2>1, <2>2, <2>4, Powers DEF Sum, Byte
  <2>5. CASE i = 2
    BY <1>3, <2>1, <2>2, <2>5, Powers DEF Sum, Byte
  <2>6. CASE i = 3
    BY <1>3, <2>1, <2>2, <2>6, Powers DEF Sum, Byte
  <2>7. CASE i = 4
    BY <1>3, <2>1, <2>2, <2>7, Powers DEF Sum, Byte
  <2>8. CASE i = 5
    BY <1>3, <2>1, <2>2, <2>8, Powers DEF Sum, Byte
  <2>9. CASE i = 6
    BY <1>3, <2>1, <2>2, <2>9, Powers DEF Sum, Byte
  <2>10. CASE i = 7
    BY <1>3, <2>1, <2>2, <2>10, Powers DEF Sum, Byte
  <2> QED BY <1>1, <2>3, <2>4, <2>5, <2>6, <2>7, <2>8, <2>9, <2>10
<1> HIDE DEF t
<1> QED BY <1>1, <1>2, <1>5 DEF IrIsWord

LEMMA AllWords == FieldsSpec => []IrIsWord
<1>1. FieldsInit => IrIsWord
  BY FieldsAssumption DEF FieldsInit, IrIsWord, Byte
<1>2. IrIsWord /\ [FieldsNext]_fieldVars => IrIsWord'
  <2> SUFFICES ASSUME IrIsWord, [FieldsNext]_fieldVars PROVE IrIsWord'
    OBVIOUS
  <2>1. CASE UNCHANGED fieldVars
    BY <2>1 DEF fieldVars, IrIsWord
  <2>2. CASE FieldsNext
    BY <2>2, ToggleKeepsWord DEF FieldsNext
  <2> QED BY <2>1, <2>2
<1> QED BY <1>1, <1>2, PTL DEF FieldsSpec

(***************************************************************************)
(* get_rs1, get_rs2, put_rd, get_uimm5, dispatch_funct3, the jump table    *)
(* and lui and auipc find the fields of any instruction word.              *)
(***************************************************************************)
THEOREM DecodesFields == FieldsSpec => []FieldsDecoded
<1>1. IrIsWord => FieldsDecoded
  BY SmallFields, UpperImmediateDecoded DEF IrIsWord, FieldsDecoded
<1> QED BY <1>1, AllWords, PTL

(***************************************************************************)
(* get_imm12_i, get_imm12_s and get_imm12_b deliver the sign-extended      *)
(* immediate of any instruction word.                                      *)
(***************************************************************************)
THEOREM DecodesImmediates == FieldsSpec => []Immediates
<1>1. IrIsWord => Immediates
  BY ImmediateIDecoded, ImmediateSDecoded, ImmediateBDecoded
  DEF IrIsWord, Immediates
<1> QED BY <1>1, AllWords, PTL
-----------------------------------------------------------------------------
(***************************************************************************)
(* Bytes, bit by bit                                                       *)
(***************************************************************************)
LEMMA WordByte ==
  ASSUME NEW w \in Word, NEW j \in 0 .. 3, NEW i \in 0 .. 7
  PROVE  /\ BitOf(w, 8 * j + i) = Bit(w[j], i)
         /\ Bit(w[j], i) \in {0, 1}
<1>1. (8 * j + i) \div 8 = j /\ (8 * j + i) % 8 = i
  OBVIOUS
<1>2. w[j] \in Byte
  BY DEF Word
<1> QED BY <1>1, <1>2, BitValue DEF BitOf

LEMMA WordBit ==
  ASSUME NEW w \in Word, NEW k \in Bits
  PROVE  BitOf(w, k) \in {0, 1}
<1>1. k \div 8 \in 0 .. 3 /\ k % 8 \in 0 .. 7
  BY DEF Bits
<1>2. w[k \div 8] \in Byte
  BY <1>1 DEF Word
<1> QED BY <1>1, <1>2, BitValue DEF BitOf

(* A fact about every bit of every byte is one about every bit.            *)
LEMMA EveryBit ==
  ASSUME NEW T, \A j \in 0 .. 3, i \in 0 .. 7 : 8 * j + i \in T
  PROVE  \A k \in Bits : k \in T
<1> SUFFICES ASSUME NEW k \in Bits PROVE k \in T
  OBVIOUS
<1>1. k \div 8 \in 0 .. 3 /\ k % 8 \in 0 .. 7 /\ 8 * (k \div 8) + (k % 8) = k
  BY DEF Bits
<1> QED BY <1>1

LEMMA SameByte ==
  ASSUME NEW x \in Byte, NEW y \in Byte, \A i \in 0 .. 7 : Bit(x, i) = Bit(y, i)
  PROVE  x = y
<1>1. /\ Bit(x, 0) = Bit(y, 0) /\ Bit(x, 1) = Bit(y, 1) /\ Bit(x, 2) = Bit(y, 2)
      /\ Bit(x, 3) = Bit(y, 3) /\ Bit(x, 4) = Bit(y, 4) /\ Bit(x, 5) = Bit(y, 5)
      /\ Bit(x, 6) = Bit(y, 6) /\ Bit(x, 7) = Bit(y, 7)
  OBVIOUS
<1>2. x = Sum(Bit(x, 0), Bit(x, 1), Bit(x, 2), Bit(x, 3),
              Bit(x, 4), Bit(x, 5), Bit(x, 6), Bit(x, 7))
  BY SumOfBits, Zenon
<1>3. y = Sum(Bit(y, 0), Bit(y, 1), Bit(y, 2), Bit(y, 3),
              Bit(y, 4), Bit(y, 5), Bit(y, 6), Bit(y, 7))
  BY SumOfBits, Zenon
<1> QED BY <1>1, <1>2, <1>3, Zenon

LEMMA Product ==
  ASSUME NEW m \in Int, NEW x \in {0, 1}, NEW y \in {0, 1}
  PROVE  m * x * y = m * (x * y) /\ x * y \in {0, 1}
<1>1. CASE x = 0 /\ y = 0
  BY <1>1
<1>2. CASE x = 0 /\ y = 1
  BY <1>2
<1>3. CASE x = 1 /\ y = 0
  BY <1>3
<1>4. CASE x = 1 /\ y = 1
  BY <1>4
<1> QED BY <1>1, <1>2, <1>3, <1>4

(* A byte given by its bits.                                               *)
LEMMA ByteOfBits ==
  ASSUME NEW f \in [0 .. 7 -> {0, 1}], NEW b,
         b = Sum(f[0], f[1], f[2], f[3], f[4], f[5], f[6], f[7])
  PROVE  b \in Byte /\ \A i \in 0 .. 7 : Bit(b, i) = f[i]
<1>1. /\ f[0] \in {0, 1} /\ f[1] \in {0, 1} /\ f[2] \in {0, 1} /\ f[3] \in {0, 1}
      /\ f[4] \in {0, 1} /\ f[5] \in {0, 1} /\ f[6] \in {0, 1} /\ f[7] \in {0, 1}
  OBVIOUS
<1>2. HasBits(b, f[0], f[1], f[2], f[3], f[4], f[5], f[6], f[7])
  <2> DEFINE s == Sum(f[0], f[1], f[2], f[3], f[4], f[5], f[6], f[7])
  <2>1. HasBits(s, f[0], f[1], f[2], f[3], f[4], f[5], f[6], f[7])
    <3>1. AreBits(f[0], f[1], f[2], f[3], f[4], f[5], f[6], f[7])
      BY <1>1, Zenon DEF AreBits
    <3> QED BY <3>1, SumReadBack, Zenon
  <2> HIDE DEF s
  <2>2. b = s
    BY Zenon DEF s
  <2> QED BY <2>1, <2>2, Zenon
<1>3. \A i \in 0 .. 7 : i = 0 \/ i = 1 \/ i = 2 \/ i = 3 \/ i = 4 \/ i = 5 \/ i = 6 \/ i = 7
  OBVIOUS
<1> QED BY <1>2, <1>3, Zenon DEF HasBits

LEMMA AndBits ==
  ASSUME NEW a \in Byte, NEW b \in Byte
  PROVE  And(a, b) \in Byte /\ \A i \in 0 .. 7 : Bit(And(a, b), i) = Bit(a, i) * Bit(b, i)
<1> DEFINE f == [i \in 0 .. 7 |-> Bit(a, i) * Bit(b, i)]
<1>1. \A i \in 0 .. 7 : Bit(a, i) \in {0, 1} /\ Bit(b, i) \in {0, 1}
  BY BitValue
<1>2. ASSUME NEW i \in 0 .. 7
      PROVE  f[i] \in {0, 1} /\ Power(i) * Bit(a, i) * Bit(b, i) = Power(i) * f[i]
  <2>1. Power(i) \in Int
    BY Powers
  <2>2. Bit(a, i) \in {0, 1} /\ Bit(b, i) \in {0, 1}
    BY <1>1
  <2>3. f[i] = Bit(a, i) * Bit(b, i)
    OBVIOUS
  <2> QED BY <2>1, <2>2, <2>3, Product, Zenon
<1>3. f \in [0 .. 7 -> {0, 1}]
  BY <1>2
<1>4. And(a, b) = Power(0) * f[0] + Power(1) * f[1] + Power(2) * f[2] + Power(3) * f[3]
                    + Power(4) * f[4] + Power(5) * f[5] + Power(6) * f[6] + Power(7) * f[7]
  <2> HIDE DEF f
  <2>1. /\ 0 \in 0 .. 7 /\ 1 \in 0 .. 7 /\ 2 \in 0 .. 7 /\ 3 \in 0 .. 7
        /\ 4 \in 0 .. 7 /\ 5 \in 0 .. 7 /\ 6 \in 0 .. 7 /\ 7 \in 0 .. 7
    OBVIOUS
  <2> QED BY <1>2, <2>1, Zenon DEF And
<1> HIDE DEF f
<1>5. And(a, b) = Sum(f[0], f[1], f[2], f[3], f[4], f[5], f[6], f[7])
  <2>1. /\ f[0] \in Int /\ f[1] \in Int /\ f[2] \in Int /\ f[3] \in Int
        /\ f[4] \in Int /\ f[5] \in Int /\ f[6] \in Int /\ f[7] \in Int
    BY <1>3
  <2> QED BY <1>4, <2>1, Powers DEF Sum
<1>6. And(a, b) \in Byte /\ \A i \in 0 .. 7 : Bit(And(a, b), i) = f[i]
  BY <1>3, <1>5, ByteOfBits, Zenon
<1> QED BY <1>6 DEF f

LEMMA XorBits ==
  ASSUME NEW a \in Byte, NEW b \in Byte
  PROVE  /\ Xor(a, b) \in Byte
         /\ \A i \in 0 .. 7 : Bit(Xor(a, b), i) = IF Bit(a, i) = Bit(b, i) THEN 0 ELSE 1
<1> DEFINE c == And(a, b)
           f == [i \in 0 .. 7 |-> IF Bit(a, i) = Bit(b, i) THEN 0 ELSE 1]
           E(i) == Bit(a, i) + 1 * Bit(b, i)
           G(i) == E(i) + (-2) * Bit(c, i)
<1>1. c \in Byte /\ \A i \in 0 .. 7 : Bit(c, i) = Bit(a, i) * Bit(b, i)
  BY AndBits, Zenon
<1> HIDE DEF c
<1>2. \A i \in 0 .. 7 : Bit(a, i) \in {0, 1} /\ Bit(b, i) \in {0, 1} /\ Bit(c, i) \in {0, 1}
  BY <1>1, BitValue
<1>3. \A i \in 0 .. 7 : G(i) = f[i]
  <2>1. \A x \in {0, 1}, y \in {0, 1} : (IF x = y THEN 0 ELSE 1) = (x + 1 * y) + (-2) * (x * y)
    OBVIOUS
  <2> QED BY <1>1, <1>2, <2>1
<1>4. f \in [0 .. 7 -> {0, 1}]
  OBVIOUS
<1> HIDE DEF f
<1>5. \A i \in 0 .. 7 : Bit(a, i) \in Int /\ Bit(b, i) \in Int /\ Bit(c, i) \in Int /\ E(i) \in Int
  BY <1>2
<1>6. Xor(a, b) = (a + 1 * b) + (-2) * c
  BY <1>1 DEF Xor, c, Byte
<1>7. a + 1 * b = Sum(E(0), E(1), E(2), E(3), E(4), E(5), E(6), E(7))
  <2> DEFINE A(i) == Bit(a, i)
             B(i) == Bit(b, i)
  <2>1. /\ A(0) \in Int /\ A(1) \in Int /\ A(2) \in Int /\ A(3) \in Int
        /\ A(4) \in Int /\ A(5) \in Int /\ A(6) \in Int /\ A(7) \in Int
        /\ B(0) \in Int /\ B(1) \in Int /\ B(2) \in Int /\ B(3) \in Int
        /\ B(4) \in Int /\ B(5) \in Int /\ B(6) \in Int /\ B(7) \in Int
    BY <1>5
  <2>2. /\ a = Sum(A(0), A(1), A(2), A(3),
               A(4), A(5), A(6), A(7))
        /\ b = Sum(B(0), B(1), B(2), B(3),
               B(4), B(5), B(6), B(7))
    BY SumOfBits, Zenon
  <2> HIDE DEF A, B
  <2>4. Sum(A(0), A(1), A(2), A(3),
               A(4), A(5), A(6), A(7))
          + 1 * Sum(B(0), B(1), B(2), B(3),
               B(4), B(5), B(6), B(7))
          = Sum(A(0) + 1 * B(0), A(1) + 1 * B(1), A(2) + 1 * B(2), A(3) + 1 * B(3),
               A(4) + 1 * B(4), A(5) + 1 * B(5), A(6) + 1 * B(6), A(7) + 1 * B(7))
    BY <2>1 DEF Sum
  <2> QED BY <2>2, <2>4, Zenon DEF A, B
<1> HIDE DEF E
<1>8. Sum(E(0), E(1), E(2), E(3), E(4), E(5), E(6), E(7)) + (-2) * c
        = Sum(G(0), G(1), G(2), G(3), G(4), G(5), G(6), G(7))
  <2> DEFINE C(i) == Bit(c, i)
  <2>1. /\ E(0) \in Int /\ E(1) \in Int /\ E(2) \in Int /\ E(3) \in Int
        /\ E(4) \in Int /\ E(5) \in Int /\ E(6) \in Int /\ E(7) \in Int
        /\ C(0) \in Int /\ C(1) \in Int /\ C(2) \in Int /\ C(3) \in Int
        /\ C(4) \in Int /\ C(5) \in Int /\ C(6) \in Int /\ C(7) \in Int
    BY <1>5
  <2>2. c = Sum(C(0), C(1), C(2), C(3),
               C(4), C(5), C(6), C(7))
    BY <1>1, SumOfBits, Zenon
  <2> HIDE DEF C
  <2>4. Sum(E(0), E(1), E(2), E(3),
               E(4), E(5), E(6), E(7))
          + (-2) * Sum(C(0), C(1), C(2), C(3),
               C(4), C(5), C(6), C(7))
          = Sum(E(0) + (-2) * C(0), E(1) + (-2) * C(1), E(2) + (-2) * C(2), E(3) + (-2) * C(3),
                E(4) + (-2) * C(4), E(5) + (-2) * C(5), E(6) + (-2) * C(6), E(7) + (-2) * C(7))
    BY <2>1 DEF Sum
  <2> QED BY <2>2, <2>4, Zenon DEF C
<1> HIDE DEF G
<1>9. Xor(a, b) = Sum(f[0], f[1], f[2], f[3], f[4], f[5], f[6], f[7])
  <2>1. /\ G(0) = f[0] /\ G(1) = f[1] /\ G(2) = f[2] /\ G(3) = f[3]
        /\ G(4) = f[4] /\ G(5) = f[5] /\ G(6) = f[6] /\ G(7) = f[7]
    BY <1>3
  <2> QED BY <1>6, <1>7, <1>8, <2>1, Zenon
<1>10. Xor(a, b) \in Byte /\ \A i \in 0 .. 7 : Bit(Xor(a, b), i) = f[i]
  BY <1>4, <1>9, ByteOfBits, Zenon
<1> QED BY <1>10 DEF f

LEMMA InvertedBits ==
  ASSUME NEW a \in Byte
  PROVE  255 - a \in Byte /\ \A i \in 0 .. 7 : Bit(255 - a, i) = 1 - Bit(a, i)
<1> DEFINE f == [i \in 0 .. 7 |-> 1 - Bit(a, i)]
<1>1. \A i \in 0 .. 7 : Bit(a, i) \in {0, 1}
  BY BitValue
<1>2. f \in [0 .. 7 -> {0, 1}]
  BY <1>1
<1>3. a = Sum(Bit(a, 0), Bit(a, 1), Bit(a, 2), Bit(a, 3),
              Bit(a, 4), Bit(a, 5), Bit(a, 6), Bit(a, 7))
  BY SumOfBits, Zenon
<1>4. 255 - a = Sum(f[0], f[1], f[2], f[3], f[4], f[5], f[6], f[7])
  BY <1>1, <1>3 DEF Sum
<1> HIDE DEF f
<1>5. 255 - a \in Byte /\ \A i \in 0 .. 7 : Bit(255 - a, i) = f[i]
  BY <1>2, <1>4, ByteOfBits, Zenon
<1> QED BY <1>5 DEF f

LEMMA FlippedByte ==
  ASSUME NEW x \in Byte
  PROVE  /\ (x + 128) % 256 \in Byte
         /\ \A i \in 0 .. 7 : Bit((x + 128) % 256, i) = IF i = 7 THEN 1 - Bit(x, 7) ELSE Bit(x, i)
<1> DEFINE f == [i \in 0 .. 7 |-> IF i = 7 THEN 1 - Bit(x, 7) ELSE Bit(x, i)]
<1>1. \A i \in 0 .. 7 : Bit(x, i) \in {0, 1}
  BY BitValue
<1>2. f \in [0 .. 7 -> {0, 1}]
  BY <1>1
<1>3. x = Sum(Bit(x, 0), Bit(x, 1), Bit(x, 2), Bit(x, 3),
              Bit(x, 4), Bit(x, 5), Bit(x, 6), Bit(x, 7))
  BY SumOfBits, Zenon
<1>4. /\ Bit(x, 7) = 0 => x < 128 /\ (x + 128) % 256 = x + 128
      /\ Bit(x, 7) = 1 => x >= 128 /\ (x + 128) % 256 = x - 128
  BY Powers DEF Bit, Byte
<1>5. (x + 128) % 256 = Sum(f[0], f[1], f[2], f[3], f[4], f[5], f[6], f[7])
  <2>1. Sum(f[0], f[1], f[2], f[3], f[4], f[5], f[6], f[7])
          = Sum(Bit(x, 0), Bit(x, 1), Bit(x, 2), Bit(x, 3),
                Bit(x, 4), Bit(x, 5), Bit(x, 6), 1 - Bit(x, 7))
    OBVIOUS
  <2>2. (x + 128) % 256 = x + 128 * (1 - 2 * Bit(x, 7))
    BY <1>1, <1>4 DEF Byte
  <2>3. \A b \in {0, 1} : 128 * (1 - 2 * b) = 128 * (1 - b) - 128 * b
    OBVIOUS
  <2> HIDE DEF f
  <2> QED BY <1>1, <1>3, <2>1, <2>2, <2>3 DEF Sum
<1> HIDE DEF f
<1>6. /\ (x + 128) % 256 \in Byte
      /\ \A i \in 0 .. 7 : Bit((x + 128) % 256, i) = f[i]
  BY <1>2, <1>5, ByteOfBits, Zenon
<1> QED BY <1>6 DEF f

LEMMA LeftByte ==
  ASSUME NEW x \in Byte, NEW c \in {0, 1}
  PROVE  /\ ((2 * x) % 256) + c \in Byte
         /\ \A i \in 0 .. 7 :
              Bit(((2 * x) % 256) + c, i) = IF i = 0 THEN c ELSE Bit(x, i - 1)
<1> DEFINE f == [i \in 0 .. 7 |-> IF i = 0 THEN c ELSE Bit(x, i - 1)]
           b == ((2 * x) % 256) + c
<1>1. \A i \in 0 .. 7 : Bit(x, i) \in {0, 1}
  BY BitValue
<1>2. f \in [0 .. 7 -> {0, 1}]
  BY <1>1
<1>3. x = Sum(Bit(x, 0), Bit(x, 1), Bit(x, 2), Bit(x, 3),
              Bit(x, 4), Bit(x, 5), Bit(x, 6), Bit(x, 7))
  BY SumOfBits, Zenon
<1>4. (2 * x) % 256 = 2 * x - 256 * Bit(x, 7)
  <2>1. Bit(x, 7) = IF x < 128 THEN 0 ELSE 1
    BY Powers DEF Bit, Byte
  <2>2. CASE x < 128
    BY <2>1, <2>2 DEF Byte
  <2>3. CASE x >= 128
    BY <2>1, <2>3 DEF Byte
  <2> QED BY <2>2, <2>3 DEF Byte
<1>5. b = Sum(f[0], f[1], f[2], f[3], f[4], f[5], f[6], f[7])
  <2>1. Sum(f[0], f[1], f[2], f[3], f[4], f[5], f[6], f[7])
          = Sum(c, Bit(x, 0), Bit(x, 1), Bit(x, 2), Bit(x, 3),
                Bit(x, 4), Bit(x, 5), Bit(x, 6))
    OBVIOUS
  <2> HIDE DEF f
  <2> QED BY <1>1, <1>3, <1>4, <2>1 DEF Sum
<1> HIDE DEF f, b
<1>6. b \in Byte /\ \A i \in 0 .. 7 : Bit(b, i) = f[i]
  BY <1>2, <1>5, ByteOfBits, Zenon
<1> QED BY <1>6 DEF f, b

LEMMA RightByte ==
  ASSUME NEW x \in Byte, NEW c \in {0, 1}
  PROVE  /\ (x \div 2) + 128 * c \in Byte
         /\ \A i \in 0 .. 7 :
              Bit((x \div 2) + 128 * c, i) = IF i = 7 THEN c ELSE Bit(x, i + 1)
<1> DEFINE f == [i \in 0 .. 7 |-> IF i = 7 THEN c ELSE Bit(x, i + 1)]
           b == (x \div 2) + 128 * c
<1>1. \A i \in 0 .. 7 : Bit(x, i) \in {0, 1}
  BY BitValue
<1>2. f \in [0 .. 7 -> {0, 1}]
  BY <1>1
<1>3. x = Sum(Bit(x, 0), Bit(x, 1), Bit(x, 2), Bit(x, 3),
              Bit(x, 4), Bit(x, 5), Bit(x, 6), Bit(x, 7))
  BY SumOfBits, Zenon
<1>4. x = 2 * (x \div 2) + Bit(x, 0) /\ x \div 2 \in Nat
  BY Powers DEF Bit, Byte
<1>5. b = Sum(f[0], f[1], f[2], f[3], f[4], f[5], f[6], f[7])
  <2>1. Sum(f[0], f[1], f[2], f[3], f[4], f[5], f[6], f[7])
          = Sum(Bit(x, 1), Bit(x, 2), Bit(x, 3), Bit(x, 4),
                Bit(x, 5), Bit(x, 6), Bit(x, 7), c)
    OBVIOUS
  <2> HIDE DEF f
  <2> QED BY <1>1, <1>3, <1>4, <2>1 DEF Sum
<1> HIDE DEF f, b
<1>6. b \in Byte /\ \A i \in 0 .. 7 : Bit(b, i) = f[i]
  BY <1>2, <1>5, ByteOfBits, Zenon
<1> QED BY <1>6 DEF f, b

LEMMA EndBits ==
  ASSUME NEW x \in Byte
  PROVE  x \div 128 = Bit(x, 7) /\ x % 2 = Bit(x, 0)
BY Powers DEF Bit, Byte

-----------------------------------------------------------------------------
(***************************************************************************)
(* Words, bit by bit                                                       *)
(***************************************************************************)
LEMMA ComplementIs ==
  ASSUME NEW w \in Word
  PROVE  Complement(w) \in Word /\ \A k \in Bits : BitOf(Complement(w), k) = 1 - BitOf(w, k)
<1> DEFINE c == Complement(w)
           T == {k \in Bits : BitOf(c, k) = 1 - BitOf(w, k)}
<1>1. \A j \in 0 .. 3 : w[j] \in Byte /\ c[j] = 255 - w[j]
  BY DEF Complement, Word
<1>2. c \in Word
  BY <1>1, InvertedBits DEF Complement, Word
<1> HIDE DEF c
<1>3. \A j \in 0 .. 3, i \in 0 .. 7 : 8 * j + i \in T
  BY <1>1, <1>2, WordByte, InvertedBits DEF Bits
<1>4. \A k \in Bits : k \in T
  <2> HIDE DEF T
  <2> QED BY <1>3, EveryBit, Zenon
<1> QED BY <1>2, <1>4 DEF c

LEMMA SignFlippedIs ==
  ASSUME NEW w \in Word
  PROVE  /\ SignFlipped(w) \in Word
         /\ \A k \in Bits :
              BitOf(SignFlipped(w), k) = IF k = 31 THEN 1 - BitOf(w, 31) ELSE BitOf(w, k)
<1> DEFINE c == SignFlipped(w)
           T == {k \in Bits : BitOf(c, k) = IF k = 31 THEN 1 - BitOf(w, 31) ELSE BitOf(w, k)}
<1>1. \A j \in 0 .. 3 : w[j] \in Byte /\ c[j] = IF j = 3 THEN (w[3] + 128) % 256 ELSE w[j]
  BY DEF SignFlipped, Word
<1>2. c \in Word
  BY <1>1, FlippedByte DEF SignFlipped, Word
<1> HIDE DEF c
<1>3. ASSUME NEW j \in 0 .. 3, NEW i \in 0 .. 7 PROVE 8 * j + i \in T
  <2>1. BitOf(c, 8 * j + i) = Bit(c[j], i) /\ BitOf(w, 8 * j + i) = Bit(w[j], i)
    BY <1>2, WordByte, Zenon
  <2>2. 8 * j + i \in Bits /\ (8 * j + i = 31 <=> j = 3 /\ i = 7)
    BY DEF Bits
  <2>3. CASE j = 3
    BY <1>1, <2>1, <2>2, <2>3, FlippedByte
  <2>4. CASE j # 3
    BY <1>1, <2>1, <2>2, <2>4
  <2> QED BY <2>3, <2>4
<1>4. \A k \in Bits : k \in T
  <2> HIDE DEF T
  <2> QED BY <1>3, EveryBit, Zenon
<1> QED BY <1>2, <1>4 DEF c

(* A word rotated one place through the carry, either way.                 *)
LEMMA RlcIs ==
  ASSUME NEW w \in Word, NEW c \in {0, 1}
  PROVE  /\ Rlc(w, c) \in Word
         /\ \A k \in Bits : BitOf(Rlc(w, c), k) = IF k = 0 THEN c ELSE BitOf(w, k - 1)
<1> DEFINE r == Rlc(w, c)
           T == {k \in Bits : BitOf(r, k) = IF k = 0 THEN c ELSE BitOf(w, k - 1)}
           d == [j \in 0 .. 3 |-> IF j = 0 THEN c ELSE Bit(w[j - 1], 7)]
<1>1. \A j \in 0 .. 3 : w[j] \in Byte /\ d[j] \in {0, 1}
  BY BitValue DEF Word
<1>2. \A j \in 0 .. 3 : r[j] = ((2 * w[j]) % 256) + d[j]
  BY EndBits DEF Rlc, Word
<1>3. \A j \in 0 .. 3 : r[j] \in Byte
  BY <1>1, <1>2, LeftByte
<1>4. r \in Word
  BY <1>3 DEF Rlc, Word
<1> HIDE DEF r
<1>5. ASSUME NEW j \in 0 .. 3, NEW i \in 0 .. 7 PROVE 8 * j + i \in T
  <2>1. BitOf(r, 8 * j + i) = Bit(r[j], i)
    BY <1>4, WordByte, Zenon
  <2>2. Bit(r[j], i) = IF i = 0 THEN d[j] ELSE Bit(w[j], i - 1)
    BY <1>1, <1>2, LeftByte
  <2>3. CASE i # 0
    <3>1. 8 * j + (i - 1) = (8 * j + i) - 1 /\ i - 1 \in 0 .. 7 /\ 8 * j + i # 0
      BY <2>3
    <3>2. BitOf(w, 8 * j + (i - 1)) = Bit(w[j], i - 1)
      BY <3>1, WordByte, Zenon
    <3> QED BY <2>1, <2>2, <2>3, <3>1, <3>2 DEF Bits
  <2>4. CASE i = 0 /\ j # 0
    <3>1. 8 * (j - 1) + 7 = (8 * j + i) - 1 /\ j - 1 \in 0 .. 3 /\ 7 \in 0 .. 7 /\ 8 * j + i # 0
      BY <2>4
    <3>2. BitOf(w, 8 * (j - 1) + 7) = Bit(w[j - 1], 7)
      BY <3>1, WordByte, Zenon
    <3> QED BY <2>1, <2>2, <2>4, <3>1, <3>2 DEF Bits
  <2>5. CASE i = 0 /\ j = 0
    BY <2>1, <2>2, <2>5 DEF Bits
  <2> QED BY <2>3, <2>4, <2>5
<1>6. \A k \in Bits : k \in T
  <2> HIDE DEF T
  <2> QED BY <1>5, EveryBit, Zenon
<1> QED BY <1>4, <1>6 DEF r

LEMMA RrcIs ==
  ASSUME NEW w \in Word, NEW c \in {0, 1}
  PROVE  /\ Rrc(w, c) \in Word
         /\ \A k \in Bits : BitOf(Rrc(w, c), k) = IF k = 31 THEN c ELSE BitOf(w, k + 1)
<1> DEFINE r == Rrc(w, c)
           T == {k \in Bits : BitOf(r, k) = IF k = 31 THEN c ELSE BitOf(w, k + 1)}
           d == [j \in 0 .. 3 |-> IF j = 3 THEN c ELSE Bit(w[j + 1], 0)]
<1>1. \A j \in 0 .. 3 : w[j] \in Byte /\ d[j] \in {0, 1}
  BY BitValue DEF Word
<1>2. \A j \in 0 .. 3 : r[j] = (w[j] \div 2) + 128 * d[j]
  BY EndBits DEF Rrc, Word
<1>3. \A j \in 0 .. 3 : r[j] \in Byte
  BY <1>1, <1>2, RightByte
<1>4. r \in Word
  BY <1>3 DEF Rrc, Word
<1> HIDE DEF r
<1>5. ASSUME NEW j \in 0 .. 3, NEW i \in 0 .. 7 PROVE 8 * j + i \in T
  <2>1. BitOf(r, 8 * j + i) = Bit(r[j], i)
    BY <1>4, WordByte, Zenon
  <2>2. Bit(r[j], i) = IF i = 7 THEN d[j] ELSE Bit(w[j], i + 1)
    BY <1>1, <1>2, RightByte
  <2>3. CASE i # 7
    <3>1. 8 * j + (i + 1) = (8 * j + i) + 1 /\ i + 1 \in 0 .. 7 /\ 8 * j + i # 31
      BY <2>3
    <3>2. BitOf(w, 8 * j + (i + 1)) = Bit(w[j], i + 1)
      BY <3>1, WordByte, Zenon
    <3> QED BY <2>1, <2>2, <2>3, <3>1, <3>2 DEF Bits
  <2>4. CASE i = 7 /\ j # 3
    <3>1. 8 * (j + 1) + 0 = (8 * j + i) + 1 /\ j + 1 \in 0 .. 3 /\ 0 \in 0 .. 7 /\ 8 * j + i # 31
      BY <2>4
    <3>2. BitOf(w, 8 * (j + 1) + 0) = Bit(w[j + 1], 0)
      BY <3>1, WordByte, Zenon
    <3> QED BY <2>1, <2>2, <2>4, <3>1, <3>2 DEF Bits
  <2>5. CASE i = 7 /\ j = 3
    BY <2>1, <2>2, <2>5 DEF Bits
  <2> QED BY <2>3, <2>4, <2>5
<1>6. \A k \in Bits : k \in T
  <2> HIDE DEF T
  <2> QED BY <1>5, EveryBit, Zenon
<1> QED BY <1>4, <1>6 DEF r

-----------------------------------------------------------------------------
(***************************************************************************)
(* Functions defined by induction on their index; the carry that ripples   *)
(* through a sum is one, by bytes or by bits                               *)
(***************************************************************************)
LEMMA LeastNat ==
  ASSUME NEW T, T \subseteq Nat, T # {}
  PROVE  \E x \in T : \A y \in T : x <= y
<1> DEFINE less == OpToRel(<, Nat)
<1>1. \A x, y \in Nat : x < y => <<x, y>> \in less
  BY DEF OpToRel
<1>2. IsWellFoundedOn(less, Nat)
  BY NatLessThanWellFounded, Zenon
<1> HIDE DEF less
<1>3. PICK x \in T : \A y \in T : ~(<<y, x>> \in less)
  BY <1>2, WFMin
<1>4. ASSUME NEW y \in T PROVE x <= y
  <2>1. x \in Nat /\ y \in Nat /\ ~(<<y, x>> \in less)
    BY <1>3
  <2>2. ~(y < x)
    BY <1>1, <2>1, Zenon
  <2> QED BY <2>1, <2>2
<1> QED BY <1>4

LEMMA IndexInduction ==
  ASSUME NEW n \in Nat, NEW T, 0 \in T, \A i \in 1 .. n : i - 1 \in T => i \in T
  PROVE  \A i \in 0 .. n : i \in T
<1> SUFFICES ASSUME NEW j \in 0 .. n, j \notin T PROVE FALSE
  OBVIOUS
<1> DEFINE U == {i \in 0 .. n : i \notin T}
<1>1. U \subseteq Nat /\ U # {}
  OBVIOUS
<1>2. PICK x \in U : \A y \in U : x <= y
  <2> HIDE DEF U
  <2> QED BY <1>1, LeastNat
<1>3. x \in 0 .. n /\ x \notin T /\ x # 0
  BY <1>2
<1>4. x \in 1 .. n /\ x - 1 \in 0 .. n /\ ~(x <= x - 1)
  BY <1>3
<1>5. x - 1 \notin U
  <2> HIDE DEF U
  <2> QED BY <1>2, <1>4
<1> QED BY <1>3, <1>4, <1>5

(* Every function on 0 .. k begins one on 0 .. k + 1: c, then the carry of *)
(* A and B in base m.                                                      *)
Ripples(h, n, m, c, A, B) ==
  h = [k \in 0 .. n |-> IF k = 0 THEN c ELSE (A[k - 1] + B[k - 1] + h[k - 1]) \div m]

LEMMA RippleExists ==
  ASSUME NEW n \in Nat, NEW m, NEW c, NEW A, NEW B
  PROVE  \E h : Ripples(h, n, m, c, A, B)
<1> DEFINE Next1(x, k) == (A[k - 1] + B[k - 1] + x) \div m
           T == {k \in 0 .. n : \E h : Ripples(h, k, m, c, A, B)}
<1>1. 0 \in T
  <2> DEFINE h == [k \in 0 .. 0 |-> c]
  <2>1. Ripples(h, 0, m, c, A, B)
    BY DEF Ripples
  <2> QED BY <2>1
<1>2. ASSUME NEW k \in 1 .. n, k - 1 \in T PROVE k \in T
  <2>1. PICK h : Ripples(h, k - 1, m, c, A, B)
    BY <1>2
  <2> DEFINE g == [i \in 0 .. k |-> IF i = k THEN Next1(h[k - 1], k) ELSE h[i]]
  <2>2. \A i \in 0 .. k - 1 : g[i] = h[i]
    OBVIOUS
  <2>3. g[k] = Next1(h[k - 1], k)
    OBVIOUS
  <2>4. \A i \in 0 .. k - 1 : h[i] = IF i = 0 THEN c ELSE Next1(h[i - 1], i)
    BY <2>1, Zenon DEF Ripples
  <2>5. g = [i \in 0 .. k |-> g[i]]
    OBVIOUS
  <2> HIDE DEF g, Next1
  <2>6. ASSUME NEW i \in 0 .. k PROVE g[i] = IF i = 0 THEN c ELSE Next1(g[i - 1], i)
    <3>1. CASE i = k
      <4>1. i # 0 /\ k - 1 \in 0 .. k - 1
        BY <3>1
      <4> QED BY <2>2, <2>3, <3>1, <4>1
    <3>2. CASE i = 0
      <4>1. 0 \in 0 .. k - 1
        OBVIOUS
      <4> QED BY <2>2, <2>4, <3>2, <4>1
    <3>3. CASE i # k /\ i # 0
      <4>1. i \in 0 .. k - 1 /\ i - 1 \in 0 .. k - 1
        BY <3>3
      <4> QED BY <2>2, <2>4, <3>3, <4>1
    <3> QED BY <3>1, <3>2, <3>3
  <2>7. g = [i \in 0 .. k |-> IF i = 0 THEN c ELSE Next1(g[i - 1], i)]
    BY <2>5, <2>6
  <2>8. Ripples(g, k, m, c, A, B)
    BY <2>7, Zenon DEF Ripples, Next1
  <2> QED BY <2>8
<1> HIDE DEF T
<1>3. n \in T
  <2>1. n \in 0 .. n
    OBVIOUS
  <2> QED BY <1>1, <1>2, <2>1, IndexInduction, Zenon
<1> QED BY <1>3 DEF T

Summands(n, m, c, A, B) ==
  /\ n \in Nat /\ m \in {2, 256} /\ c \in {0, 1}
  /\ \A k \in 0 .. n - 1 : A[k] \in 0 .. m - 1 /\ B[k] \in 0 .. m - 1

Rippled(h, n, m, c, A, B) ==
  /\ h \in [0 .. n -> {0, 1}] /\ h[0] = c
  /\ \A k \in 0 .. n - 1 : h[k + 1] = (A[k] + B[k] + h[k]) \div m

LEMMA RippleIs ==
  ASSUME NEW n, NEW m, NEW c, NEW A, NEW B, NEW h,
         Summands(n, m, c, A, B), Ripples(h, n, m, c, A, B)
  PROVE  Rippled(h, n, m, c, A, B)
<1>0. n \in Nat /\ m \in {2, 256} /\ c \in {0, 1}
  BY Zenon DEF Summands
<1>1. h = [k \in 0 .. n |-> IF k = 0 THEN c ELSE (A[k - 1] + B[k - 1] + h[k - 1]) \div m]
  BY Zenon DEF Ripples
<1>2. h[0] = c /\ \A k \in 1 .. n : h[k] = (A[k - 1] + B[k - 1] + h[k - 1]) \div m
  BY <1>0, <1>1
<1> DEFINE T == {k \in 0 .. n : h[k] \in {0, 1}}
<1>3. 0 \in T
  BY <1>0, <1>2
<1>4. ASSUME NEW k \in 1 .. n, k - 1 \in T PROVE k \in T
  <2> DEFINE x == A[k - 1]
             y == B[k - 1]
             z == h[k - 1]
  <2>1. x \in 0 .. m - 1 /\ y \in 0 .. m - 1 /\ z \in {0, 1}
    BY <1>0, <1>4 DEF Summands
  <2>2. h[k] = (x + y + z) \div m
    BY <1>2
  <2> HIDE DEF x, y, z
  <2>3. (x + y + z) \div m \in {0, 1}
    <3>1. CASE m = 2
      BY <1>0, <2>1, <3>1
    <3>2. CASE m = 256
      BY <1>0, <2>1, <3>2
    <3> QED BY <1>0, <3>1, <3>2
  <2>4. h[k] \in {0, 1}
    BY <2>2, <2>3
  <2>5. k \in 0 .. n
    BY <1>0
  <2> QED BY <2>4, <2>5
<1>5. \A k \in 0 .. n : k \in T
  <2> HIDE DEF T
  <2>1. n \in Nat
    BY <1>0
  <2> QED BY <1>3, <1>4, <2>1, IndexInduction, Zenon
<1>6. \A k \in 0 .. n : h[k] \in {0, 1}
  BY <1>5
<1>7. h \in [0 .. n -> {0, 1}]
  BY <1>1, <1>6
<1>8. ASSUME NEW k \in 0 .. n - 1 PROVE h[k + 1] = (A[k] + B[k] + h[k]) \div m
  <2>1. k + 1 \in 1 .. n /\ (k + 1) - 1 = k
    BY <1>0
  <2> QED BY <1>2, <2>1
<1> QED BY <1>2, <1>7, <1>8, Zenon DEF Rippled

LEMMA CarriesAre ==
  ASSUME NEW a \in Word, NEW b \in Word, NEW c \in {0, 1}
  PROVE  /\ Carries(a, b, c) \in [0 .. 4 -> {0, 1}]
         /\ Carries(a, b, c)[0] = c
         /\ \A k \in 0 .. 3 :
              Carries(a, b, c)[k + 1] = (a[k] + b[k] + Carries(a, b, c)[k]) \div 256
<1> DEFINE h == Carries(a, b, c)
<1>1. PICK g : Ripples(g, 4, 256, c, a, b)
  BY RippleExists
<1>2. h = CHOOSE f : Ripples(f, 4, 256, c, a, b)
  BY Zenon DEF Carries, Ripples
<1>3. Summands(4, 256, c, a, b)
  BY DEF Word, Byte, Summands
<1> HIDE DEF h
<1>4. Ripples(h, 4, 256, c, a, b)
  BY <1>1, <1>2, Zenon
<1>5. Rippled(h, 4, 256, c, a, b)
  BY <1>3, <1>4, RippleIs, Zenon
<1> QED BY <1>5 DEF h, Rippled

-----------------------------------------------------------------------------
(***************************************************************************)
(* Sums                                                                    *)
(***************************************************************************)

LEMMA ByteTotal ==
  ASSUME NEW x \in Byte, NEW y \in Byte, NEW c \in {0, 1}
  PROVE  /\ (x + y + c) % 256 \in Byte
         /\ ((x + y + c) % 256) + 256 * ((x + y + c) \div 256) = x + y + c
BY DEF Byte

(* One byte of a sum: what the bits carry is what the byte carries.        *)
Adds(x, y, z, d, e) ==
  /\ x \in Byte /\ y \in Byte /\ z \in Byte /\ d \in {0, 1} /\ e \in [0 .. 8 -> {0, 1}]
  /\ \A i \in 0 .. 7 : e[i + 1] = (Bit(x, i) + Bit(y, i) + e[i]) \div 2
  /\ z + 256 * d = x + y + e[0]

Added(x, y, z, d, e) ==
  e[8] = d /\ \A i \in 0 .. 7 : Bit(z, i) = (Bit(x, i) + Bit(y, i) + e[i]) % 2

LEMMA ByteAdder ==
  ASSUME NEW x, NEW y, NEW z, NEW d, NEW e, Adds(x, y, z, d, e)
  PROVE  Added(x, y, z, d, e)
<1>1. /\ x \in Byte /\ y \in Byte /\ z \in Byte /\ d \in {0, 1} /\ e \in [0 .. 8 -> {0, 1}]
      /\ \A i \in 0 .. 7 : e[i + 1] = (Bit(x, i) + Bit(y, i) + e[i]) \div 2
      /\ z + 256 * d = x + y + e[0]
  BY Zenon DEF Adds
<1>2. \A i \in 0 .. 7 : /\ Bit(x, i) \in {0, 1} /\ Bit(y, i) \in {0, 1}
                        /\ e[i] \in {0, 1} /\ e[i + 1] \in {0, 1}
  BY <1>1, BitValue
<1> DEFINE f == [i \in 0 .. 7 |-> (Bit(x, i) + Bit(y, i) + e[i]) % 2]
<1>3. \A i \in 0 .. 7 : f[i] \in {0, 1} /\ Bit(x, i) + Bit(y, i) + e[i] = f[i] + 2 * e[i + 1]
  <2>1. \A u, v, w \in {0, 1} : /\ (u + v + w) % 2 \in {0, 1}
                               /\ u + v + w = ((u + v + w) % 2) + 2 * ((u + v + w) \div 2)
    OBVIOUS
  <2> QED BY <1>1, <1>2, <2>1
<1>4. f \in [0 .. 7 -> {0, 1}] /\ \A i \in 0 .. 7 : f[i] = (Bit(x, i) + Bit(y, i) + e[i]) % 2
  BY <1>3
<1> HIDE DEF f
<1> DEFINE s == Sum(f[0], f[1], f[2], f[3], f[4], f[5], f[6], f[7])
<1>5. s \in Byte /\ \A i \in 0 .. 7 : Bit(s, i) = f[i]
  BY <1>4, ByteOfBits, Zenon
<1>6. z = s /\ e[8] = d
  <2> DEFINE x0 == Bit(x, 0)  y0 == Bit(y, 0)  f0 == f[0]  e0 == e[0]
             x1 == Bit(x, 1)  y1 == Bit(y, 1)  f1 == f[1]  e1 == e[1]
             x2 == Bit(x, 2)  y2 == Bit(y, 2)  f2 == f[2]  e2 == e[2]
             x3 == Bit(x, 3)  y3 == Bit(y, 3)  f3 == f[3]  e3 == e[3]
             x4 == Bit(x, 4)  y4 == Bit(y, 4)  f4 == f[4]  e4 == e[4]
             x5 == Bit(x, 5)  y5 == Bit(y, 5)  f5 == f[5]  e5 == e[5]
             x6 == Bit(x, 6)  y6 == Bit(y, 6)  f6 == f[6]  e6 == e[6]
             x7 == Bit(x, 7)  y7 == Bit(y, 7)  f7 == f[7]  e7 == e[7]
             e8 == e[8]
  <2>1. /\ x0 \in {0, 1} /\ x1 \in {0, 1} /\ x2 \in {0, 1} /\ x3 \in {0, 1}
        /\ x4 \in {0, 1} /\ x5 \in {0, 1} /\ x6 \in {0, 1} /\ x7 \in {0, 1}
    BY <1>1, <1>2, <1>3
  <2>2. /\ y0 \in {0, 1} /\ y1 \in {0, 1} /\ y2 \in {0, 1} /\ y3 \in {0, 1}
        /\ y4 \in {0, 1} /\ y5 \in {0, 1} /\ y6 \in {0, 1} /\ y7 \in {0, 1}
    BY <1>1, <1>2, <1>3
  <2>3. /\ f0 \in {0, 1} /\ f1 \in {0, 1} /\ f2 \in {0, 1} /\ f3 \in {0, 1}
        /\ f4 \in {0, 1} /\ f5 \in {0, 1} /\ f6 \in {0, 1} /\ f7 \in {0, 1}
    BY <1>1, <1>2, <1>3
  <2>4. /\ e0 \in {0, 1} /\ e1 \in {0, 1} /\ e2 \in {0, 1} /\ e3 \in {0, 1}
        /\ e4 \in {0, 1} /\ e5 \in {0, 1} /\ e6 \in {0, 1} /\ e7 \in {0, 1}
        /\ e8 \in {0, 1}
    BY <1>1, <1>2, <1>3
  <2>5. /\ x0 + y0 + e0 = f0 + 2 * e1 /\ x1 + y1 + e1 = f1 + 2 * e2
        /\ x2 + y2 + e2 = f2 + 2 * e3 /\ x3 + y3 + e3 = f3 + 2 * e4
        /\ x4 + y4 + e4 = f4 + 2 * e5 /\ x5 + y5 + e5 = f5 + 2 * e6
        /\ x6 + y6 + e6 = f6 + 2 * e7 /\ x7 + y7 + e7 = f7 + 2 * e8
    BY <1>3
  <2>6. /\ x = Sum(x0, x1, x2, x3, x4, x5, x6, x7)
        /\ y = Sum(y0, y1, y2, y3, y4, y5, y6, y7)
    BY <1>1, SumOfBits, Zenon
  <2>7. s = Sum(f0, f1, f2, f3, f4, f5, f6, f7)
    BY Zenon
  <2>8. z + 256 * d = x + y + e0
    BY <1>1
  <2> HIDE DEF s, x0, y0, f0, e0, x1, y1, f1, e1, x2, y2, f2, e2, x3, y3, f3, e3,
               x4, y4, f4, e4, x5, y5, f5, e5, x6, y6, f6, e6, x7, y7, f7, e7, e8
  <2>9. x + y + e0 = s + 256 * e8
    BY <2>1, <2>2, <2>3, <2>4, <2>5, <2>6, <2>7 DEF Sum
  <2>10. z = s /\ d = e8
    <3>1. z + 256 * d = s + 256 * e8
      BY <2>8, <2>9, Zenon
    <3>2. z \in Byte /\ s \in Byte /\ d \in {0, 1} /\ e8 \in {0, 1}
      BY <1>1, <1>5, <2>4
    <3> QED BY <3>1, <3>2 DEF Byte
  <2> QED BY <2>10 DEF e8
<1> QED BY <1>4, <1>5, <1>6, Zenon DEF Added

(* Four bytes that carry into one another are a sum.                       *)
LEMMA SumByBytes ==
  ASSUME NEW r \in Word, NEW a \in Word, NEW b \in Word, NEW h \in [0 .. 4 -> {0, 1}],
         h[0] = 0, \A j \in 0 .. 3 : r[j] + 256 * h[j + 1] = a[j] + b[j] + h[j]
  PROVE  IsSum(r, a, b)
<1> DEFINE A == [k \in Bits |-> BitOf(a, k)]
           B == [k \in Bits |-> BitOf(b, k)]
           carry[k \in 0 .. 32] ==
             IF k = 0 THEN 0
             ELSE (BitOf(a, k - 1) + BitOf(b, k - 1) + carry[k - 1]) \div 2
           Good(k) == BitOf(r, k) = (BitOf(a, k) + BitOf(b, k) + carry[k]) % 2
<1>1. Rippled(carry, 32, 2, 0, A, B)
  <2>1. PICK g : Ripples(g, 32, 2, 0, A, B)
    BY RippleExists
  <2>2. \A f : Ripples(f, 32, 2, 0, A, B)
          <=> f = [k \in 0 .. 32 |-> IF k = 0 THEN 0
                     ELSE (BitOf(a, k - 1) + BitOf(b, k - 1) + f[k - 1]) \div 2]
    <3>1. \A k \in 0 .. 32 : k # 0 => A[k - 1] = BitOf(a, k - 1) /\ B[k - 1] = BitOf(b, k - 1)
      BY DEF Bits
    <3> HIDE DEF A, B
    <3> QED BY <3>1 DEF Ripples
  <2>3. Ripples(carry, 32, 2, 0, A, B)
    <3>1. carry = CHOOSE f : f = [k \in 0 .. 32 |-> IF k = 0 THEN 0
                     ELSE (BitOf(a, k - 1) + BitOf(b, k - 1) + f[k - 1]) \div 2]
      BY Zenon
    <3> HIDE DEF carry, A, B
    <3> QED BY <2>1, <2>2, <3>1, Zenon
  <2>4. Summands(32, 2, 0, A, B)
    BY WordBit DEF Summands, Bits
  <2> HIDE DEF carry, A, B
  <2> QED BY <2>3, <2>4, RippleIs, Zenon
<1>2. /\ carry \in [0 .. 32 -> {0, 1}] /\ carry[0] = 0
      /\ \A k \in Bits : carry[k + 1] = (BitOf(a, k) + BitOf(b, k) + carry[k]) \div 2
  <2> HIDE DEF carry
  <2> QED BY <1>1 DEF Rippled, Bits
<1>3. IsSum(r, a, b) <=> \A k \in Bits : Good(k)
  BY Zenon DEF IsSum
<1> HIDE DEF carry
<1>4. ASSUME NEW j \in 0 .. 3, carry[8 * j] = h[j]
      PROVE  carry[8 * j + 8] = h[j + 1] /\ \A i \in 0 .. 7 : Good(8 * j + i)
  <2> DEFINE e == [i \in 0 .. 8 |-> carry[8 * j + i]]
  <2>1. \A i \in 0 .. 8 : 8 * j + i \in 0 .. 32
    OBVIOUS
  <2>2. e \in [0 .. 8 -> {0, 1}]
    BY <1>2, <2>1
  <2>3. \A i \in 0 .. 7 : /\ BitOf(a, 8 * j + i) = Bit(a[j], i)
                          /\ BitOf(b, 8 * j + i) = Bit(b[j], i)
                          /\ BitOf(r, 8 * j + i) = Bit(r[j], i)
    BY WordByte
  <2>4. \A i \in 0 .. 7 : e[i + 1] = (Bit(a[j], i) + Bit(b[j], i) + e[i]) \div 2
    <3> SUFFICES ASSUME NEW i \in 0 .. 7
                 PROVE  e[i + 1] = (Bit(a[j], i) + Bit(b[j], i) + e[i]) \div 2
      OBVIOUS
    <3>1. /\ 8 * j + i \in Bits /\ (8 * j + i) + 1 = 8 * j + (i + 1)
          /\ i + 1 \in 0 .. 8 /\ i \in 0 .. 8
      BY DEF Bits
    <3> QED BY <1>2, <2>3, <3>1
  <2>5. a[j] \in Byte /\ b[j] \in Byte /\ r[j] \in Byte /\ h[j + 1] \in {0, 1}
    BY DEF Word
  <2>6. e[0] = h[j] /\ e[8] = carry[8 * j + 8]
    BY <1>4
  <2>7. r[j] + 256 * h[j + 1] = a[j] + b[j] + e[0]
    BY <2>6
  <2>8. \A i \in 0 .. 7 : e[i] = carry[8 * j + i]
    OBVIOUS
  <2> HIDE DEF e
  <2>9. Adds(a[j], b[j], r[j], h[j + 1], e)
    BY <2>2, <2>4, <2>5, <2>7, Zenon DEF Adds
  <2>10. Added(a[j], b[j], r[j], h[j + 1], e)
    BY <2>9, ByteAdder, Zenon
  <2>11. e[8] = h[j + 1]
           /\ \A i \in 0 .. 7 : Bit(r[j], i) = (Bit(a[j], i) + Bit(b[j], i) + e[i]) % 2
    BY <2>10, Zenon DEF Added
  <2> QED BY <2>3, <2>6, <2>8, <2>11
<1> DEFINE T == {k \in Bits : Good(k)}
<1> HIDE DEF Good
<1>5. \A j \in 0 .. 3 : carry[8 * j] = h[j]
  <2>1. carry[0] = h[0]
    BY <1>2
  <2>2. carry[8] = h[1]
    BY <1>4, <2>1
  <2>3. carry[16] = h[2]
    BY <1>4, <2>2
  <2>4. carry[24] = h[3]
    BY <1>4, <2>3
  <2> QED BY <2>1, <2>2, <2>3, <2>4
<1>6. \A j \in 0 .. 3, i \in 0 .. 7 : 8 * j + i \in T
  BY <1>4, <1>5 DEF Bits
<1>7. \A k \in Bits : k \in T
  <2> HIDE DEF T
  <2> QED BY <1>6, EveryBit, Zenon
<1> QED BY <1>3, <1>7

LEMMA AdcIs ==
  ASSUME NEW a \in Word, NEW b \in Word, NEW c \in {0, 1}
  PROVE  /\ Adc(a, b, c) \in Word
         /\ \A j \in 0 .. 3 : Adc(a, b, c)[j] + 256 * Carries(a, b, c)[j + 1]
                              = a[j] + b[j] + Carries(a, b, c)[j]
<1> DEFINE h == Carries(a, b, c)
           r == Adc(a, b, c)
<1>1. /\ h \in [0 .. 4 -> {0, 1}]
      /\ \A j \in 0 .. 3 : h[j + 1] = (a[j] + b[j] + h[j]) \div 256
  BY CarriesAre
<1>2. r = [j \in 0 .. 3 |-> (a[j] + b[j] + h[j]) % 256]
  BY Zenon DEF Adc
<1> HIDE DEF h, r
<1>3. ASSUME NEW j \in 0 .. 3
      PROVE  r[j] \in Byte /\ r[j] + 256 * h[j + 1] = a[j] + b[j] + h[j]
  <2>1. a[j] \in Byte /\ b[j] \in Byte /\ h[j] \in {0, 1}
    BY <1>1 DEF Word
  <2>2. /\ (a[j] + b[j] + h[j]) % 256 \in Byte
        /\ ((a[j] + b[j] + h[j]) % 256) + 256 * ((a[j] + b[j] + h[j]) \div 256)
             = a[j] + b[j] + h[j]
    BY <2>1, ByteTotal
  <2>3. /\ r[j] = (a[j] + b[j] + h[j]) % 256
        /\ h[j + 1] = (a[j] + b[j] + h[j]) \div 256
    BY <1>1, <1>2
  <2> QED BY <2>2, <2>3, Zenon
<1>4. r \in Word
  BY <1>2, <1>3 DEF Word
<1> QED BY <1>3, <1>4 DEF h, r

LEMMA Addition ==
  ASSUME NEW a \in Word, NEW b \in Word
  PROVE  Adc(a, b, 0) \in Word /\ IsSum(Adc(a, b, 0), a, b)
<1>1. Carries(a, b, 0) \in [0 .. 4 -> {0, 1}] /\ Carries(a, b, 0)[0] = 0
  BY CarriesAre
<1>2. /\ Adc(a, b, 0) \in Word
      /\ \A j \in 0 .. 3 : Adc(a, b, 0)[j] + 256 * Carries(a, b, 0)[j + 1]
                           = a[j] + b[j] + Carries(a, b, 0)[j]
  BY AdcIs
<1> QED BY <1>1, <1>2, SumByBytes

(* What the complement leaves out of the carry is a borrow.                *)
LEMMA Subtraction ==
  ASSUME NEW a \in Word, NEW b \in Word
  PROVE  Adc(a, Complement(b), 1) \in Word /\ IsSum(a, Adc(a, Complement(b), 1), b)
<1> DEFINE n == Complement(b)
           r == Adc(a, n, 1)
           h == Carries(a, n, 1)
           d == [j \in 0 .. 4 |-> 1 - h[j]]
<1>1. n \in Word /\ \A j \in 0 .. 3 : n[j] = 255 - b[j]
  BY ComplementIs DEF Complement
<1> HIDE DEF n
<1>2. h \in [0 .. 4 -> {0, 1}] /\ h[0] = 1
  BY <1>1, CarriesAre
<1>3. r \in Word /\ \A j \in 0 .. 3 : r[j] + 256 * h[j + 1] = a[j] + n[j] + h[j]
  BY <1>1, AdcIs
<1> HIDE DEF r, h
<1>4. d \in [0 .. 4 -> {0, 1}] /\ d[0] = 0
  BY <1>2
<1>5. ASSUME NEW j \in 0 .. 3 PROVE a[j] + 256 * d[j + 1] = r[j] + b[j] + d[j]
  <2>1. a[j] \in Byte /\ b[j] \in Byte /\ r[j] \in Byte /\ h[j] \in {0, 1} /\ h[j + 1] \in {0, 1}
    BY <1>2, <1>3 DEF Word
  <2>2. d[j] = 1 - h[j] /\ d[j + 1] = 1 - h[j + 1]
    OBVIOUS
  <2>3. r[j] + 256 * h[j + 1] = a[j] + (255 - b[j]) + h[j]
    BY <1>1, <1>3
  <2>4. a[j] + 256 * (1 - h[j + 1]) = r[j] + b[j] + (1 - h[j])
    <3> DEFINE x == a[j]
               y == b[j]
               z == r[j]
               c == h[j]
               e == h[j + 1]
    <3> HIDE DEF x, y, z, c, e
    <3>1. /\ x \in Byte /\ y \in Byte /\ z \in Byte /\ c \in {0, 1} /\ e \in {0, 1}
          /\ z + 256 * e = x + (255 - y) + c
      BY <2>1, <2>3 DEF x, y, z, c, e
    <3>2. x + 256 * (1 - e) = z + y + (1 - c)
      BY <3>1 DEF Byte
    <3> QED BY <3>2 DEF x, y, z, c, e
  <2> HIDE DEF d
  <2> QED BY <2>2, <2>4, Zenon
<1> HIDE DEF d
<1>6. IsSum(a, r, b)
  BY <1>3, <1>4, <1>5, SumByBytes
<1> QED BY <1>3, <1>6 DEF r, n

-----------------------------------------------------------------------------
(***************************************************************************)
(* Comparisons                                                             *)
(***************************************************************************)
DecidedAt(x, y, i) ==
  (\A l \in i + 1 .. 7 : Bit(x, l) = Bit(y, l)) /\ Bit(x, i) = 0 /\ Bit(y, i) = 1

LEMMA BitDecides ==
  ASSUME NEW x \in Byte, NEW y \in Byte, NEW i \in 0 .. 7, DecidedAt(x, y, i)
  PROVE  x < y
<1> DEFINE x0 == Bit(x, 0)  y0 == Bit(y, 0)  x1 == Bit(x, 1)  y1 == Bit(y, 1)
           x2 == Bit(x, 2)  y2 == Bit(y, 2)  x3 == Bit(x, 3)  y3 == Bit(y, 3)
           x4 == Bit(x, 4)  y4 == Bit(y, 4)  x5 == Bit(x, 5)  y5 == Bit(y, 5)
           x6 == Bit(x, 6)  y6 == Bit(y, 6)  x7 == Bit(x, 7)  y7 == Bit(y, 7)
<1>1. /\ x0 \in {0, 1} /\ x1 \in {0, 1} /\ x2 \in {0, 1} /\ x3 \in {0, 1}
      /\ x4 \in {0, 1} /\ x5 \in {0, 1} /\ x6 \in {0, 1} /\ x7 \in {0, 1}
  BY BitValue
<1>2. /\ y0 \in {0, 1} /\ y1 \in {0, 1} /\ y2 \in {0, 1} /\ y3 \in {0, 1}
      /\ y4 \in {0, 1} /\ y5 \in {0, 1} /\ y6 \in {0, 1} /\ y7 \in {0, 1}
  BY BitValue
<1>3. /\ x = Sum(x0, x1, x2, x3, x4, x5, x6, x7)
      /\ y = Sum(y0, y1, y2, y3, y4, y5, y6, y7)
  BY SumOfBits, Zenon
<1>4. /\ i = 0 => x0 < y0 /\ x1 = y1
      /\ i <= 1 => x2 = y2
      /\ i <= 2 => x3 = y3
      /\ i <= 3 => x4 = y4
      /\ i <= 4 => x5 = y5
      /\ i <= 5 => x6 = y6
      /\ i <= 6 => x7 = y7
  BY DEF DecidedAt
<1>5. /\ i = 1 => x1 < y1
      /\ i = 2 => x2 < y2
      /\ i = 3 => x3 < y3
      /\ i = 4 => x4 < y4
      /\ i = 5 => x5 < y5
      /\ i = 6 => x6 < y6
      /\ i = 7 => x7 < y7
  BY DEF DecidedAt
<1> HIDE DEF x0, x1, x2, x3, x4, x5, x6, x7, y0, y1, y2, y3, y4, y5, y6, y7
<1>6. CASE i = 0
  BY <1>1, <1>2, <1>3, <1>4, <1>5, <1>6 DEF Sum
<1>7. CASE i = 1
  BY <1>1, <1>2, <1>3, <1>4, <1>5, <1>7 DEF Sum
<1>8. CASE i = 2
  BY <1>1, <1>2, <1>3, <1>4, <1>5, <1>8 DEF Sum
<1>9. CASE i = 3
  BY <1>1, <1>2, <1>3, <1>4, <1>5, <1>9 DEF Sum
<1>10. CASE i = 4
  BY <1>1, <1>2, <1>3, <1>4, <1>5, <1>10 DEF Sum
<1>11. CASE i = 5
  BY <1>1, <1>2, <1>3, <1>4, <1>5, <1>11 DEF Sum
<1>12. CASE i = 6
  BY <1>1, <1>2, <1>3, <1>4, <1>5, <1>12 DEF Sum
<1>13. CASE i = 7
  BY <1>1, <1>2, <1>3, <1>4, <1>5, <1>13 DEF Sum
<1> QED BY <1>6, <1>7, <1>8, <1>9, <1>10, <1>11, <1>12, <1>13

LEMMA DecidingBit ==
  ASSUME NEW x \in Byte, NEW y \in Byte, x < y
  PROVE  \E i \in 0 .. 7 : DecidedAt(x, y, i)
<1> DEFINE Same(i) == Bit(x, i) = Bit(y, i)
<1>1. PICK i \in 0 .. 7 : ~Same(i) /\ \A l \in i + 1 .. 7 : Same(l)
  <2> SUFFICES ASSUME \A i \in 0 .. 7 : (\A l \in i + 1 .. 7 : Same(l)) => Same(i)
               PROVE  FALSE
    BY Zenon
  <2> HIDE DEF Same
  <2>1. Same(7)
    OBVIOUS
  <2>2. Same(6)
    <3>1. 6 \in 0 .. 7 /\ \A l \in 6 + 1 .. 7 : l = 7
      OBVIOUS
    <3> QED BY <2>1, <3>1
  <2>3. Same(5)
    <3>1. 5 \in 0 .. 7 /\ \A l \in 5 + 1 .. 7 : l = 6 \/ l = 7
      OBVIOUS
    <3> QED BY <2>1, <2>2, <3>1
  <2>4. Same(4)
    <3>1. 4 \in 0 .. 7 /\ \A l \in 4 + 1 .. 7 : l = 5 \/ l = 6 \/ l = 7
      OBVIOUS
    <3> QED BY <2>1, <2>2, <2>3, <3>1
  <2>5. Same(3)
    <3>1. 3 \in 0 .. 7 /\ \A l \in 3 + 1 .. 7 : l = 4 \/ l = 5 \/ l = 6 \/ l = 7
      OBVIOUS
    <3> QED BY <2>1, <2>2, <2>3, <2>4, <3>1
  <2>6. Same(2)
    <3>1. 2 \in 0 .. 7 /\ \A l \in 2 + 1 .. 7 : l = 3 \/ l = 4 \/ l = 5 \/ l = 6 \/ l = 7
      OBVIOUS
    <3> QED BY <2>1, <2>2, <2>3, <2>4, <2>5, <3>1
  <2>7. Same(1)
    <3>1. 1 \in 0 .. 7 /\ \A l \in 1 + 1 .. 7 : l = 2 \/ l = 3 \/ l = 4 \/ l = 5 \/ l = 6 \/ l = 7
      OBVIOUS
    <3> QED BY <2>1, <2>2, <2>3, <2>4, <2>5, <2>6, <3>1
  <2>8. Same(0)
    <3>1. /\ 0 \in 0 .. 7
          /\ \A l \in 0 + 1 .. 7 :
               l = 1 \/ l = 2 \/ l = 3 \/ l = 4 \/ l = 5 \/ l = 6 \/ l = 7
      OBVIOUS
    <3> QED BY <2>1, <2>2, <2>3, <2>4, <2>5, <2>6, <2>7, <3>1
  <2>9. \A i \in 0 .. 7 : Same(i)
    <3>1. \A i \in 0 .. 7 : i = 0 \/ i = 1 \/ i = 2 \/ i = 3 \/ i = 4 \/ i = 5 \/ i = 6 \/ i = 7
      OBVIOUS
    <3> QED BY <2>1, <2>2, <2>3, <2>4, <2>5, <2>6, <2>7, <2>8, <3>1
  <2>10. x = y
    BY <2>9, SameByte, Zenon DEF Same
  <2> QED BY <2>10 DEF Byte
<1>2. Bit(x, i) \in {0, 1} /\ Bit(y, i) \in {0, 1}
  BY BitValue
<1>3. CASE Bit(x, i) = 1
  <2>1. DecidedAt(y, x, i)
    BY <1>1, <1>2, <1>3 DEF DecidedAt
  <2>2. y < x
    BY <2>1, BitDecides
  <2> QED BY <2>2 DEF Byte
<1>4. CASE Bit(x, i) = 0
  BY <1>1, <1>2, <1>4 DEF DecidedAt
<1> QED BY <1>2, <1>3, <1>4

(* The highest bit that differs is in the highest byte that does.          *)
BelowAt(a, b, p) == (\A q \in p + 1 .. 3 : a[q] = b[q]) /\ a[p] < b[p]

LEMMA LessByBytes ==
  ASSUME NEW a \in Word, NEW b \in Word
  PROVE  Less(a, b, 0) <=> \E p \in 0 .. 3 : BelowAt(a, b, p)
<1> DEFINE Decides(k) == /\ \A j \in k + 1 .. 31 : BitOf(a, j) = BitOf(b, j)
                         /\ BitOf(a, k) = 0 /\ BitOf(b, k) = 1 - BitOf(a, k)
<1>1. Less(a, b, 0) <=> \E k \in Bits : Decides(k)
  BY DEF Less
<1>2. \A j \in 0 .. 3 : a[j] \in Byte /\ b[j] \in Byte
  BY DEF Word
<1>3. \A j \in 0 .. 3, i \in 0 .. 7 :
        BitOf(a, 8 * j + i) = Bit(a[j], i) /\ BitOf(b, 8 * j + i) = Bit(b[j], i)
  BY WordByte
<1>4. ASSUME NEW k \in Bits, Decides(k) PROVE \E p \in 0 .. 3 : BelowAt(a, b, p)
  <2> DEFINE p == k \div 8
             i == k % 8
  <2>1. p \in 0 .. 3 /\ i \in 0 .. 7 /\ k = 8 * p + i
    BY DEF Bits
  <2> HIDE DEF p, i
  <2>2. ASSUME NEW q \in p + 1 .. 3 PROVE a[q] = b[q]
    <3>1. q \in 0 .. 3 /\ \A l \in 0 .. 7 : 8 * q + l \in k + 1 .. 31
      BY <2>1
    <3>2. \A l \in 0 .. 7 : Bit(a[q], l) = Bit(b[q], l)
      BY <1>3, <1>4, <3>1
    <3> QED BY <1>2, <3>1, <3>2, SameByte
  <2>3. DecidedAt(a[p], b[p], i)
    <3>1. \A l \in i + 1 .. 7 : l \in 0 .. 7 /\ 8 * p + l \in k + 1 .. 31
      BY <2>1
    <3> QED BY <1>3, <1>4, <2>1, <3>1 DEF DecidedAt
  <2>4. a[p] < b[p]
    BY <1>2, <2>1, <2>3, BitDecides
  <2> QED BY <2>1, <2>2, <2>4 DEF BelowAt
<1>5. ASSUME NEW p \in 0 .. 3, BelowAt(a, b, p) PROVE \E k \in Bits : Decides(k)
  <2>1. PICK i \in 0 .. 7 : DecidedAt(a[p], b[p], i)
    BY <1>2, <1>5, DecidingBit DEF BelowAt
  <2> DEFINE k == 8 * p + i
  <2>2. k \in Bits
    BY DEF Bits
  <2>3. BitOf(a, k) = 0 /\ BitOf(b, k) = 1 - BitOf(a, k)
    BY <1>3, <2>1 DEF DecidedAt
  <2>4. ASSUME NEW j \in k + 1 .. 31 PROVE BitOf(a, j) = BitOf(b, j)
    <3> DEFINE q == j \div 8
               l == j % 8
    <3>1. q \in 0 .. 3 /\ l \in 0 .. 7 /\ j = 8 * q + l
      BY <2>2 DEF Bits
    <3> HIDE DEF q, l
    <3>2. (q = p /\ l \in i + 1 .. 7) \/ q \in p + 1 .. 3
      BY <3>1
    <3>3. Bit(a[q], l) = Bit(b[q], l)
      BY <1>5, <2>1, <3>2 DEF DecidedAt, BelowAt
    <3> QED BY <1>3, <3>1, <3>3
  <2> QED BY <2>2, <2>3, <2>4
<1> HIDE DEF Decides
<1> QED BY <1>1, <1>4, <1>5

LEMMA ByteCompared ==
  ASSUME NEW x \in Byte, NEW y \in Byte, NEW c \in {0, 1}
  PROVE  (x + (255 - y) + c) \div 256 = IF x < y THEN 0 ELSE IF x = y THEN c ELSE 1
<1>1. CASE x < y
  BY <1>1 DEF Byte
<1>2. CASE x = y
  BY <1>2 DEF Byte
<1>3. CASE x > y
  BY <1>3 DEF Byte
<1> QED BY <1>1, <1>2, <1>3 DEF Byte

LEMMA CompareUIs ==
  ASSUME NEW a \in Word, NEW b \in Word
  PROVE  CompareU(a, b) = IF Less(a, b, 0) THEN 0 ELSE 1
<1> DEFINE n == Complement(b)
           h == Carries(a, n, 1)
<1>1. n \in Word /\ \A j \in 0 .. 3 : n[j] = 255 - b[j]
  BY ComplementIs DEF Complement
<1>2. CompareU(a, b) = h[4]
  BY Zenon DEF CompareU
<1> HIDE DEF n
<1>3. /\ h \in [0 .. 4 -> {0, 1}] /\ h[0] = 1
      /\ \A j \in 0 .. 3 : h[j + 1] = (a[j] + n[j] + h[j]) \div 256
  BY <1>1, CarriesAre
<1> HIDE DEF h
<1>4. ASSUME NEW j \in 0 .. 3
      PROVE  h[j + 1] = IF a[j] < b[j] THEN 0 ELSE IF a[j] = b[j] THEN h[j] ELSE 1
  <2>1. a[j] \in Byte /\ b[j] \in Byte /\ h[j] \in {0, 1}
    BY <1>3 DEF Word
  <2>2. h[j + 1] = (a[j] + (255 - b[j]) + h[j]) \div 256
    BY <1>1, <1>3
  <2> QED BY <2>1, <2>2, ByteCompared
<1>5. /\ h[1] = IF a[0] < b[0] THEN 0 ELSE 1
      /\ h[2] = IF a[1] < b[1] THEN 0 ELSE IF a[1] = b[1] THEN h[1] ELSE 1
      /\ h[3] = IF a[2] < b[2] THEN 0 ELSE IF a[2] = b[2] THEN h[2] ELSE 1
      /\ h[4] = IF a[3] < b[3] THEN 0 ELSE IF a[3] = b[3] THEN h[3] ELSE 1
  BY <1>3, <1>4
<1>6. /\ BelowAt(a, b, 3) <=> a[3] < b[3]
      /\ BelowAt(a, b, 2) <=> a[3] = b[3] /\ a[2] < b[2]
      /\ BelowAt(a, b, 1) <=> a[3] = b[3] /\ a[2] = b[2] /\ a[1] < b[1]
      /\ BelowAt(a, b, 0) <=> a[3] = b[3] /\ a[2] = b[2] /\ a[1] = b[1] /\ a[0] < b[0]
  <2>1. \A q : /\ q \in 3 + 1 .. 3 <=> FALSE
               /\ q \in 2 + 1 .. 3 <=> q = 3
               /\ q \in 1 + 1 .. 3 <=> q = 3 \/ q = 2
               /\ q \in 0 + 1 .. 3 <=> q = 3 \/ q = 2 \/ q = 1
    OBVIOUS
  <2> QED BY <2>1, Zenon DEF BelowAt
<1>7. (\E p \in 0 .. 3 : BelowAt(a, b, p))
        <=> BelowAt(a, b, 3) \/ BelowAt(a, b, 2) \/ BelowAt(a, b, 1) \/ BelowAt(a, b, 0)
  <2>1. \A p : p \in 0 .. 3 <=> p = 3 \/ p = 2 \/ p = 1 \/ p = 0
    OBVIOUS
  <2> QED BY <2>1, Zenon
<1>8. a[0] \in Int /\ a[1] \in Int /\ a[2] \in Int /\ a[3] \in Int
  BY DEF Word, Byte
<1>9. b[0] \in Int /\ b[1] \in Int /\ b[2] \in Int /\ b[3] \in Int
  BY DEF Word, Byte
<1>10. h[4] = IF \E p \in 0 .. 3 : BelowAt(a, b, p) THEN 0 ELSE 1
  BY <1>5, <1>6, <1>7, <1>8, <1>9
<1> QED BY <1>2, <1>10, LessByBytes, Zenon

LEMMA CompareUZero ==
  ASSUME NEW a \in Word, NEW b \in Word
  PROVE  CompareU(a, b) = 0 <=> Less(a, b, 0)
<1>1. CASE Less(a, b, 0)
  <2>1. CompareU(a, b) = 0
    BY <1>1, CompareUIs, Zenon
  <2> QED BY <1>1, <2>1
<1>2. CASE ~Less(a, b, 0)
  <2>1. CompareU(a, b) = 1
    BY <1>2, CompareUIs, Zenon
  <2> QED BY <1>2, <2>1
<1> QED BY <1>1, <1>2

(* With both signs turned over the unsigned order is the signed one.       *)
LEMMA SignedLess ==
  ASSUME NEW a \in Word, NEW b \in Word
  PROVE  Less(SignFlipped(a), SignFlipped(b), 0) <=> Less(a, b, 1)
<1> DEFINE x == SignFlipped(a)
           y == SignFlipped(b)
<1>1. /\ \A k \in Bits : BitOf(x, k) = IF k = 31 THEN 1 - BitOf(a, 31) ELSE BitOf(a, k)
      /\ \A k \in Bits : BitOf(y, k) = IF k = 31 THEN 1 - BitOf(b, 31) ELSE BitOf(b, k)
  BY SignFlippedIs
<1> HIDE DEF x, y
<1>2. \A k \in Bits : BitOf(a, k) \in {0, 1} /\ BitOf(b, k) \in {0, 1}
  BY WordBit
<1>3. ASSUME NEW k \in Bits
      PROVE  (/\ \A j \in k + 1 .. 31 : BitOf(x, j) = BitOf(y, j)
              /\ BitOf(x, k) = 0 /\ BitOf(y, k) = 1 - BitOf(x, k))
               <=> (/\ \A j \in k + 1 .. 31 : BitOf(a, j) = BitOf(b, j)
                    /\ BitOf(a, k) = (IF k = 31 THEN 1 ELSE 0)
                    /\ BitOf(b, k) = 1 - BitOf(a, k))
  <2>1. ASSUME NEW j \in k + 1 .. 31 PROVE BitOf(x, j) = BitOf(y, j) <=> BitOf(a, j) = BitOf(b, j)
    <3>1. j \in Bits /\ 31 \in Bits
      BY DEF Bits
    <3> QED BY <1>1, <1>2, <3>1
  <2>2. (BitOf(x, k) = 0 /\ BitOf(y, k) = 1 - BitOf(x, k))
          <=> (/\ BitOf(a, k) = (IF k = 31 THEN 1 ELSE 0)
               /\ BitOf(b, k) = 1 - BitOf(a, k))
    BY <1>1, <1>2
  <2> QED BY <2>1, <2>2
<1>4. Less(x, y, 0) <=> Less(a, b, 1)
  BY <1>3 DEF Less
<1> QED BY <1>4 DEF x, y

-----------------------------------------------------------------------------
(***************************************************************************)
(* Shifts, one place a round                                               *)
(***************************************************************************)
ShiftedLeft(r, a, n) == \A k \in Bits : BitOf(r, k) = IF k >= n THEN BitOf(a, k - n) ELSE 0

ShiftedRight(r, a, n, fill) ==
  \A k \in Bits : BitOf(r, k) = IF k + n \in Bits THEN BitOf(a, k + n) ELSE fill

LEMMA NotYetShifted ==
  ASSUME NEW a, NEW fill
  PROVE  ShiftedLeft(a, a, 0) /\ ShiftedRight(a, a, 0, fill)
<1>1. \A k \in Bits : k >= 0 /\ k - 0 = k /\ k + 0 = k
  BY DEF Bits
<1> QED BY <1>1 DEF ShiftedLeft, ShiftedRight

LEMMA LeftRound ==
  ASSUME NEW a \in Word, NEW w \in Word, NEW n \in Nat, ShiftedLeft(w, a, n)
  PROVE  ShiftedLeft(Rlc(w, 0), a, n + 1)
<1> DEFINE r == Rlc(w, 0)
<1>1. \A k \in Bits : BitOf(r, k) = IF k = 0 THEN 0 ELSE BitOf(w, k - 1)
  BY RlcIs
<1> HIDE DEF r
<1>2. ASSUME NEW k \in Bits
      PROVE  BitOf(r, k) = IF k >= n + 1 THEN BitOf(a, k - (n + 1)) ELSE 0
  <2>1. CASE k = 0
    BY <1>1, <2>1
  <2>2. CASE k # 0
    <3>1. k - 1 \in Bits /\ (k - 1) - n = k - (n + 1) /\ (k - 1 >= n <=> k >= n + 1)
      BY <2>2 DEF Bits
    <3>2. BitOf(w, k - 1) = IF k - 1 >= n THEN BitOf(a, (k - 1) - n) ELSE 0
      BY <3>1 DEF ShiftedLeft
    <3> QED BY <1>1, <2>2, <3>1, <3>2
  <2> QED BY <2>1, <2>2
<1> QED BY <1>2 DEF ShiftedLeft, r

LEMMA RightRound ==
  ASSUME NEW a \in Word, NEW w \in Word, NEW n \in Nat, NEW fill \in {0, 1},
         ShiftedRight(w, a, n, fill)
  PROVE  ShiftedRight(Rrc(w, fill), a, n + 1, fill)
<1> DEFINE r == Rrc(w, fill)
<1>1. \A k \in Bits : BitOf(r, k) = IF k = 31 THEN fill ELSE BitOf(w, k + 1)
  BY RrcIs
<1> HIDE DEF r
<1>2. ASSUME NEW k \in Bits
      PROVE  BitOf(r, k) = IF k + (n + 1) \in Bits THEN BitOf(a, k + (n + 1)) ELSE fill
  <2>1. CASE k = 31
    <3>1. k + (n + 1) \notin Bits
      BY <2>1 DEF Bits
    <3> QED BY <1>1, <2>1, <3>1
  <2>2. CASE k # 31
    <3>1. k + 1 \in Bits /\ (k + 1) + n = k + (n + 1)
      BY <2>2 DEF Bits
    <3>2. BitOf(w, k + 1) = IF (k + 1) + n \in Bits THEN BitOf(a, (k + 1) + n) ELSE fill
      BY <3>1 DEF ShiftedRight
    <3> QED BY <1>1, <2>2, <3>1, <3>2
  <2> QED BY <2>1, <2>2
<1> QED BY <1>2 DEF ShiftedRight, r

-----------------------------------------------------------------------------
(***************************************************************************)
(* Logic and flags                                                         *)
(***************************************************************************)
Anded(a, b) == [k \in 0 .. 3 |-> And(a[k], b[k])]
Xored(a, b) == [k \in 0 .. 3 |-> Xor(a[k], b[k])]

LEMMA LogicIs ==
  ASSUME NEW a \in Word, NEW b \in Word
  PROVE  /\ Anded(a, b) \in Word /\ Xored(a, b) \in Word
         /\ \A k \in Bits : BitOf(Anded(a, b), k) = BitOf(a, k) * BitOf(b, k)
         /\ \A k \in Bits :
              BitOf(Xored(a, b), k) = IF BitOf(a, k) = BitOf(b, k) THEN 0 ELSE 1
<1> DEFINE and == Anded(a, b)
           xor == Xored(a, b)
           T == {k \in Bits : /\ BitOf(and, k) = BitOf(a, k) * BitOf(b, k)
                              /\ BitOf(xor, k) = IF BitOf(a, k) = BitOf(b, k) THEN 0 ELSE 1}
<1>1. \A j \in 0 .. 3 : a[j] \in Byte /\ b[j] \in Byte
  BY DEF Word
<1>2. \A j \in 0 .. 3 : and[j] = And(a[j], b[j]) /\ xor[j] = Xor(a[j], b[j])
  BY DEF Anded, Xored
<1>3. and \in Word /\ xor \in Word
  BY <1>1, AndBits, XorBits DEF Word, Anded, Xored
<1> HIDE DEF and, xor
<1>4. ASSUME NEW j \in 0 .. 3, NEW i \in 0 .. 7 PROVE 8 * j + i \in T
  <2>1. /\ BitOf(and, 8 * j + i) = Bit(and[j], i) /\ BitOf(xor, 8 * j + i) = Bit(xor[j], i)
        /\ BitOf(a, 8 * j + i) = Bit(a[j], i) /\ BitOf(b, 8 * j + i) = Bit(b[j], i)
    BY <1>3, WordByte, Zenon
  <2>2. /\ Bit(and[j], i) = Bit(a[j], i) * Bit(b[j], i)
        /\ Bit(xor[j], i) = IF Bit(a[j], i) = Bit(b[j], i) THEN 0 ELSE 1
    BY <1>1, <1>2, AndBits, XorBits
  <2>3. 8 * j + i \in Bits
    BY DEF Bits
  <2> QED BY <2>1, <2>2, <2>3, Zenon
<1>5. \A k \in Bits : k \in T
  <2> HIDE DEF T
  <2> QED BY <1>4, EveryBit, Zenon
<1> QED BY <1>3, <1>5 DEF and, xor

LEMMA OrIs ==
  ASSUME NEW a \in Word, NEW b \in Word
  PROVE  LET or == Complement(Anded(Complement(a), Complement(b)))
         IN  /\ or \in Word
             /\ \A k \in Bits : BitOf(or, k) = IF 1 \in {BitOf(a, k), BitOf(b, k)} THEN 1 ELSE 0
<1> DEFINE x == Complement(a)
           y == Complement(b)
           n == Anded(x, y)
<1>1. /\ x \in Word /\ \A k \in Bits : BitOf(x, k) = 1 - BitOf(a, k)
      /\ y \in Word /\ \A k \in Bits : BitOf(y, k) = 1 - BitOf(b, k)
  BY ComplementIs
<1> HIDE DEF x, y
<1>2. n \in Word /\ \A k \in Bits : BitOf(n, k) = BitOf(x, k) * BitOf(y, k)
  BY <1>1, LogicIs
<1> HIDE DEF n
<1>3. /\ Complement(n) \in Word
      /\ \A k \in Bits : BitOf(Complement(n), k) = 1 - BitOf(n, k)
  BY <1>2, ComplementIs
<1>4. \A u, v \in {0, 1} : 1 - (1 - u) * (1 - v) = IF 1 \in {u, v} THEN 1 ELSE 0
  OBVIOUS
<1>5. \A k \in Bits : BitOf(a, k) \in {0, 1} /\ BitOf(b, k) \in {0, 1}
  BY WordBit
<1>6. ASSUME NEW k \in Bits
      PROVE  BitOf(Complement(n), k) = IF 1 \in {BitOf(a, k), BitOf(b, k)} THEN 1 ELSE 0
  <2>1. BitOf(Complement(n), k) = 1 - (1 - BitOf(a, k)) * (1 - BitOf(b, k))
    BY <1>1, <1>2, <1>3
  <2> QED BY <1>4, <1>5, <2>1
<1> QED BY <1>3, <1>6 DEF n, x, y

LEMMA SameWord ==
  ASSUME NEW a \in Word, NEW b \in Word
  PROVE  (\A k \in 0 .. 3 : Xor(a[k], b[k]) = 0) <=> a = b
<1>1. \A j \in 0 .. 3 : a[j] \in Byte /\ b[j] \in Byte
  BY DEF Word
<1>2. a = b <=> \A j \in 0 .. 3 : a[j] = b[j]
  BY DEF Word
<1>3. ASSUME NEW j \in 0 .. 3 PROVE Xor(a[j], b[j]) = 0 <=> a[j] = b[j]
  <2>1. /\ Xor(a[j], b[j]) \in Byte
        /\ \A i \in 0 .. 7 : Bit(Xor(a[j], b[j]), i) = IF Bit(a[j], i) = Bit(b[j], i) THEN 0 ELSE 1
    BY <1>1, XorBits
  <2>2. 0 \in Byte /\ \A i \in 0 .. 7 : Bit(0, i) = 0
    BY Powers DEF Bit, Byte
  <2>3. ASSUME Xor(a[j], b[j]) = 0 PROVE a[j] = b[j]
    <3>1. \A i \in 0 .. 7 : Bit(a[j], i) = Bit(b[j], i)
      BY <2>1, <2>2, <2>3
    <3> QED BY <1>1, <3>1, SameByte
  <2>4. ASSUME a[j] = b[j] PROVE Xor(a[j], b[j]) = 0
    <3>1. \A i \in 0 .. 7 : Bit(Xor(a[j], b[j]), i) = Bit(0, i)
      BY <2>1, <2>2, <2>4
    <3> QED BY <2>1, <2>2, <3>1, SameByte
  <2> QED BY <2>3, <2>4
<1> QED BY <1>2, <1>3

LEMMA FlagIs ==
  ASSUME NEW f \in {0, 1}
  PROVE  LET r == [ZeroWord EXCEPT ![0] = f]
         IN  r \in Word /\ \A k \in Bits : BitOf(r, k) = IF k = 0 /\ f = 1 THEN 1 ELSE 0
<1> DEFINE r == [ZeroWord EXCEPT ![0] = f]
           T == {k \in Bits : BitOf(r, k) = IF k = 0 /\ f = 1 THEN 1 ELSE 0}
<1>1. r = [j \in 0 .. 3 |-> IF j = 0 THEN f ELSE 0]
  BY DEF ZeroWord
<1>2. r \in Word
  <2> HIDE DEF r
  <2>1. f \in Byte /\ 0 \in Byte
    BY DEF Byte
  <2> QED BY <1>1, <2>1 DEF Word
<1>3. /\ \A i \in 0 .. 7 : Bit(0, i) = 0
      /\ Bit(1, 0) = 1 /\ \A i \in 0 .. 7 : i # 0 => Bit(1, i) = 0
  BY Powers DEF Bit
<1> HIDE DEF r
<1>4. ASSUME NEW j \in 0 .. 3, NEW i \in 0 .. 7 PROVE 8 * j + i \in T
  <2>1. BitOf(r, 8 * j + i) = Bit(r[j], i)
    BY <1>2, WordByte, Zenon
  <2>2. 8 * j + i \in Bits /\ (8 * j + i = 0 <=> j = 0 /\ i = 0)
    BY DEF Bits
  <2> QED BY <1>1, <1>3, <2>1, <2>2
<1>5. \A k \in Bits : k \in T
  <2> HIDE DEF T
  <2> QED BY <1>4, EveryBit, Zenon
<1> QED BY <1>2, <1>5 DEF r

LEMMA GetImm12IIsWord ==
  ASSUME ir \in Word
  PROVE  GetImm12I \in Word
<1> DEFINE b0 == Upper % 256
           b1 == (Upper \div 256) % 16
<1>1. \A j \in 0 .. 3 : ir[j] \in Byte
  BY DEF Word
<1>2. Upper \in Nat
  <2>1. ir[2] \in Byte /\ ir[3] \in Byte
    BY <1>1
  <2>2. \A x, y \in Byte : (256 * x + y) \div 16 \in Nat
    BY DEF Byte
  <2> QED BY <2>1, <2>2 DEF Upper
<1>3. b0 \in Byte /\ b1 \in 0 .. 15
  BY <1>2 DEF Byte
<1> HIDE DEF b0, b1
<1>4. Word4(b0, b1 + 240, 255, 255) \in Word /\ Word4(b0, b1, 0, 0) \in Word
  BY <1>3 DEF Word4, Word, Byte
<1>5. GetImm12I = Extended12(b0, b1)
  BY Zenon DEF GetImm12I, b0, b1
<1> QED BY <1>4, <1>5 DEF Extended12

-----------------------------------------------------------------------------
(***************************************************************************)
(* The routines                                                            *)
(***************************************************************************)
LEMMA InstKept ==
  ASSUME UNCHANGED inst
  PROVE  /\ ir' = ir /\ operands' = operands
         /\ Funct3' = Funct3 /\ OpcodeIndex' = OpcodeIndex
         /\ BitOf(ir, 30)' = BitOf(ir, 30)
         /\ (operands.s1)' = operands.s1 /\ (operands.s2)' = operands.s2
BY DEF inst, fieldVars, Funct3, OpcodeIndex

LEMMA Funct3Is == ASSUME ir \in Word PROVE Funct3 \in 0 .. 7
<1>1. ir[1] \in Byte
  BY DEF Word
<1>2. \A x \in Byte : (x \div 16) % 8 \in 0 .. 7
  BY DEF Byte
<1> QED BY <1>1, <1>2 DEF Funct3

(* What RV32I asks of a result and of a branch, function by function.      *)
LEMMA ResultMeans ==
  ASSUME NEW r, NEW a, NEW b
  PROVE  /\ Funct3 = 0 /\ OpcodeIndex = Op /\ BitOf(ir, 30) = 1 =>
              (Result(r, a, b) <=> IsSum(a, r, b))
         /\ Funct3 = 0 /\ ~(OpcodeIndex = Op /\ BitOf(ir, 30) = 1) =>
              (Result(r, a, b) <=> IsSum(r, a, b))
         /\ Funct3 = 1 => (Result(r, a, b) <=> ShiftedLeft(r, a, b[0] % 32))
         /\ Funct3 = 2 =>
              (Result(r, a, b)
                 <=> \A k \in Bits : BitOf(r, k) = IF k = 0 /\ Less(a, b, 1) THEN 1 ELSE 0)
         /\ Funct3 = 3 =>
              (Result(r, a, b)
                 <=> \A k \in Bits : BitOf(r, k) = IF k = 0 /\ Less(a, b, 0) THEN 1 ELSE 0)
         /\ Funct3 = 4 =>
              (Result(r, a, b)
                 <=> \A k \in Bits : BitOf(r, k) = IF BitOf(a, k) = BitOf(b, k) THEN 0 ELSE 1)
         /\ Funct3 = 5 =>
              (Result(r, a, b)
                 <=> ShiftedRight(r, a, b[0] % 32,
                                  IF BitOf(ir, 30) = 1 THEN BitOf(a, 31) ELSE 0))
         /\ Funct3 = 6 =>
              (Result(r, a, b)
                 <=> \A k \in Bits :
                       BitOf(r, k) = IF 1 \in {BitOf(a, k), BitOf(b, k)} THEN 1 ELSE 0)
         /\ Funct3 = 7 =>
              (Result(r, a, b) <=> \A k \in Bits : BitOf(r, k) = BitOf(a, k) * BitOf(b, k))
<1>1. CASE Funct3 = 0
  BY <1>1 DEF Result, IsBits
<1>2. CASE Funct3 = 1
  BY <1>2 DEF Result, IsBits, ShiftedLeft
<1>3. CASE Funct3 = 2
  BY <1>3 DEF Result, IsBits
<1>4. CASE Funct3 = 3
  BY <1>4 DEF Result, IsBits
<1>5. CASE Funct3 = 4
  BY <1>5 DEF Result, IsBits
<1>6. CASE Funct3 = 5
  BY <1>6 DEF Result, IsBits, ShiftedRight
<1>7. CASE Funct3 = 6
  BY <1>7 DEF Result, IsBits
<1>8. CASE Funct3 = 7
  BY <1>8 DEF Result, IsBits
<1> QED BY <1>1, <1>2, <1>3, <1>4, <1>5, <1>6, <1>7, <1>8

LEMMA TakenMeans ==
  ASSUME NEW a, NEW b
  PROVE  /\ Funct3 = 0 => (Taken(a, b) <=> a = b)
         /\ Funct3 = 1 => (Taken(a, b) <=> a # b)
         /\ Funct3 = 4 => (Taken(a, b) <=> Less(a, b, 1))
         /\ Funct3 = 5 => (Taken(a, b) <=> ~Less(a, b, 1))
         /\ Funct3 = 6 => (Taken(a, b) <=> Less(a, b, 0))
         /\ Funct3 = 7 => (Taken(a, b) <=> ~Less(a, b, 0))
<1>1. CASE Funct3 = 0
  BY <1>1 DEF Taken
<1>2. CASE Funct3 = 1
  BY <1>2 DEF Taken
<1>3. CASE Funct3 = 4
  BY <1>3 DEF Taken
<1>4. CASE Funct3 = 5
  BY <1>4 DEF Taken
<1>5. CASE Funct3 = 6
  BY <1>5 DEF Taken
<1>6. CASE Funct3 = 7
  BY <1>6 DEF Taken
<1> QED BY <1>1, <1>2, <1>3, <1>4, <1>5, <1>6

LEMMA BranchGoes ==
  ASSUME NEW holds \in BOOLEAN, BranchIf(holds), NEW t,
         t <=> IF Funct3 % 2 = 1 THEN ~holds ELSE holds
  PROVE  at' = IF t THEN "branch_taken_1" ELSE "main_loop"
<1> DEFINE odd == Funct3 % 2 = 1
<1>1. odd \in BOOLEAN /\ (t <=> IF odd THEN ~holds ELSE holds)
  OBVIOUS
<1>2. at' = IF holds # odd THEN "branch_taken_1" ELSE "main_loop"
  BY Zenon DEF BranchIf
<1> HIDE DEF odd
<1> QED BY <1>1, <1>2

LEMMA Delivered ==
  ASSUME ir \in Word, UNCHANGED inst, at' = "put_rd_main_loop", OpcodeIndex # Branch,
         Result(dest', operands.s1, operands.s2)
  PROVE  Correct'
<1>1. OpcodeIndex' # Branch
  BY InstKept
<1>2. Result(dest, operands.s1, operands.s2)'
  <2> DEFINE a == operands.s1
             b == operands.s2
             f == Funct3
             o == OpcodeIndex
             t == BitOf(ir, 30)
  <2>1. /\ a' = a /\ b' = b /\ f' = f /\ o' = o /\ t' = t
    BY InstKept
  <2>2. f \in 0 .. 7
    BY Funct3Is
  <2>3. CASE f = 0
    <3>1. f' = 0
      BY <2>1, <2>3
    <3> QED BY <2>1, <2>3, <3>1 DEF Result, IsBits
  <2>4. CASE f = 1
    <3>1. f' = 1
      BY <2>1, <2>4
    <3> QED BY <2>1, <2>4, <3>1 DEF Result, IsBits
  <2>5. CASE f = 2
    <3>1. f' = 2
      BY <2>1, <2>5
    <3> QED BY <2>1, <2>5, <3>1 DEF Result, IsBits
  <2>6. CASE f = 3
    <3>1. f' = 3
      BY <2>1, <2>6
    <3> QED BY <2>1, <2>6, <3>1 DEF Result, IsBits
  <2>7. CASE f = 4
    <3>1. f' = 4
      BY <2>1, <2>7
    <3> QED BY <2>1, <2>7, <3>1 DEF Result, IsBits
  <2>8. CASE f = 5
    <3>1. f' = 5
      BY <2>1, <2>8
    <3> QED BY <2>1, <2>8, <3>1 DEF Result, IsBits
  <2>9. CASE f = 6
    <3>1. f' = 6
      BY <2>1, <2>9
    <3> QED BY <2>1, <2>9, <3>1 DEF Result, IsBits
  <2>10. CASE f = 7
    <3>1. f' = 7
      BY <2>1, <2>10
    <3> QED BY <2>1, <2>10, <3>1 DEF Result, IsBits
  <2> QED BY <2>2, <2>3, <2>4, <2>5, <2>6, <2>7, <2>8, <2>9, <2>10
<1> QED BY <1>1, <1>2 DEF Correct

LEMMA Decided ==
  ASSUME UNCHANGED inst, OpcodeIndex = Branch,
         at' = IF Taken(operands.s1, operands.s2) THEN "branch_taken_1" ELSE "main_loop"
  PROVE  Correct'
<1>1. OpcodeIndex' = Branch
  BY InstKept
<1>2. Taken(operands.s1, operands.s2)' <=> Taken(operands.s1, operands.s2)
  BY InstKept DEF Taken
<1> QED BY <1>1, <1>2 DEF Correct

(* Where a routine hands its result to the interpreter.                    *)
HandedOn == at \in {"put_rd_main_loop", "branch_taken_1", "main_loop"}

Count == operands.s2[0] % 32
Fill == IF BitOf(ir, 30) = 1 THEN BitOf(operands.s1, 31) ELSE 0

WordsInside ==
  /\ ir \in Word /\ s1 \in Word /\ s2 \in Word /\ dest \in Word
  /\ operands \in [s1 : Word, s2 : Word]

(* A shift has done as many places as rounds are gone from its count.      *)
Shifting ==
  /\ at \in {"sll_loop", "srl_sra_loop"} =>
       OpcodeIndex # Branch /\ s1 = operands.s1 /\ Remaining(s2) <= Count
  /\ at = "sll_loop" =>
       Funct3 = 1 /\ ShiftedLeft(dest, operands.s1, Count - Remaining(s2))
  /\ at = "srl_sra_loop" =>
       Funct3 = 5 /\ ShiftedRight(dest, operands.s1, Count - Remaining(s2), Fill)

AluInv ==
  /\ WordsInside
  /\ at = "dispatch_funct3" => s1 = operands.s1 /\ s2 = operands.s2
  /\ Shifting
  /\ HandedOn => Correct

LEMMA AluStart == AluInit => AluInv
<1> SUFFICES ASSUME AluInit PROVE AluInv
  OBVIOUS
<1>1. ir \in Word
  BY AluAssumption, FieldsAssumption DEF AluInit, Word, Byte
<1>2. dest \in Word /\ s1 = dest /\ s2 = dest /\ operands = [s1 |-> s1, s2 |-> s2]
  BY AluAssumption DEF AluInit
<1> QED BY <1>1, <1>2 DEF AluInit, AluInv, WordsInside, Shifting, HandedOn

LEMMA RegisterRead ==
  ASSUME ir \in Word, GetRs1
  PROVE  s1' \in Word
<1>1. ZeroWord \in Word
  BY DEF ZeroWord, Word, Byte
<1> QED BY <1>1, AluAssumption DEF GetRs1

LEMMA SecondRead ==
  ASSUME ir \in Word, GetRs1, GetRs2
  PROVE  s2' \in Word
<1>1. ZeroWord \in Word
  BY DEF ZeroWord, Word, Byte
<1>2. s1' \in Word
  BY RegisterRead
<1> QED BY <1>1, <1>2, AluAssumption DEF GetRs2

LEMMA Dispatches ==
  ASSUME AluInv, InstOp \/ InstOpImm \/ InstBranch
  PROVE  AluInv'
<1>1. ir \in Word
  BY DEF AluInv, WordsInside
<1>2. /\ at' = "dispatch_funct3" /\ operands' = [s1 |-> s1', s2 |-> s2']
      /\ dest' = dest /\ ir' = ir
  BY DEF InstOp, InstOpImm, InstBranch, DispatchFunct3, fieldVars
<1>3. s1' \in Word /\ s2' \in Word
  BY <1>1, RegisterRead, SecondRead, GetImm12IIsWord DEF InstOp, InstOpImm, InstBranch
<1> QED BY <1>2, <1>3 DEF AluInv, WordsInside, Shifting, HandedOn

(* A step that delivers a result leaves nothing else to show.              *)
LEMMA Ends ==
  ASSUME AluInv, UNCHANGED inst, at' \in {"put_rd_main_loop", "branch_taken_1", "main_loop"},
         s1' \in Word, s2' \in Word, dest' \in Word, Correct'
  PROVE  AluInv'
<1>1. ir' = ir /\ operands' = operands
  BY InstKept
<1>2. at' # "dispatch_funct3" /\ at' # "sll_loop" /\ at' # "srl_sra_loop"
  OBVIOUS
<1>3. WordsInside'
  BY <1>1 DEF AluInv, WordsInside
<1> QED BY <1>2, <1>3 DEF AluInv, Shifting, HandedOn

LEMMA AddsOrSubtracts ==
  ASSUME AluInv, InstAddSub
  PROVE  AluInv'
<1> DEFINE a == operands.s1
           b == operands.s2
<1>1. /\ OpcodeIndex # Branch /\ Funct3 = 0 /\ s1 = a /\ s2 = b
      /\ at' = "put_rd_main_loop" /\ s1' = s1 /\ UNCHANGED inst
  BY DEF InstAddSub, Dispatched, Put, AluInv
<1>2. a \in Word /\ b \in Word /\ ir \in Word
  BY DEF AluInv, WordsInside
<1>3. CASE OpcodeIndex = Op /\ BitOf(ir, 30) = 1
  <2>1. s2' = Complement(b) /\ dest' = Adc(a, Complement(b), 1)
    BY <1>1, <1>3 DEF InstAddSub, Put
  <2>2. dest' \in Word /\ s2' \in Word /\ IsSum(a, dest', b)
    BY <1>2, <2>1, Subtraction, ComplementIs
  <2>3. Result(dest', a, b)
    BY <1>1, <1>3, <2>2, ResultMeans
  <2>4. Correct'
    BY <1>1, <1>2, <2>3, Delivered
  <2> QED BY <1>1, <1>2, <2>2, <2>4, Ends
<1>4. CASE ~(OpcodeIndex = Op /\ BitOf(ir, 30) = 1)
  <2>1. s2' = b /\ dest' = Adc(a, b, 0)
    BY <1>1, <1>4 DEF InstAddSub, Put
  <2>2. dest' \in Word /\ s2' \in Word /\ IsSum(dest', a, b)
    BY <1>2, <2>1, Addition
  <2>3. Result(dest', a, b)
    BY <1>1, <1>4, <2>2, ResultMeans
  <2>4. Correct'
    BY <1>1, <1>2, <2>3, Delivered
  <2> QED BY <1>1, <1>2, <2>2, <2>4, Ends
<1> QED BY <1>3, <1>4

LEMMA RemainingIs ==
  ASSUME NEW w \in Word
  PROVE  /\ Remaining(w) \in 0 .. 31
         /\ Remaining(w) # 0 =>
              /\ [w EXCEPT ![0] = Remaining(w) - 1] \in Word
              /\ Remaining([w EXCEPT ![0] = Remaining(w) - 1]) = Remaining(w) - 1
<1> DEFINE n == Remaining(w)
           v == [w EXCEPT ![0] = n - 1]
<1>1. n \in 0 .. 31
  <2>1. w[0] \in Byte
    BY DEF Word
  <2>2. \A x \in Byte : x % 32 \in 0 .. 31
    BY DEF Byte
  <2> QED BY <2>1, <2>2 DEF Remaining
<1> HIDE DEF n
<1>2. ASSUME n # 0 PROVE v \in Word /\ Remaining(v) = n - 1
  <2>1. n - 1 \in Byte /\ (n - 1) % 32 = n - 1
    BY <1>1, <1>2 DEF Byte
  <2>2. v[0] = n - 1
    BY DEF Word
  <2>3. v \in Word
    BY <2>1 DEF Word
  <2> QED BY <2>1, <2>2, <2>3 DEF Remaining
<1> QED BY <1>1, <1>2 DEF n

LEMMA BeginsShift ==
  ASSUME AluInv, InstShift
  PROVE  AluInv'
<1>1. /\ OpcodeIndex # Branch /\ s1 = operands.s1 /\ s2 = operands.s2
      /\ dest' = s1 /\ s1' = s1 /\ s2' = s2 /\ UNCHANGED inst
      /\ \/ Funct3 = 1 /\ at' = "sll_loop"
         \/ Funct3 = 5 /\ at' = "srl_sra_loop"
  BY DEF InstShift, Dispatched, AluInv
<1>2. /\ ir' = ir /\ operands' = operands /\ Funct3' = Funct3 /\ OpcodeIndex' = OpcodeIndex
  BY <1>1, InstKept
<1>3. WordsInside'
  BY <1>1, <1>2 DEF AluInv, WordsInside
<1>4. (Count - Remaining(s2))' = 0 /\ (Remaining(s2) <= Count)'
  <2>1. Remaining(s2) \in 0 .. 31
    BY RemainingIs DEF AluInv, WordsInside
  <2>2. Remaining(s2)' = Remaining(s2) /\ Count' = Remaining(s2)
    BY <1>1, <1>2 DEF Remaining, Count
  <2> QED BY <2>1, <2>2
<1>5. /\ ShiftedLeft(dest, operands.s1, Count - Remaining(s2))'
      /\ ShiftedRight(dest, operands.s1, Count - Remaining(s2), Fill)'
  BY <1>1, <1>2, <1>4, NotYetShifted
<1> QED BY <1>1, <1>2, <1>3, <1>4, <1>5 DEF AluInv, Shifting, HandedOn

LEMMA RoundLeft ==
  ASSUME AluInv, SllLoop
  PROVE  AluInv'
<1> DEFINE n == Count - Remaining(s2)
<1>1. /\ at = "sll_loop" /\ at' = at /\ s1' = s1 /\ UNCHANGED inst
      /\ Remaining(s2) # 0 /\ s2' = [s2 EXCEPT ![0] = Remaining(s2) - 1]
      /\ dest' = Rlc(dest, 0)
  BY DEF SllLoop, CountedDown
<1>2. /\ OpcodeIndex # Branch /\ s1 = operands.s1 /\ Remaining(s2) <= Count
      /\ Funct3 = 1 /\ ShiftedLeft(dest, operands.s1, n)
  BY <1>1 DEF AluInv, Shifting
<1>3. /\ ir' = ir /\ operands' = operands /\ Funct3' = Funct3 /\ OpcodeIndex' = OpcodeIndex
  BY <1>1, InstKept
<1>4. /\ s2 \in Word /\ dest \in Word /\ operands.s1 \in Word /\ operands.s2 \in Word
  BY DEF AluInv, WordsInside
<1>5. /\ Remaining(s2) \in 0 .. 31 /\ s2' \in Word /\ Remaining(s2)' = Remaining(s2) - 1
  BY <1>1, <1>4, RemainingIs
<1>6. Count \in 0 .. 31 /\ Count' = Count
  BY <1>3, <1>4, RemainingIs DEF Count, Remaining
<1>7. n \in Nat /\ n' = n + 1 /\ (Remaining(s2) <= Count)'
  BY <1>2, <1>5, <1>6
<1> HIDE DEF n
<1>8. dest' \in Word /\ ShiftedLeft(dest', operands.s1, n + 1)
  BY <1>1, <1>2, <1>4, <1>7, LeftRound, RlcIs
<1>9. ShiftedLeft(dest, operands.s1, Count - Remaining(s2))'
  BY <1>3, <1>7, <1>8 DEF n
<1>10. WordsInside'
  BY <1>1, <1>3, <1>5, <1>8 DEF AluInv, WordsInside
<1> QED BY <1>1, <1>2, <1>3, <1>7, <1>9, <1>10 DEF AluInv, Shifting, HandedOn

LEMMA RoundRight ==
  ASSUME AluInv, SrlSraLoop
  PROVE  AluInv'
<1> DEFINE n == Count - Remaining(s2)
<1>1. /\ at = "srl_sra_loop" /\ at' = at /\ s1' = s1 /\ UNCHANGED inst
      /\ Remaining(s2) # 0 /\ s2' = [s2 EXCEPT ![0] = Remaining(s2) - 1]
      /\ dest' = Rrc(dest, IF BitOf(ir, 30) = 1 THEN s1[3] \div 128 ELSE 0)
  BY DEF SrlSraLoop, CountedDown
<1>2. /\ OpcodeIndex # Branch /\ s1 = operands.s1 /\ Remaining(s2) <= Count
      /\ Funct3 = 5 /\ ShiftedRight(dest, operands.s1, n, Fill)
  BY <1>1 DEF AluInv, Shifting
<1>3. /\ ir' = ir /\ operands' = operands /\ Funct3' = Funct3 /\ OpcodeIndex' = OpcodeIndex
      /\ Fill' = Fill
  BY <1>1, InstKept DEF Fill
<1>4. /\ s2 \in Word /\ dest \in Word /\ operands.s1 \in Word /\ operands.s2 \in Word
  BY DEF AluInv, WordsInside
<1>5. /\ Remaining(s2) \in 0 .. 31 /\ s2' \in Word /\ Remaining(s2)' = Remaining(s2) - 1
  BY <1>1, <1>4, RemainingIs
<1>6. Count \in 0 .. 31 /\ Count' = Count
  BY <1>3, <1>4, RemainingIs DEF Count, Remaining
<1>7. n \in Nat /\ n' = n + 1 /\ (Remaining(s2) <= Count)'
  BY <1>2, <1>5, <1>6
<1>8. Fill \in {0, 1} /\ dest' = Rrc(dest, Fill)
  <2>1. BitOf(operands.s1, 31) \in {0, 1}
    BY <1>4, WordBit DEF Bits
  <2>2. operands.s1[3] \in Byte
    BY <1>4 DEF Word
  <2>3. BitOf(operands.s1, 8 * 3 + 7) = Bit(operands.s1[3], 7)
    BY <1>4, WordByte
  <2>4. operands.s1[3] \div 128 = BitOf(operands.s1, 31)
    BY <2>2, <2>3, EndBits
  <2> QED BY <1>1, <1>2, <2>1, <2>4 DEF Fill
<1> HIDE DEF n
<1>9. dest' \in Word /\ ShiftedRight(dest', operands.s1, n + 1, Fill)
  BY <1>2, <1>4, <1>7, <1>8, RightRound, RrcIs
<1>10. ShiftedRight(dest, operands.s1, Count - Remaining(s2), Fill)'
  BY <1>3, <1>7, <1>9 DEF n
<1>11. WordsInside'
  BY <1>1, <1>3, <1>5, <1>9 DEF AluInv, WordsInside
<1> QED BY <1>1, <1>2, <1>3, <1>7, <1>10, <1>11 DEF AluInv, Shifting, HandedOn

LEMMA EndsShift ==
  ASSUME AluInv, ShiftDone
  PROVE  AluInv'
<1>1. /\ at \in {"sll_loop", "srl_sra_loop"} /\ Remaining(s2) = 0 /\ at' = "put_rd_main_loop"
      /\ s1' = s1 /\ s2' = s2 /\ dest' = dest /\ UNCHANGED inst
  BY DEF ShiftDone
<1>2. s1 \in Word /\ s2 \in Word /\ dest \in Word /\ ir \in Word /\ operands.s2 \in Word
  BY DEF AluInv, WordsInside
<1>3. Count \in 0 .. 31 /\ Count - Remaining(s2) = Count
  <2>1. Count \in 0 .. 31
    BY <1>2, RemainingIs DEF Count, Remaining
  <2> QED BY <1>1, <2>1
<1>4. OpcodeIndex # Branch
  BY <1>1 DEF AluInv, Shifting
<1>5. Result(dest', operands.s1, operands.s2)
  <2>1. CASE at = "sll_loop"
    <3>1. Funct3 = 1 /\ ShiftedLeft(dest, operands.s1, Count)
      BY <1>3, <2>1 DEF AluInv, Shifting
    <3> QED BY <1>1, <3>1, ResultMeans DEF Count
  <2>2. CASE at = "srl_sra_loop"
    <3>1. Funct3 = 5 /\ ShiftedRight(dest, operands.s1, Count, Fill)
      BY <1>3, <2>2 DEF AluInv, Shifting
    <3> QED BY <1>1, <3>1, ResultMeans DEF Count, Fill
  <2> QED BY <1>1, <2>1, <2>2
<1>6. Correct'
  BY <1>1, <1>2, <1>4, <1>5, Delivered
<1> QED BY <1>1, <1>2, <1>6, Ends

LEMMA SetsFlag ==
  ASSUME AluInv, InstSlt \/ InstSltu
  PROVE  AluInv'
<1> DEFINE a == operands.s1
           b == operands.s2
           c == CompareU(s1', s2')
<1>1. /\ OpcodeIndex # Branch /\ s1 = a /\ s2 = b /\ at' = "put_rd_main_loop" /\ UNCHANGED inst
      /\ dest' = [ZeroWord EXCEPT ![0] = 1 - c]
      /\ \/ Funct3 = 2 /\ s1' = SignFlipped(a) /\ s2' = SignFlipped(b)
         \/ Funct3 = 3 /\ s1' = a /\ s2' = b
  BY DEF InstSlt, InstSltu, Dispatched, PutFlag, Put, AluInv
<1>2. a \in Word /\ b \in Word /\ ir \in Word
  BY DEF AluInv, WordsInside
<1>3. s1' \in Word /\ s2' \in Word
  BY <1>1, <1>2, SignFlippedIs
<1> DEFINE f == 1 - c
<1>4. f \in {0, 1} /\ (f = 1 <=> Less(s1', s2', 0))
  <2> DEFINE x == s1'
             y == s2'
  <2>1. x \in Word /\ y \in Word
    BY <1>3
  <2> HIDE DEF x, y
  <2>2. CompareU(x, y) = 0 <=> Less(x, y, 0)
    BY <2>1, CompareUZero, Zenon
  <2>3. CompareU(x, y) \in {0, 1}
    BY <2>1, CompareUIs
  <2> QED BY <2>2, <2>3 DEF x, y
<1>5. /\ dest' \in Word
      /\ \A k \in Bits : BitOf(dest', k) = IF k = 0 /\ f = 1 THEN 1 ELSE 0
  <2>1. dest' = [ZeroWord EXCEPT ![0] = f]
    BY <1>1
  <2> HIDE DEF f
  <2> QED BY <1>4, <2>1, FlagIs
<1> HIDE DEF f
<1>6. Result(dest', a, b)
  <2>1. CASE Funct3 = 2
    <3>1. f = 1 <=> Less(a, b, 1)
      BY <1>1, <1>2, <1>4, <2>1, SignedLess
    <3> QED BY <1>5, <2>1, <3>1, ResultMeans
  <2>2. CASE Funct3 = 3
    <3>1. f = 1 <=> Less(a, b, 0)
      BY <1>1, <1>4, <2>2
    <3> QED BY <1>5, <2>2, <3>1, ResultMeans
  <2> QED BY <1>1, <2>1, <2>2
<1>7. Correct'
  BY <1>1, <1>2, <1>6, Delivered
<1> QED BY <1>1, <1>3, <1>5, <1>7, Ends

LEMMA DoesLogic ==
  ASSUME AluInv, InstXor \/ InstOr \/ InstAnd
  PROVE  AluInv'
<1> DEFINE a == operands.s1
           b == operands.s2
<1>1. /\ OpcodeIndex # Branch /\ s1 = a /\ s2 = b /\ at' = "put_rd_main_loop" /\ UNCHANGED inst
      /\ s1' = a
  BY DEF InstXor, InstOr, InstAnd, Dispatched, Put, AluInv
<1>2. a \in Word /\ b \in Word /\ ir \in Word
  BY DEF AluInv, WordsInside
<1>3. CASE InstXor
  <2>1. Funct3 = 4 /\ s2' = b /\ dest' = Xored(a, b)
    BY <1>1, <1>3 DEF InstXor, Dispatched, Put, Xored
  <2>2. /\ dest' \in Word
        /\ \A k \in Bits : BitOf(dest', k) = IF BitOf(a, k) = BitOf(b, k) THEN 0 ELSE 1
    BY <1>2, <2>1, LogicIs
  <2>3. Result(dest', a, b)
    BY <2>1, <2>2, ResultMeans
  <2> QED BY <1>1, <1>2, <2>1, <2>2, <2>3, Delivered, Ends
<1>4. CASE InstOr
  <2>1. /\ Funct3 = 6 /\ s2' = Complement(b)
        /\ dest' = Complement(Anded(Complement(a), Complement(b)))
    BY <1>1, <1>4 DEF InstOr, Dispatched, Put, Anded
  <2>2. /\ dest' \in Word /\ s2' \in Word
        /\ \A k \in Bits : BitOf(dest', k) = IF 1 \in {BitOf(a, k), BitOf(b, k)} THEN 1 ELSE 0
    BY <1>2, <2>1, OrIs, ComplementIs
  <2>3. Result(dest', a, b)
    BY <2>1, <2>2, ResultMeans
  <2> QED BY <1>1, <1>2, <2>1, <2>2, <2>3, Delivered, Ends
<1>5. CASE InstAnd
  <2>1. Funct3 = 7 /\ s2' = b /\ dest' = Anded(a, b)
    BY <1>1, <1>5 DEF InstAnd, Dispatched, Put, Anded
  <2>2. /\ dest' \in Word
        /\ \A k \in Bits : BitOf(dest', k) = BitOf(a, k) * BitOf(b, k)
    BY <1>2, <2>1, LogicIs
  <2>3. Result(dest', a, b)
    BY <2>1, <2>2, ResultMeans
  <2> QED BY <1>1, <1>2, <2>1, <2>2, <2>3, Delivered, Ends
<1> QED BY <1>3, <1>4, <1>5

LEMMA Branches ==
  ASSUME AluInv, InstBeqBne \/ InstBltBge \/ InstBltuBgeu
  PROVE  AluInv'
<1> DEFINE a == operands.s1
           b == operands.s2
           t == Taken(a, b)
<1>1. /\ OpcodeIndex = Branch /\ s1 = a /\ s2 = b /\ UNCHANGED inst /\ dest' = dest
  BY DEF InstBeqBne, InstBltBge, InstBltuBgeu, BranchIf, AluInv
<1>2. a \in Word /\ b \in Word /\ ir \in Word /\ dest \in Word
  BY DEF AluInv, WordsInside
<1>4. CASE InstBeqBne
  <2> DEFINE holds == \A k \in 0 .. 3 : Xor(s1[k], s2[k]) = 0
  <2>1. Funct3 \in {0, 1} /\ s1' = a /\ s2' = b /\ holds \in BOOLEAN /\ BranchIf(holds)
    BY <1>1, <1>4 DEF InstBeqBne
  <2>2. holds <=> a = b
    BY <1>1, <1>2, SameWord
  <2> HIDE DEF holds
  <2>3. t <=> IF Funct3 % 2 = 1 THEN ~holds ELSE holds
    BY <2>1, <2>2, TakenMeans
  <2>4. at' = IF t THEN "branch_taken_1" ELSE "main_loop"
    BY <2>1, <2>3, BranchGoes
  <2> QED BY <1>1, <1>2, <2>1, <2>4, Decided, Ends
<1>5. CASE InstBltBge
  <2> DEFINE holds == CompareU(s1', s2') = 0
  <2>1. /\ Funct3 \in {4, 5} /\ s1' = SignFlipped(a) /\ s2' = SignFlipped(b)
        /\ holds \in BOOLEAN /\ BranchIf(holds)
    BY <1>1, <1>5 DEF InstBltBge
  <2>2. s1' \in Word /\ s2' \in Word
    BY <1>2, <2>1, SignFlippedIs
  <2>3. holds <=> Less(a, b, 1)
    <3> DEFINE x == SignFlipped(a)
               y == SignFlipped(b)
    <3>1. x \in Word /\ y \in Word /\ (Less(x, y, 0) <=> Less(a, b, 1))
      BY <1>2, SignFlippedIs, SignedLess
    <3>2. holds <=> CompareU(x, y) = 0
      BY <2>1
    <3> HIDE DEF x, y, holds
    <3> QED BY <3>1, <3>2, CompareUZero, Zenon
  <2> HIDE DEF holds
  <2>4. t <=> IF Funct3 % 2 = 1 THEN ~holds ELSE holds
    BY <2>1, <2>3, TakenMeans
  <2>5. at' = IF t THEN "branch_taken_1" ELSE "main_loop"
    BY <2>1, <2>4, BranchGoes
  <2> QED BY <1>1, <1>2, <2>2, <2>5, Decided, Ends
<1>6. CASE InstBltuBgeu
  <2> DEFINE holds == CompareU(s1, s2) = 0
  <2>1. /\ Funct3 \in {6, 7} /\ s1' = a /\ s2' = b
        /\ holds \in BOOLEAN /\ BranchIf(holds)
    BY <1>1, <1>6 DEF InstBltuBgeu
  <2>2. holds <=> Less(a, b, 0)
    BY <1>1, <1>2, CompareUZero, Zenon
  <2> HIDE DEF holds
  <2>3. t <=> IF Funct3 % 2 = 1 THEN ~holds ELSE holds
    BY <2>1, <2>2, TakenMeans
  <2>4. at' = IF t THEN "branch_taken_1" ELSE "main_loop"
    BY <2>1, <2>3, BranchGoes
  <2> QED BY <1>1, <1>2, <2>1, <2>4, Decided, Ends
<1> QED BY <1>4, <1>5, <1>6

LEMMA Decodes ==
  ASSUME AluInv, DecodeOnly
  PROVE  AluInv'
<1>1. /\ at = "inst_32bit" /\ at' = at /\ s1' = s1 /\ s2' = s2 /\ dest' = dest
      /\ operands' = operands /\ FieldsNext
  BY DEF DecodeOnly
<1>2. ir' \in Word
  BY <1>1, ToggleKeepsWord DEF FieldsNext, IrIsWord, AluInv, WordsInside, Word
<1> QED BY <1>1, <1>2 DEF AluInv, WordsInside, Shifting, HandedOn

LEMMA Stutters ==
  ASSUME AluInv, UNCHANGED vars
  PROVE  AluInv'
<1>1. /\ at' = at /\ s1' = s1 /\ s2' = s2 /\ dest' = dest /\ ir' = ir /\ operands' = operands
      /\ UNCHANGED inst
  BY DEF vars, inst, fieldVars
<1>2. WordsInside' /\ ir \in Word
  BY <1>1 DEF AluInv, WordsInside
<1>3. CASE HandedOn
  <2>1. Correct
    BY <1>3 DEF AluInv
  <2>2. ASSUME OpcodeIndex = Branch PROVE Correct'
    <3>1. at' = IF Taken(operands.s1, operands.s2) THEN "branch_taken_1" ELSE "main_loop"
      BY <1>1, <2>1, <2>2 DEF Correct
    <3> QED BY <1>1, <2>2, <3>1, Decided
  <2>3. ASSUME OpcodeIndex # Branch PROVE Correct'
    <3>1. at' = "put_rd_main_loop" /\ Result(dest', operands.s1, operands.s2)
      BY <1>1, <2>1, <2>3 DEF Correct
    <3> QED BY <1>1, <1>2, <2>3, <3>1, Delivered
  <2>4. Correct'
    BY <2>2, <2>3
  <2> QED BY <1>1, <1>2, <1>3, <2>4, Ends DEF AluInv, WordsInside, HandedOn
<1>4. CASE ~HandedOn
  <2>1. Shifting'
    <3>1. /\ Funct3' = Funct3 /\ OpcodeIndex' = OpcodeIndex /\ Fill' = Fill
          /\ Count' = Count /\ Remaining(s2)' = Remaining(s2)
      BY <1>1, InstKept DEF Fill, Count, Remaining
    <3> QED BY <1>1, <3>1 DEF AluInv, Shifting
  <2> QED BY <1>1, <1>2, <1>4, <2>1 DEF AluInv, HandedOn
<1> QED BY <1>3, <1>4

LEMMA AluInvariant == AluSpec => []AluInv
<1>1. AluInv /\ [AluNext \/ DecodeOnly]_vars => AluInv'
  <2> SUFFICES ASSUME AluInv, [AluNext \/ DecodeOnly]_vars PROVE AluInv'
    OBVIOUS
  <2>1. CASE UNCHANGED vars
    BY <2>1, Stutters
  <2>2. CASE DecodeOnly
    BY <2>2, Decodes
  <2>3. CASE AluNext
    BY <2>3, Dispatches, AddsOrSubtracts, BeginsShift, EndsShift, RoundLeft, RoundRight,
       SetsFlag, DoesLogic, Branches
    DEF AluNext
  <2> QED BY <2>1, <2>2, <2>3
<1> QED BY <1>1, AluStart, PTL DEF AluSpec

(***************************************************************************)
(* Whatever a routine hands on is what RV32I defines for the operands it   *)
(* was entered with: for all 2^64 pairs of words, every shift count and    *)
(* any word left in dest (ucode.asm:600-793, 930-981).                     *)
(***************************************************************************)
THEOREM ResultsAreCorrect == AluSpec => [](HandedOn => Correct)
<1>1. AluInv => (HandedOn => Correct)
  BY DEF AluInv
<1> QED BY <1>1, AluInvariant, PTL

(* The steps that are left: two to the routine, and one for each round of  *)
(* a shift and the end of it.                                              *)
Distance ==
  CASE at = "inst_32bit" -> 34
    [] at = "dispatch_funct3" -> 33
    [] at \in {"sll_loop", "srl_sra_loop"} -> Remaining(s2) + 1
    [] OTHER -> 0

Settled == HandedOn \/ (at = "inst_32bit" /\ ir \notin Instructions)

LEMMA DistanceIs == AluInv => Distance \in 0 .. 34
<1> SUFFICES ASSUME AluInv PROVE Distance \in 0 .. 34
  OBVIOUS
<1>1. Remaining(s2) + 1 \in 0 .. 34
  <2>1. Remaining(s2) \in 0 .. 31
    BY RemainingIs DEF AluInv, WordsInside
  <2> QED BY <2>1
<1> QED BY <1>1 DEF Distance

(* The first of two natural numbers below 64 is above the second where     *)
(* their digits differ first.                                              *)
Half(n) == n \div 2
Odd(n) == n % 2 = 1

LEMMA Halved ==
  ASSUME NEW d \in Nat, NEW e \in Nat, e < d
  PROVE  /\ Half(d) \in Nat /\ Half(e) \in Nat
         /\ Half(e) < Half(d) \/ (Half(e) = Half(d) /\ Odd(d) /\ ~Odd(e))
BY DEF Half, Odd

Drops(a, b) == Odd(a) /\ ~Odd(b)
Same(a, b) == Odd(a) <=> Odd(b)

FourFall(d3, d2, d1, d0, e3, e2, e1, e0) ==
  \/ Drops(d3, e3)
  \/ Same(d3, e3) /\ Drops(d2, e2)
  \/ Same(d3, e3) /\ Same(d2, e2) /\ Drops(d1, e1)
  \/ Same(d3, e3) /\ Same(d2, e2) /\ Same(d1, e1) /\ Drops(d0, e0)

LEMMA DigitsFall ==
  ASSUME NEW d0 \in 0 .. 63, NEW d1, NEW d2, NEW d3, NEW d4, NEW d5,
         NEW e0 \in 0 .. 63, NEW e1, NEW e2, NEW e3, NEW e4, NEW e5,
         d1 = Half(d0), d2 = Half(d1), d3 = Half(d2), d4 = Half(d3), d5 = Half(d4),
         e1 = Half(e0), e2 = Half(e1), e3 = Half(e2), e4 = Half(e3), e5 = Half(e4),
         e0 < d0
  PROVE  \/ Drops(d5, e5)
         \/ Same(d5, e5) /\ Drops(d4, e4)
         \/ Same(d5, e5) /\ Same(d4, e4) /\ FourFall(d3, d2, d1, d0, e3, e2, e1, e0)
<1>1. d0 \in Nat /\ e0 \in Nat /\ e0 < d0
  OBVIOUS
<1>2. /\ d1 \in Nat /\ e1 \in Nat
      /\ e1 < d1 \/ (e1 = d1 /\ Drops(d0, e0))
  BY <1>1, Halved DEF Drops
<1>3. /\ d2 \in Nat /\ e2 \in Nat
      /\ e2 < d2 \/ (e2 = d2 /\ Drops(d1, e1)) \/ (e2 = d2 /\ e1 = d1)
  <2>1. Half(d1) \in Nat /\ Half(e1) \in Nat
    BY <1>2 DEF Half
  <2> QED BY <1>2, <2>1, Halved DEF Drops
<1>4. /\ d3 \in Nat /\ e3 \in Nat
      /\ e3 < d3 \/ (e3 = d3 /\ Drops(d2, e2)) \/ (e3 = d3 /\ e2 = d2)
  <2>1. Half(d2) \in Nat /\ Half(e2) \in Nat
    BY <1>3 DEF Half
  <2> QED BY <1>3, <2>1, Halved DEF Drops
<1>5. /\ d4 \in Nat /\ e4 \in Nat
      /\ e4 < d4 \/ (e4 = d4 /\ Drops(d3, e3)) \/ (e4 = d4 /\ e3 = d3)
  <2>1. Half(d3) \in Nat /\ Half(e3) \in Nat
    BY <1>4 DEF Half
  <2> QED BY <1>4, <2>1, Halved DEF Drops
<1>6. d5 \in {0, 1} /\ e5 \in {0, 1}
  <2>1. d1 \in 0 .. 31 /\ e1 \in 0 .. 31
    BY DEF Half
  <2>2. d2 \in 0 .. 15 /\ e2 \in 0 .. 15
    BY <2>1 DEF Half
  <2>3. d3 \in 0 .. 7 /\ e3 \in 0 .. 7
    BY <2>2 DEF Half
  <2>4. d4 \in 0 .. 3 /\ e4 \in 0 .. 3
    BY <2>3 DEF Half
  <2> QED BY <2>4 DEF Half
<1>7. e5 < d5 \/ (e5 = d5 /\ Drops(d4, e4)) \/ (e5 = d5 /\ e4 = d4)
  BY <1>5, Halved DEF Drops
<1>8. e5 < d5 => Drops(d5, e5)
  BY <1>6 DEF Drops, Odd
<1>9. \A x, y : x = y => Same(x, y)
  BY DEF Same
<1>10. ASSUME e5 = d5, e4 = d4 PROVE FourFall(d3, d2, d1, d0, e3, e2, e1, e0)
  <2>1. CASE e3 = d3 /\ e2 = d2 /\ e1 = d1
    BY <1>2, <1>9, <2>1 DEF FourFall
  <2>2. CASE e3 = d3 /\ e2 = d2 /\ Drops(d1, e1)
    BY <1>9, <2>2 DEF FourFall
  <2>3. CASE e3 = d3 /\ Drops(d2, e2)
    BY <1>9, <2>3 DEF FourFall
  <2>4. CASE Drops(d3, e3)
    BY <2>4 DEF FourFall
  <2>5. /\ (e3 = d3) \/ Drops(d3, e3)
        /\ e3 = d3 => e2 = d2 \/ Drops(d2, e2)
        /\ e2 = d2 => e1 = d1 \/ Drops(d1, e1)
    BY <1>3, <1>4, <1>5, <1>10
  <2> QED BY <2>1, <2>2, <2>3, <2>4, <2>5
<1>11. e5 = d5 /\ e4 = d4 => Same(d5, e5) /\ Same(d4, e4)
  BY <1>9
<1>12. e5 = d5 => Same(d5, e5)
  BY <1>9
<1> QED BY <1>7, <1>8, <1>10, <1>11, <1>12, Zenon

LEMMA DistanceAt ==
  /\ at = "inst_32bit" => Distance = 34
  /\ at = "dispatch_funct3" => Distance = 33
  /\ at \in {"sll_loop", "srl_sra_loop"} => Distance = Remaining(s2) + 1
  /\ HandedOn => Distance = 0
BY DEF Distance, HandedOn

LEMMA DistanceNext ==
  /\ at' = "inst_32bit" => Distance' = 34
  /\ at' = "dispatch_funct3" => Distance' = 33
  /\ at' \in {"sll_loop", "srl_sra_loop"} => Distance' = Remaining(s2') + 1
  /\ HandedOn' => Distance' = 0
BY DEF Distance, HandedOn, Remaining

LEMMA Nearer ==
  ASSUME AluInv, AluNext
  PROVE  Distance' < Distance
<1>1. s2 \in Word
  BY DEF AluInv, WordsInside
<1>2. Remaining(s2) \in 0 .. 31
  BY <1>1, RemainingIs
<1>3. CASE InstOp \/ InstOpImm \/ InstBranch
  <2>1. at = "inst_32bit" /\ at' = "dispatch_funct3"
    BY <1>3 DEF InstOp, InstOpImm, InstBranch, Executes, DispatchFunct3
  <2> QED BY <2>1, DistanceAt, DistanceNext
<1>4. CASE InstShift
  <2>1. at = "dispatch_funct3" /\ at' \in {"sll_loop", "srl_sra_loop"} /\ s2' = s2
    BY <1>4 DEF InstShift, Dispatched
  <2> QED BY <1>2, <2>1, DistanceAt, DistanceNext
<1>5. CASE SllLoop \/ SrlSraLoop
  <2>1. /\ at \in {"sll_loop", "srl_sra_loop"} /\ at' = at
        /\ Remaining(s2) # 0 /\ s2' = [s2 EXCEPT ![0] = Remaining(s2) - 1]
    BY <1>5 DEF SllLoop, SrlSraLoop, CountedDown
  <2>2. Remaining(s2') = Remaining(s2) - 1
    BY <1>1, <2>1, RemainingIs
  <2> QED BY <1>2, <2>1, <2>2, DistanceAt, DistanceNext
<1>6. CASE ShiftDone
  <2>1. at \in {"sll_loop", "srl_sra_loop"} /\ at' = "put_rd_main_loop"
    BY <1>6 DEF ShiftDone
  <2>2. HandedOn'
    BY <2>1 DEF HandedOn
  <2> QED BY <1>2, <2>1, <2>2, DistanceAt, DistanceNext
<1>7. CASE \/ InstAddSub \/ InstSlt \/ InstSltu \/ InstXor \/ InstOr \/ InstAnd
           \/ InstBeqBne \/ InstBltBge \/ InstBltuBgeu
  <2>1. at = "dispatch_funct3" /\ HandedOn'
    BY <1>7 DEF InstAddSub, InstSlt, InstSltu, InstXor, InstOr, InstAnd, InstBeqBne, InstBltBge,
       InstBltuBgeu, BranchIf, Dispatched, PutFlag, Put, HandedOn
  <2> QED BY <2>1, DistanceAt, DistanceNext
<1> QED BY <1>3, <1>4, <1>5, <1>6, <1>7 DEF AluNext

LEMMA NotFarther ==
  ASSUME DecodeOnly \/ UNCHANGED vars
  PROVE  Distance' = Distance
<1>1. at' = at /\ s2' = s2
  BY DEF DecodeOnly, vars
<1> QED BY <1>1 DEF Distance, Remaining

(* Only an executed instruction settles what is not settled.               *)
LEMMA NotSettledBefore ==
  ASSUME ~Settled, DecodeOnly \/ UNCHANGED vars
  PROVE  ~Settled'
<1>1. CASE DecodeOnly
  BY <1>1 DEF DecodeOnly, Settled
<1>2. CASE UNCHANGED vars
  BY <1>2 DEF vars, inst, fieldVars, Settled, HandedOn
<1> QED BY <1>1, <1>2

(***************************************************************************)
(* Every instruction ends with the result RV32I defines, for all operands: *)
(* a shift comes to its end although s2, which counts its rounds, is its   *)
(* operand (ucode.asm:600-793, 930-981).  That a next step exists until    *)
(* then is a hypothesis, for ENABLED is beyond the provers: Firsts and     *)
(* Seconds must not be empty, and branches have a funct3 that is defined.  *)
(***************************************************************************)
NothingBlocks == [](~Settled => ENABLED <<AluNext>>_vars)

THEOREM EveryOperationEnds == AluSpec /\ NothingBlocks => ComputesAsDefined
<1> DEFINE
      d0 == Distance
      d1 == Half(d0)
      d2 == Half(d1)
      d3 == Half(d2)
      d4 == Half(d3)
      d5 == Half(d4)
      P0 == Odd(d0)
      P1 == Odd(d1)
      P2 == Odd(d2)
      P3 == Odd(d3)
      P4 == Odd(d4)
      P5 == Odd(d5)
      N == AluNext \/ DecodeOnly
      T5 == P5 <=> P5'
      T4 == T5 /\ (P4 <=> P4')
      T3 == T4 /\ (P3 <=> P3')
      T2 == T3 /\ (P2 <=> P2')
      T1 == T2 /\ (P1 <=> P1')
      T0 == T1 /\ (P0 <=> P0')
      Falls == \/ P5 /\ ~P5'
               \/ T5 /\ P4 /\ ~P4'
               \/ T4 /\ P3 /\ ~P3'
               \/ T3 /\ P2 /\ ~P2'
               \/ T2 /\ P1 /\ ~P1'
               \/ T1 /\ P0 /\ ~P0'
<1> HIDE DEF d0, d1, d2, d3, d4, d5
<1>1. (AluInv => Distance \in 0 .. 34)'
  BY DistanceIs, PTL
<1>2. AluInv /\ AluInv' /\ AluNext => Falls
  <2> SUFFICES ASSUME AluInv, AluInv', AluNext PROVE Falls
    OBVIOUS
  <2>1. Distance \in 0 .. 34 /\ Distance' \in 0 .. 34 /\ Distance' < Distance
    BY <1>1, DistanceIs, Nearer
  <2>2. Distance \in 0 .. 63 /\ Distance' \in 0 .. 63
    BY <2>1
  <2>3. \/ Drops(d5, d5')
        \/ Same(d5, d5') /\ Drops(d4, d4')
        \/ Same(d5, d5') /\ Same(d4, d4') /\ FourFall(d3, d2, d1, d0, d3', d2', d1', d0')
    BY <2>1, <2>2, DigitsFall DEF d0, d1, d2, d3, d4, d5, Half
  <2> QED BY <2>3 DEF Drops, Same, FourFall
<1>3. DecodeOnly \/ UNCHANGED vars => T0
  BY NotFarther DEF d0, d1, d2, d3, d4, d5, Half, Odd
<1>4. AluInv /\ AluNext => vars' # vars
  <2> SUFFICES ASSUME AluInv, AluNext, vars' = vars PROVE FALSE
    OBVIOUS
  <2>1. Distance' < Distance /\ Distance' = Distance
    BY Nearer, NotFarther
  <2>2. Distance \in Int
    BY DistanceIs
  <2> QED BY <2>1, <2>2
<1>5. ~Settled /\ (DecodeOnly \/ UNCHANGED vars) => ~Settled'
  BY NotSettledBefore
<1>6. AluInv /\ ~Settled /\ [N]_vars => ~Settled' \/ <<AluNext>>_vars
  BY <1>4, <1>5
<1>7. AluInv /\ Settled => (at = "inst_32bit" /\ ir \notin Instructions) \/ Correct
  BY DEF AluInv, Settled
<1> HIDE DEF P0, P1, P2, P3, P4, P5
<1>8. AluInv /\ AluInv' /\ [N]_vars => Falls \/ T0
  BY <1>2, <1>3
<1>9. AluInv /\ AluInv' /\ [N]_vars => (P5' => P5) /\ ((P5 <=> P5') => T5)
  BY <1>8
<1>10. AluInv /\ AluInv' /\ [N]_vars /\ [T5]_vars => (P4' => P4) /\ ((P4 <=> P4') => T4)
  BY <1>3, <1>8
<1>11. AluInv /\ AluInv' /\ [N]_vars /\ [T4]_vars => (P3' => P3) /\ ((P3 <=> P3') => T3)
  BY <1>3, <1>8
<1>12. AluInv /\ AluInv' /\ [N]_vars /\ [T3]_vars => (P2' => P2) /\ ((P2 <=> P2') => T2)
  BY <1>3, <1>8
<1>13. AluInv /\ AluInv' /\ [N]_vars /\ [T2]_vars => (P1' => P1) /\ ((P1 <=> P1') => T1)
  BY <1>3, <1>8
<1>14. AluInv /\ AluInv' /\ [N]_vars /\ [T1]_vars => (P0' => P0) /\ ((P0 <=> P0') => T0)
  BY <1>3, <1>8
<1>15. AluInv /\ AluInv' /\ <<AluNext>>_vars => ~[T0]_vars
  BY <1>2
<1> HIDE DEF T0, T1, T2, T3, T4, T5
<1>16. []AluInv /\ [][N]_vars => <>[][T5]_vars
  BY <1>9, PTL
<1>17. []AluInv /\ [][N]_vars => <>[][T4]_vars
  BY <1>10, <1>16, PTL
<1>18. []AluInv /\ [][N]_vars => <>[][T3]_vars
  BY <1>11, <1>17, PTL
<1>19. []AluInv /\ [][N]_vars => <>[][T2]_vars
  BY <1>12, <1>18, PTL
<1>20. []AluInv /\ [][N]_vars => <>[][T1]_vars
  BY <1>13, <1>19, PTL
<1>21. []AluInv /\ [][N]_vars => <>[][T0]_vars
  BY <1>14, <1>20, PTL
<1>22. []AluInv /\ [][N]_vars => ~[]<><<AluNext>>_vars
  BY <1>15, <1>21, PTL
<1>23. []AluInv /\ [][N]_vars /\ WF_vars(AluNext) /\ NothingBlocks => <>[]Settled
  BY <1>6, <1>22, PTL DEF NothingBlocks
<1> QED BY <1>7, <1>23, AluInvariant, PTL DEF AluSpec, ComputesAsDefined

=============================================================================
