------------------------ MODULE InstructionSetLemmas ------------------------
(***************************************************************************)
(* What the decoder finds in a word, and what a word made of fields holds. *)
(***************************************************************************)
EXTENDS InstructionSet, FiniteSetTheorems, TLAPS

Words16 == {n \in Nat : n < 65536}
BitRow  == [Positions -> {0, 1}]

LEMMA SameSet ==
  ASSUME NEW S, NEW T, \A e : e \in S <=> e \in T
  PROVE  S = T
OBVIOUS

LEMMA SameChoice ==
  ASSUME NEW S, NEW T, S = T
  PROVE  (CHOOSE e \in S : TRUE) = (CHOOSE e \in T : TRUE)
OBVIOUS

(***************************************************************************)
(* Words and their bits                                                    *)
(***************************************************************************)
LEMMA PositionList ==
  Positions = {0, 1, 2, 3, 4, 5, 6, 7, 8, 9, 10, 11, 12, 13, 14, 15}
BY DEF Positions

LEMMA PowersOfTwo ==
  /\ 2 ^ 0 = 1 /\ 2 ^ 1 = 2 /\ 2 ^ 2 = 4 /\ 2 ^ 3 = 8 /\ 2 ^ 4 = 16 /\ 2 ^ 5 = 32
  /\ 2 ^ 6 = 64 /\ 2 ^ 7 = 128 /\ 2 ^ 8 = 256 /\ 2 ^ 9 = 512 /\ 2 ^ 10 = 1024
  /\ 2 ^ 11 = 2048 /\ 2 ^ 12 = 4096 /\ 2 ^ 13 = 8192 /\ 2 ^ 14 = 16384
  /\ 2 ^ 15 = 32768
OBVIOUS

LEMMA PowerPositive == \A p \in Positions : 2 ^ p \in Nat \ {0}
<1> SUFFICES ASSUME NEW p \in Positions PROVE 2 ^ p \in Nat \ {0}
  OBVIOUS
<1>1. CASE p = 0
  BY <1>1
<1>2. CASE p = 1
  BY <1>2
<1>3. CASE p = 2
  BY <1>3
<1>4. CASE p = 3
  BY <1>4
<1>5. CASE p = 4
  BY <1>5
<1>6. CASE p = 5
  BY <1>6
<1>7. CASE p = 6
  BY <1>7
<1>8. CASE p = 7
  BY <1>8
<1>9. CASE p = 8
  BY <1>9
<1>10. CASE p = 9
  BY <1>10
<1>11. CASE p = 10
  BY <1>11
<1>12. CASE p = 11
  BY <1>12
<1>13. CASE p = 12
  BY <1>13
<1>14. CASE p = 13
  BY <1>14
<1>15. CASE p = 14
  BY <1>15
<1>16. CASE p = 15
  BY <1>16
<1> QED BY PositionList, <1>1, <1>2, <1>3, <1>4, <1>5, <1>6, <1>7, <1>8, <1>9, <1>10, <1>11, <1>12, <1>13, <1>14, <1>15, <1>16

(* The loop runs from the highest position down; there is a function that  *)
(* satisfies its equation.                                                 *)
LEMMA LoopExists ==
  ASSUME NEW b \in BitRow
  PROVE  \E g : g = [p \in 0 .. 16 |-> IF p = 16 THEN 0 ELSE 2 * g[p + 1] + b[p]]
<1> DEFINE h15 == 2 * 0 + b[15]    h14 == 2 * h15 + b[14]
           h13 == 2 * h14 + b[13]  h12 == 2 * h13 + b[12]
           h11 == 2 * h12 + b[11]  h10 == 2 * h11 + b[10]
           h9  == 2 * h10 + b[9]   h8  == 2 * h9 + b[8]
           h7  == 2 * h8 + b[7]    h6  == 2 * h7 + b[6]
           h5  == 2 * h6 + b[5]    h4  == 2 * h5 + b[4]
           h3  == 2 * h4 + b[3]    h2  == 2 * h3 + b[2]
           h1  == 2 * h2 + b[1]    h0  == 2 * h1 + b[0]
           g == [p \in 0 .. 16 |->
                   CASE p = 0 -> h0 [] p = 1 -> h1 [] p = 2 -> h2 [] p = 3 -> h3
                     [] p = 4 -> h4 [] p = 5 -> h5 [] p = 6 -> h6 [] p = 7 -> h7
                     [] p = 8 -> h8 [] p = 9 -> h9 [] p = 10 -> h10 [] p = 11 -> h11
                     [] p = 12 -> h12 [] p = 13 -> h13 [] p = 14 -> h14
                     [] p = 15 -> h15 [] OTHER -> 0]
<1>1. /\ h15 = 2 * 0 + b[15] /\ h14 = 2 * h15 + b[14] /\ h13 = 2 * h14 + b[13]
      /\ h12 = 2 * h13 + b[12] /\ h11 = 2 * h12 + b[11] /\ h10 = 2 * h11 + b[10]
      /\ h9 = 2 * h10 + b[9] /\ h8 = 2 * h9 + b[8] /\ h7 = 2 * h8 + b[7]
      /\ h6 = 2 * h7 + b[6] /\ h5 = 2 * h6 + b[5] /\ h4 = 2 * h5 + b[4]
      /\ h3 = 2 * h4 + b[3] /\ h2 = 2 * h3 + b[2] /\ h1 = 2 * h2 + b[1]
      /\ h0 = 2 * h1 + b[0]
  OBVIOUS
<1> HIDE DEF h0, h1, h2, h3, h4, h5, h6, h7, h8, h9, h10, h11, h12, h13, h14, h15
<1>2. /\ g[0] = h0 /\ g[1] = h1 /\ g[2] = h2 /\ g[3] = h3 /\ g[4] = h4 /\ g[5] = h5
      /\ g[6] = h6 /\ g[7] = h7 /\ g[8] = h8 /\ g[9] = h9 /\ g[10] = h10
      /\ g[11] = h11 /\ g[12] = h12 /\ g[13] = h13 /\ g[14] = h14 /\ g[15] = h15
      /\ g[16] = 0 /\ DOMAIN g = 0 .. 16
  OBVIOUS
<1>3. g = [p \in 0 .. 16 |-> g[p]]
  OBVIOUS
<1> HIDE DEF g
<1>4. \A p \in 0 .. 15 : g[p] = 2 * g[p + 1] + b[p]
  BY <1>1, <1>2
<1>5. \A p \in 0 .. 16 : g[p] = IF p = 16 THEN 0 ELSE 2 * g[p + 1] + b[p]
  BY <1>2, <1>4
<1>6. g = [p \in 0 .. 16 |-> IF p = 16 THEN 0 ELSE 2 * g[p + 1] + b[p]]
  BY <1>3, <1>5
<1> QED BY <1>6

Halves(b, h) ==
  /\ h \in [0 .. 16 -> Nat] /\ h[16] = 0
  /\ \A p \in 0 .. 15 : h[p] = 2 * h[p + 1] + b[p]

LEMMA WordHalves ==
  ASSUME NEW b \in BitRow
  PROVE  \E h : Halves(b, h) /\ h[0] = WordOf(b)
<1> DEFINE above[p \in 0 .. 16] == IF p = 16 THEN 0 ELSE 2 * above[p + 1] + b[p]
<1>1. WordOf(b) = above[0]
  BY Zenon DEF WordOf
<1>2. above = [p \in 0 .. 16 |-> IF p = 16 THEN 0 ELSE 2 * above[p + 1] + b[p]]
  BY LoopExists
<1> HIDE DEF above
<1>3. \A p \in 0 .. 16 : above[p] = IF p = 16 THEN 0 ELSE 2 * above[p + 1] + b[p]
  BY <1>2
<1>4. \A p \in 0 .. 15 : b[p] \in {0, 1}
  BY DEF BitRow, Positions
<1>5. above[16] = 0 /\ \A p \in 0 .. 15 : above[p] = 2 * above[p + 1] + b[p]
  BY <1>3
<1>a. \A p \in 0 .. 15 : above[p + 1] \in Nat => above[p] \in Nat
  <2> TAKE p \in 0 .. 15
  <2>1. b[p] \in Nat /\ above[p] = 2 * above[p + 1] + b[p]
    BY <1>4, <1>5
  <2> QED BY <2>1
<1>6. above[16] \in Nat /\ above[15] \in Nat /\ above[14] \in Nat /\ above[13] \in Nat
  BY <1>5, <1>a
<1>7. above[12] \in Nat /\ above[11] \in Nat /\ above[10] \in Nat /\ above[9] \in Nat
  BY <1>6, <1>a
<1>8. above[8] \in Nat /\ above[7] \in Nat /\ above[6] \in Nat /\ above[5] \in Nat
  BY <1>7, <1>a
<1>9. above[4] \in Nat /\ above[3] \in Nat /\ above[2] \in Nat /\ above[1] \in Nat
  BY <1>8, <1>a
<1>10. above[0] \in Nat
  BY <1>9, <1>a
<1>11. \A p \in 0 .. 16 : above[p] \in Nat
  BY <1>6, <1>7, <1>8, <1>9, <1>10
<1>12. above = [p \in 0 .. 16 |-> above[p]]
  BY <1>2
<1>13. above \in [0 .. 16 -> Nat]
  BY <1>11, <1>12
<1> QED BY <1>1, <1>5, <1>13 DEF Halves

LEMMA HalvedWord ==
  ASSUME NEW n \in Nat, NEW m \in Nat, NEW d \in {0, 1}, n = 2 * m + d
  PROVE  m = n \div 2 /\ d = n % 2
OBVIOUS

(* The digit at a position is the bit written there.                       *)
LEMMA DigitsOfWord ==
  ASSUME NEW b \in BitRow
  PROVE  WordOf(b) \in Words16 /\ \A p \in Positions : Digit(WordOf(b), p) = b[p]
<1>1. PICK h : Halves(b, h) /\ h[0] = WordOf(b)
  BY WordHalves
<1>2. \A p \in 0 .. 15 : b[p] \in {0, 1}
  BY DEF BitRow, Positions
<1>3. \A p \in 0 .. 15 : h[p + 1] = h[p] \div 2 /\ b[p] = h[p] % 2
  <2> TAKE p \in 0 .. 15
  <2>1. b[p] \in {0, 1} /\ h[p] = 2 * h[p + 1] + b[p]
    BY <1>1, <1>2 DEF Halves
  <2>2. p \in 0 .. 16 /\ p + 1 \in 0 .. 16
    OBVIOUS
  <2>3. h[p] \in Nat /\ h[p + 1] \in Nat
    BY <2>2, <1>1, Zenon DEF Halves
  <2> QED BY <2>1, <2>3, HalvedWord
<1>4. h[0] \in Nat
  BY <1>1 DEF Halves
<1>5. h[1] = h[0] \div 2
  <2>1. h[1] = h[0] \div 2
    BY <1>3
  <2> QED BY <1>4, <2>1
<1>6. h[2] = h[0] \div 4
  <2>1. h[2] = h[1] \div 2
    BY <1>3
  <2> QED BY <1>4, <1>5, <2>1
<1>7. h[3] = h[0] \div 8
  <2>1. h[3] = h[2] \div 2
    BY <1>3
  <2> QED BY <1>4, <1>6, <2>1
<1>8. h[4] = h[0] \div 16
  <2>1. h[4] = h[3] \div 2
    BY <1>3
  <2> QED BY <1>4, <1>7, <2>1
<1>9. h[5] = h[0] \div 32
  <2>1. h[5] = h[4] \div 2
    BY <1>3
  <2> QED BY <1>4, <1>8, <2>1
<1>10. h[6] = h[0] \div 64
  <2>1. h[6] = h[5] \div 2
    BY <1>3
  <2> QED BY <1>4, <1>9, <2>1
<1>11. h[7] = h[0] \div 128
  <2>1. h[7] = h[6] \div 2
    BY <1>3
  <2> QED BY <1>4, <1>10, <2>1
<1>12. h[8] = h[0] \div 256
  <2>1. h[8] = h[7] \div 2
    BY <1>3
  <2> QED BY <1>4, <1>11, <2>1
<1>13. h[9] = h[0] \div 512
  <2>1. h[9] = h[8] \div 2
    BY <1>3
  <2> QED BY <1>4, <1>12, <2>1
<1>14. h[10] = h[0] \div 1024
  <2>1. h[10] = h[9] \div 2
    BY <1>3
  <2> QED BY <1>4, <1>13, <2>1
<1>15. h[11] = h[0] \div 2048
  <2>1. h[11] = h[10] \div 2
    BY <1>3
  <2> QED BY <1>4, <1>14, <2>1
<1>16. h[12] = h[0] \div 4096
  <2>1. h[12] = h[11] \div 2
    BY <1>3
  <2> QED BY <1>4, <1>15, <2>1
<1>17. h[13] = h[0] \div 8192
  <2>1. h[13] = h[12] \div 2
    BY <1>3
  <2> QED BY <1>4, <1>16, <2>1
<1>18. h[14] = h[0] \div 16384
  <2>1. h[14] = h[13] \div 2
    BY <1>3
  <2> QED BY <1>4, <1>17, <2>1
<1>19. h[15] = h[0] \div 32768
  <2>1. h[15] = h[14] \div 2
    BY <1>3
  <2> QED BY <1>4, <1>18, <2>1
<1>20. h[16] = 0 /\ h[16] = h[15] \div 2
  BY <1>1, <1>3 DEF Halves
<1>21. h[0] \in Words16
  <2>1. (h[0] \div 32768) \div 2 = 0
    BY <1>19, <1>20
  <2>2. h[0] \div 65536 = 0
    BY <2>1, <1>4
  <2>3. h[0] < 65536
    BY <2>2, <1>4
  <2> QED BY <2>3, <1>4 DEF Words16
<1>22. \A p \in Positions : Digit(h[0], p) = b[p]
  <2> SUFFICES ASSUME NEW p \in Positions PROVE Digit(h[0], p) = b[p]
    OBVIOUS
  <2>0. b[p] = h[p] % 2
    BY <1>3 DEF Positions
  <2>1. CASE p = 0
    BY <2>0, <2>1, <1>4 DEF Digit
  <2>2. CASE p = 1
    BY <2>0, <2>2, <1>5 DEF Digit
  <2>3. CASE p = 2
    BY <2>0, <2>3, <1>6 DEF Digit
  <2>4. CASE p = 3
    BY <2>0, <2>4, <1>7 DEF Digit
  <2>5. CASE p = 4
    BY <2>0, <2>5, <1>8 DEF Digit
  <2>6. CASE p = 5
    BY <2>0, <2>6, <1>9 DEF Digit
  <2>7. CASE p = 6
    BY <2>0, <2>7, <1>10 DEF Digit
  <2>8. CASE p = 7
    BY <2>0, <2>8, <1>11 DEF Digit
  <2>9. CASE p = 8
    BY <2>0, <2>9, <1>12 DEF Digit
  <2>10. CASE p = 9
    BY <2>0, <2>10, <1>13 DEF Digit
  <2>11. CASE p = 10
    BY <2>0, <2>11, <1>14 DEF Digit
  <2>12. CASE p = 11
    BY <2>0, <2>12, <1>15 DEF Digit
  <2>13. CASE p = 12
    BY <2>0, <2>13, <1>16 DEF Digit
  <2>14. CASE p = 13
    BY <2>0, <2>14, <1>17 DEF Digit
  <2>15. CASE p = 14
    BY <2>0, <2>15, <1>18 DEF Digit
  <2>16. CASE p = 15
    BY <2>0, <2>16, <1>19 DEF Digit
  <2> QED BY PositionList, <2>1, <2>2, <2>3, <2>4, <2>5, <2>6, <2>7, <2>8, <2>9, <2>10, <2>11, <2>12, <2>13, <2>14, <2>15, <2>16
<1>23. h[0] = WordOf(b)
  BY <1>1
<1>24. \A p \in Positions : Digit(WordOf(b), p) = b[p]
  BY <1>22, <1>23
<1>25. WordOf(b) \in Words16
  BY <1>21, <1>23, Zenon
<1> QED BY <1>24, <1>25

(* A word is made of its digits, and of no others.                         *)
DigitsOf(w) == [p \in Positions |-> Digit(w, p)]

LEMMA WordOfDigits ==
  ASSUME NEW w \in Words16
  PROVE  DigitsOf(w) \in BitRow /\ WordOf(DigitsOf(w)) = w
<1>3. DigitsOf(w) \in BitRow
  <2> SUFFICES ASSUME NEW p \in Positions PROVE Digit(w, p) \in {0, 1}
    BY DEF DigitsOf, BitRow
  <2> DEFINE q == w \div 2 ^ p
  <2>1. q \in Int
    BY PowerPositive DEF Words16
  <2> HIDE DEF q
  <2>2. q % 2 \in {0, 1}
    BY <2>1
  <2> QED BY <2>2 DEF q, Digit
<1>4. PICK h : Halves(DigitsOf(w), h) /\ h[0] = WordOf(DigitsOf(w))
  BY <1>3, WordHalves
<1>5. \A p \in 0 .. 15 : h[p] = 2 * h[p + 1] + Digit(w, p)
  BY <1>4 DEF Halves, DigitsOf, Positions
<1>6. h[16] = w \div 65536
  <2>1. h[16] = 0
    BY <1>4 DEF Halves
  <2> QED BY <2>1 DEF Words16
<1>7. h[15] = w \div 32768
  <2>1. h[15] = 2 * h[16] + Digit(w, 15)
    BY <1>5
  <2> QED BY <2>1, <1>6 DEF Digit, Words16
<1>8. h[14] = w \div 16384
  <2>1. h[14] = 2 * h[15] + Digit(w, 14)
    BY <1>5
  <2> QED BY <2>1, <1>7 DEF Digit, Words16
<1>9. h[13] = w \div 8192
  <2>1. h[13] = 2 * h[14] + Digit(w, 13)
    BY <1>5
  <2> QED BY <2>1, <1>8 DEF Digit, Words16
<1>10. h[12] = w \div 4096
  <2>1. h[12] = 2 * h[13] + Digit(w, 12)
    BY <1>5
  <2> QED BY <2>1, <1>9 DEF Digit, Words16
<1>11. h[11] = w \div 2048
  <2>1. h[11] = 2 * h[12] + Digit(w, 11)
    BY <1>5
  <2> QED BY <2>1, <1>10 DEF Digit, Words16
<1>12. h[10] = w \div 1024
  <2>1. h[10] = 2 * h[11] + Digit(w, 10)
    BY <1>5
  <2> QED BY <2>1, <1>11 DEF Digit, Words16
<1>13. h[9] = w \div 512
  <2>1. h[9] = 2 * h[10] + Digit(w, 9)
    BY <1>5
  <2> QED BY <2>1, <1>12 DEF Digit, Words16
<1>14. h[8] = w \div 256
  <2>1. h[8] = 2 * h[9] + Digit(w, 8)
    BY <1>5
  <2> QED BY <2>1, <1>13 DEF Digit, Words16
<1>15. h[7] = w \div 128
  <2>1. h[7] = 2 * h[8] + Digit(w, 7)
    BY <1>5
  <2> QED BY <2>1, <1>14 DEF Digit, Words16
<1>16. h[6] = w \div 64
  <2>1. h[6] = 2 * h[7] + Digit(w, 6)
    BY <1>5
  <2> QED BY <2>1, <1>15 DEF Digit, Words16
<1>17. h[5] = w \div 32
  <2>1. h[5] = 2 * h[6] + Digit(w, 5)
    BY <1>5
  <2> QED BY <2>1, <1>16 DEF Digit, Words16
<1>18. h[4] = w \div 16
  <2>1. h[4] = 2 * h[5] + Digit(w, 4)
    BY <1>5
  <2> QED BY <2>1, <1>17 DEF Digit, Words16
<1>19. h[3] = w \div 8
  <2>1. h[3] = 2 * h[4] + Digit(w, 3)
    BY <1>5
  <2> QED BY <2>1, <1>18 DEF Digit, Words16
<1>20. h[2] = w \div 4
  <2>1. h[2] = 2 * h[3] + Digit(w, 2)
    BY <1>5
  <2> QED BY <2>1, <1>19 DEF Digit, Words16
<1>21. h[1] = w \div 2
  <2>1. h[1] = 2 * h[2] + Digit(w, 1)
    BY <1>5
  <2> QED BY <2>1, <1>20 DEF Digit, Words16
<1>22. h[0] = w \div 1
  <2>1. h[0] = 2 * h[1] + Digit(w, 0)
    BY <1>5
  <2> QED BY <2>1, <1>21 DEF Digit, Words16
<1> QED BY <1>3, <1>4, <1>22 DEF Words16

LEMMA SameDigits ==
  ASSUME NEW v \in Words16, NEW w \in Words16,
         \A p \in Positions : Digit(v, p) = Digit(w, p)
  PROVE  v = w
<1>1. DigitsOf(v) = DigitsOf(w)
  BY DEF DigitsOf
<1> QED BY <1>1, WordOfDigits
LEMMA DigitBit ==
  ASSUME NEW w \in Nat, NEW p \in Positions
  PROVE  Digit(w, p) \in {0, 1}
<1> DEFINE q == w \div 2 ^ p
<1>1. q \in Int
  BY PowerPositive
<1> HIDE DEF q
<1>2. q % 2 \in {0, 1}
  BY <1>1
<1> QED BY <1>2 DEF q, Digit

(* The widths of the fields of the instruction set.                        *)
FieldWidths == {1, 3, 8, 11, 12}

LEMMA PowerMonotone ==
  ASSUME NEW n \in FieldWidths, NEW r \in Positions, n <= r
  PROVE  2 ^ n <= 2 ^ r
<1>1. CASE n = 1
  <2>0. 2 ^ n = 2
    BY <1>1
  <2>1. r = 1 => 2 ^ r = 2
    OBVIOUS
  <2>2. r = 2 => 2 ^ r = 4
    OBVIOUS
  <2>3. r = 3 => 2 ^ r = 8
    OBVIOUS
  <2>4. r = 4 => 2 ^ r = 16
    OBVIOUS
  <2>5. r = 5 => 2 ^ r = 32
    OBVIOUS
  <2>6. r = 6 => 2 ^ r = 64
    OBVIOUS
  <2>7. r = 7 => 2 ^ r = 128
    OBVIOUS
  <2>8. r = 8 => 2 ^ r = 256
    OBVIOUS
  <2>9. r = 9 => 2 ^ r = 512
    OBVIOUS
  <2>10. r = 10 => 2 ^ r = 1024
    OBVIOUS
  <2>11. r = 11 => 2 ^ r = 2048
    OBVIOUS
  <2>12. r = 12 => 2 ^ r = 4096
    OBVIOUS
  <2>13. r = 13 => 2 ^ r = 8192
    OBVIOUS
  <2>14. r = 14 => 2 ^ r = 16384
    OBVIOUS
  <2>15. r = 15 => 2 ^ r = 32768
    OBVIOUS
  <2>16. r = 1 \/ r = 2 \/ r = 3 \/ r = 4 \/ r = 5 \/ r = 6 \/ r = 7 \/ r = 8 \/ r = 9 \/ r = 10 \/ r = 11 \/ r = 12 \/ r = 13 \/ r = 14 \/ r = 15
    BY <1>1 DEF Positions
  <2> QED BY <2>0, <2>1, <2>2, <2>3, <2>4, <2>5, <2>6, <2>7, <2>8, <2>9, <2>10, <2>11, <2>12, <2>13, <2>14, <2>15, <2>16
<1>2. CASE n = 3
  <2>0. 2 ^ n = 8
    BY <1>2
  <2>1. r = 3 => 2 ^ r = 8
    OBVIOUS
  <2>2. r = 4 => 2 ^ r = 16
    OBVIOUS
  <2>3. r = 5 => 2 ^ r = 32
    OBVIOUS
  <2>4. r = 6 => 2 ^ r = 64
    OBVIOUS
  <2>5. r = 7 => 2 ^ r = 128
    OBVIOUS
  <2>6. r = 8 => 2 ^ r = 256
    OBVIOUS
  <2>7. r = 9 => 2 ^ r = 512
    OBVIOUS
  <2>8. r = 10 => 2 ^ r = 1024
    OBVIOUS
  <2>9. r = 11 => 2 ^ r = 2048
    OBVIOUS
  <2>10. r = 12 => 2 ^ r = 4096
    OBVIOUS
  <2>11. r = 13 => 2 ^ r = 8192
    OBVIOUS
  <2>12. r = 14 => 2 ^ r = 16384
    OBVIOUS
  <2>13. r = 15 => 2 ^ r = 32768
    OBVIOUS
  <2>14. r = 3 \/ r = 4 \/ r = 5 \/ r = 6 \/ r = 7 \/ r = 8 \/ r = 9 \/ r = 10 \/ r = 11 \/ r = 12 \/ r = 13 \/ r = 14 \/ r = 15
    BY <1>2 DEF Positions
  <2> QED BY <2>0, <2>1, <2>2, <2>3, <2>4, <2>5, <2>6, <2>7, <2>8, <2>9, <2>10, <2>11, <2>12, <2>13, <2>14
<1>3. CASE n = 8
  <2>0. 2 ^ n = 256
    BY <1>3
  <2>1. r = 8 => 2 ^ r = 256
    OBVIOUS
  <2>2. r = 9 => 2 ^ r = 512
    OBVIOUS
  <2>3. r = 10 => 2 ^ r = 1024
    OBVIOUS
  <2>4. r = 11 => 2 ^ r = 2048
    OBVIOUS
  <2>5. r = 12 => 2 ^ r = 4096
    OBVIOUS
  <2>6. r = 13 => 2 ^ r = 8192
    OBVIOUS
  <2>7. r = 14 => 2 ^ r = 16384
    OBVIOUS
  <2>8. r = 15 => 2 ^ r = 32768
    OBVIOUS
  <2>9. r = 8 \/ r = 9 \/ r = 10 \/ r = 11 \/ r = 12 \/ r = 13 \/ r = 14 \/ r = 15
    BY <1>3 DEF Positions
  <2> QED BY <2>0, <2>1, <2>2, <2>3, <2>4, <2>5, <2>6, <2>7, <2>8, <2>9
<1>4. CASE n = 11
  <2>0. 2 ^ n = 2048
    BY <1>4
  <2>1. r = 11 => 2 ^ r = 2048
    OBVIOUS
  <2>2. r = 12 => 2 ^ r = 4096
    OBVIOUS
  <2>3. r = 13 => 2 ^ r = 8192
    OBVIOUS
  <2>4. r = 14 => 2 ^ r = 16384
    OBVIOUS
  <2>5. r = 15 => 2 ^ r = 32768
    OBVIOUS
  <2>6. r = 11 \/ r = 12 \/ r = 13 \/ r = 14 \/ r = 15
    BY <1>4 DEF Positions
  <2> QED BY <2>0, <2>1, <2>2, <2>3, <2>4, <2>5, <2>6
<1>5. CASE n = 12
  <2>0. 2 ^ n = 4096
    BY <1>5
  <2>1. r = 12 => 2 ^ r = 4096
    OBVIOUS
  <2>2. r = 13 => 2 ^ r = 8192
    OBVIOUS
  <2>3. r = 14 => 2 ^ r = 16384
    OBVIOUS
  <2>4. r = 15 => 2 ^ r = 32768
    OBVIOUS
  <2>5. r = 12 \/ r = 13 \/ r = 14 \/ r = 15
    BY <1>5 DEF Positions
  <2> QED BY <2>0, <2>1, <2>2, <2>3, <2>4, <2>5
<1> QED BY <1>1, <1>2, <1>3, <1>4, <1>5 DEF FieldWidths

(* A value below a power of two has no digit from there on.                *)
LEMMA HighDigits ==
  ASSUME NEW n \in FieldWidths, NEW r \in Positions, n <= r,
         NEW v \in Nat, v < 2 ^ n
  PROVE  Digit(v, r) = 0
<1> DEFINE N == 2 ^ n  R == 2 ^ r
<1>0. n \in Positions
  BY DEF FieldWidths, Positions
<1>1. N <= R /\ N \in Nat \ {0} /\ R \in Nat \ {0} /\ v < N
  BY <1>0, PowerMonotone, PowerPositive
<1> HIDE DEF N, R
<1>2. v \div R = 0
  BY <1>1
<1> QED BY <1>2 DEF R, Digit

(***************************************************************************)
(* Fields: a field is a run of positions                                   *)
(***************************************************************************)
LEMMA RankInRun ==
  ASSUME NEW lo \in Positions, NEW hi \in Positions, NEW p \in lo .. hi
  PROVE  Rank(lo .. hi, p) = p - lo
<1>1. {q \in lo .. hi : q < p} = lo .. p - 1
  BY DEF Positions
<1>2. Cardinality(lo .. p - 1) = p - lo
  <2>1. lo \in Int /\ p - 1 \in Int /\ lo <= p
    BY DEF Positions
  <2>2. Cardinality(lo .. p - 1) = IF lo > p - 1 THEN 0 ELSE (p - 1) - lo + 1
    BY <2>1, FS_Interval
  <2> QED BY <2>1, <2>2
<1> QED BY <1>1, <1>2 DEF Rank

(* The digits of a field, from its lowest position on.                     *)
LEMMA ExtractedDigits ==
  ASSUME NEW w \in Nat, NEW lo \in Positions, NEW hi \in Positions, lo <= hi
  PROVE  /\ Extracted(w, lo .. hi) \in Words16
         /\ \A r \in Positions : Digit(Extracted(w, lo .. hi), r) =
              IF r <= hi - lo THEN Digit(w, lo + r) ELSE 0
<1> DEFINE field == lo .. hi
           bit(r) == IF \E p \in field : Rank(field, p) = r
                     THEN Digit(w, CHOOSE p \in field : Rank(field, p) = r) ELSE 0
           row == [r \in Positions |-> bit(r)]
<1>1. ASSUME NEW r \in Positions
      PROVE  bit(r) = IF r <= hi - lo THEN Digit(w, lo + r) ELSE 0
  <2>0. \A p \in field : Rank(field, p) = p - lo
    BY RankInRun
  <2>1. \A p \in field : Rank(field, p) = p - lo /\ p \in Int
    BY <2>0 DEF Positions
  <2>2. CASE r <= hi - lo
    <3>1. lo + r \in field /\ Rank(field, lo + r) = r
      BY <2>1, <2>2 DEF Positions
    <3>2. \A p \in field : Rank(field, p) = r => p = lo + r
      BY <2>1 DEF Positions
    <3>3. (CHOOSE p \in field : Rank(field, p) = r) = lo + r
      BY <3>1, <3>2
    <3> QED BY <3>1, <3>3, <2>2
  <2>3. CASE ~(r <= hi - lo)
    <3>1. \A p \in field : p - lo <= hi - lo
      BY DEF Positions
    <3>2. ~\E p \in field : Rank(field, p) = r
      BY <2>1, <2>3, <3>1
    <3> QED BY <3>2, <2>3
  <2> QED BY <2>2, <2>3
<1>2. ASSUME NEW r \in Positions PROVE bit(r) \in {0, 1}
  <2>1. r <= hi - lo => lo + r \in Positions
    BY DEF Positions
  <2> HIDE DEF bit
  <2> QED BY <1>1, <2>1, DigitBit
<1>3. Extracted(w, lo .. hi) = WordOf(row)
  BY DEF Extracted
<1> HIDE DEF bit
<1>4. row \in BitRow
  BY <1>2 DEF BitRow
<1>5. \A r \in Positions : row[r] = bit(r)
  OBVIOUS
<1> HIDE DEF row
<1> QED BY <1>1, <1>3, <1>4, <1>5, DigitsOfWord

(* What is read from a field is the value whose digits are there.          *)
LEMMA ExtractedValue ==
  ASSUME NEW w \in Nat, NEW lo \in Positions, NEW hi \in Positions, lo <= hi,
         NEW v \in Words16, hi - lo + 1 \in FieldWidths, v < 2 ^ (hi - lo + 1),
         \A r \in 0 .. hi - lo : Digit(v, r) = Digit(w, lo + r)
  PROVE  Extracted(w, lo .. hi) = v
<1>1. ASSUME NEW r \in Positions
      PROVE  Digit(Extracted(w, lo .. hi), r) = Digit(v, r)
  <2>1. CASE r <= hi - lo
    <3>1. r \in 0 .. hi - lo
      BY <2>1 DEF Positions
    <3> QED BY <3>1, <2>1, ExtractedDigits
  <2>2. CASE ~(r <= hi - lo)
    <3> DEFINE n == hi - lo + 1
    <3>1. n \in FieldWidths /\ n <= r /\ v < 2 ^ n
      BY <2>2 DEF Positions
    <3> HIDE DEF n
    <3>2. Digit(v, r) = 0
      BY <3>1, HighDigits DEF Words16
    <3> QED BY <3>2, <2>2, ExtractedDigits
  <2> QED BY <2>1, <2>2
<1>2. Extracted(w, lo .. hi) \in Words16
  BY ExtractedDigits
<1> QED BY <1>1, <1>2, SameDigits
(* The fields of the instruction set, read as numbers.                     *)
Run(lo, hi) == lo .. hi

LEMMA Field_0_0 ==
  ASSUME NEW w \in Words16
  PROVE  Extracted(w, Run(0, 0)) = w % 2
<1> DEFINE v == w % 2
<1>1. v \in Words16 /\ v < 2 ^ (0 - 0 + 1) /\ w \in Nat
  BY DEF Words16
<1>2. \A r \in 0 .. 0 - 0 : Digit(v, r) = Digit(w, 0 + r)
  <2> SUFFICES ASSUME NEW r \in 0 .. 0 - 0 PROVE Digit(v, r) = Digit(w, 0 + r)
    OBVIOUS
  <2>1. CASE r = 0
    BY <2>1 DEF Digit, Words16
  <2> QED BY <2>1
<1>3. 0 \in Positions /\ 0 \in Positions /\ 0 <= 0 /\ 0 - 0 + 1 \in FieldWidths
  BY DEF Positions, FieldWidths
<1> HIDE DEF v
<1>4. Extracted(w, 0 .. 0) = v
  BY <1>1, <1>2, <1>3, ExtractedValue
<1> QED BY <1>4 DEF v, Run

LEMMA Field_0_7 ==
  ASSUME NEW w \in Words16
  PROVE  Extracted(w, Run(0, 7)) = w % 256
<1> DEFINE v == w % 256
<1>1. v \in Words16 /\ v < 2 ^ (7 - 0 + 1) /\ w \in Nat
  BY DEF Words16
<1>2. \A r \in 0 .. 7 - 0 : Digit(v, r) = Digit(w, 0 + r)
  <2> SUFFICES ASSUME NEW r \in 0 .. 7 - 0 PROVE Digit(v, r) = Digit(w, 0 + r)
    OBVIOUS
  <2>1. CASE r = 0
    BY <2>1 DEF Digit, Words16
  <2>2. CASE r = 1
    BY <2>2 DEF Digit, Words16
  <2>3. CASE r = 2
    BY <2>3 DEF Digit, Words16
  <2>4. CASE r = 3
    BY <2>4 DEF Digit, Words16
  <2>5. CASE r = 4
    BY <2>5 DEF Digit, Words16
  <2>6. CASE r = 5
    BY <2>6 DEF Digit, Words16
  <2>7. CASE r = 6
    BY <2>7 DEF Digit, Words16
  <2>8. CASE r = 7
    BY <2>8 DEF Digit, Words16
  <2> QED BY <2>1, <2>2, <2>3, <2>4, <2>5, <2>6, <2>7, <2>8
<1>3. 0 \in Positions /\ 7 \in Positions /\ 0 <= 7 /\ 7 - 0 + 1 \in FieldWidths
  BY DEF Positions, FieldWidths
<1> HIDE DEF v
<1>4. Extracted(w, 0 .. 7) = v
  BY <1>1, <1>2, <1>3, ExtractedValue
<1> QED BY <1>4 DEF v, Run

LEMMA Field_0_10 ==
  ASSUME NEW w \in Words16
  PROVE  Extracted(w, Run(0, 10)) = w % 2048
<1> DEFINE v == w % 2048
<1>1. v \in Words16 /\ v < 2 ^ (10 - 0 + 1) /\ w \in Nat
  BY DEF Words16
<1>2. \A r \in 0 .. 10 - 0 : Digit(v, r) = Digit(w, 0 + r)
  <2> SUFFICES ASSUME NEW r \in 0 .. 10 - 0 PROVE Digit(v, r) = Digit(w, 0 + r)
    OBVIOUS
  <2>1. CASE r = 0
    BY <2>1 DEF Digit, Words16
  <2>2. CASE r = 1
    BY <2>2 DEF Digit, Words16
  <2>3. CASE r = 2
    BY <2>3 DEF Digit, Words16
  <2>4. CASE r = 3
    BY <2>4 DEF Digit, Words16
  <2>5. CASE r = 4
    BY <2>5 DEF Digit, Words16
  <2>6. CASE r = 5
    BY <2>6 DEF Digit, Words16
  <2>7. CASE r = 6
    BY <2>7 DEF Digit, Words16
  <2>8. CASE r = 7
    BY <2>8 DEF Digit, Words16
  <2>9. CASE r = 8
    BY <2>9 DEF Digit, Words16
  <2>10. CASE r = 9
    BY <2>10 DEF Digit, Words16
  <2>11. CASE r = 10
    BY <2>11 DEF Digit, Words16
  <2> QED BY <2>1, <2>2, <2>3, <2>4, <2>5, <2>6, <2>7, <2>8, <2>9, <2>10, <2>11
<1>3. 0 \in Positions /\ 10 \in Positions /\ 0 <= 10 /\ 10 - 0 + 1 \in FieldWidths
  BY DEF Positions, FieldWidths
<1> HIDE DEF v
<1>4. Extracted(w, 0 .. 10) = v
  BY <1>1, <1>2, <1>3, ExtractedValue
<1> QED BY <1>4 DEF v, Run

LEMMA Field_0_11 ==
  ASSUME NEW w \in Words16
  PROVE  Extracted(w, Run(0, 11)) = w % 4096
<1> DEFINE v == w % 4096
<1>1. v \in Words16 /\ v < 2 ^ (11 - 0 + 1) /\ w \in Nat
  BY DEF Words16
<1>2. \A r \in 0 .. 11 - 0 : Digit(v, r) = Digit(w, 0 + r)
  <2> SUFFICES ASSUME NEW r \in 0 .. 11 - 0 PROVE Digit(v, r) = Digit(w, 0 + r)
    OBVIOUS
  <2>1. CASE r = 0
    BY <2>1 DEF Digit, Words16
  <2>2. CASE r = 1
    BY <2>2 DEF Digit, Words16
  <2>3. CASE r = 2
    BY <2>3 DEF Digit, Words16
  <2>4. CASE r = 3
    BY <2>4 DEF Digit, Words16
  <2>5. CASE r = 4
    BY <2>5 DEF Digit, Words16
  <2>6. CASE r = 5
    BY <2>6 DEF Digit, Words16
  <2>7. CASE r = 6
    BY <2>7 DEF Digit, Words16
  <2>8. CASE r = 7
    BY <2>8 DEF Digit, Words16
  <2>9. CASE r = 8
    BY <2>9 DEF Digit, Words16
  <2>10. CASE r = 9
    BY <2>10 DEF Digit, Words16
  <2>11. CASE r = 10
    BY <2>11 DEF Digit, Words16
  <2>12. CASE r = 11
    BY <2>12 DEF Digit, Words16
  <2> QED BY <2>1, <2>2, <2>3, <2>4, <2>5, <2>6, <2>7, <2>8, <2>9, <2>10, <2>11, <2>12
<1>3. 0 \in Positions /\ 11 \in Positions /\ 0 <= 11 /\ 11 - 0 + 1 \in FieldWidths
  BY DEF Positions, FieldWidths
<1> HIDE DEF v
<1>4. Extracted(w, 0 .. 11) = v
  BY <1>1, <1>2, <1>3, ExtractedValue
<1> QED BY <1>4 DEF v, Run

LEMMA Field_8_10 ==
  ASSUME NEW w \in Words16
  PROVE  Extracted(w, Run(8, 10)) = (w \div 256) % 8
<1> DEFINE v == (w \div 256) % 8
<1>1. v \in Words16 /\ v < 2 ^ (10 - 8 + 1) /\ w \in Nat
  BY DEF Words16
<1>2. \A r \in 0 .. 10 - 8 : Digit(v, r) = Digit(w, 8 + r)
  <2> SUFFICES ASSUME NEW r \in 0 .. 10 - 8 PROVE Digit(v, r) = Digit(w, 8 + r)
    OBVIOUS
  <2>1. CASE r = 0
    BY <2>1 DEF Digit, Words16
  <2>2. CASE r = 1
    BY <2>2 DEF Digit, Words16
  <2>3. CASE r = 2
    BY <2>3 DEF Digit, Words16
  <2> QED BY <2>1, <2>2, <2>3
<1>3. 8 \in Positions /\ 10 \in Positions /\ 8 <= 10 /\ 10 - 8 + 1 \in FieldWidths
  BY DEF Positions, FieldWidths
<1> HIDE DEF v
<1>4. Extracted(w, 8 .. 10) = v
  BY <1>1, <1>2, <1>3, ExtractedValue
<1> QED BY <1>4 DEF v, Run

LEMMA Field_11_11 ==
  ASSUME NEW w \in Words16
  PROVE  Extracted(w, Run(11, 11)) = (w \div 2048) % 2
<1> DEFINE v == (w \div 2048) % 2
<1>1. v \in Words16 /\ v < 2 ^ (11 - 11 + 1) /\ w \in Nat
  BY DEF Words16
<1>2. \A r \in 0 .. 11 - 11 : Digit(v, r) = Digit(w, 11 + r)
  <2> SUFFICES ASSUME NEW r \in 0 .. 11 - 11 PROVE Digit(v, r) = Digit(w, 11 + r)
    OBVIOUS
  <2>1. CASE r = 0
    BY <2>1 DEF Digit, Words16
  <2> QED BY <2>1
<1>3. 11 \in Positions /\ 11 \in Positions /\ 11 <= 11 /\ 11 - 11 + 1 \in FieldWidths
  BY DEF Positions, FieldWidths
<1> HIDE DEF v
<1>4. Extracted(w, 11 .. 11) = v
  BY <1>1, <1>2, <1>3, ExtractedValue
<1> QED BY <1>4 DEF v, Run

LEMMA Field_11_13 ==
  ASSUME NEW w \in Words16
  PROVE  Extracted(w, Run(11, 13)) = (w \div 2048) % 8
<1> DEFINE v == (w \div 2048) % 8
<1>1. v \in Words16 /\ v < 2 ^ (13 - 11 + 1) /\ w \in Nat
  BY DEF Words16
<1>2. \A r \in 0 .. 13 - 11 : Digit(v, r) = Digit(w, 11 + r)
  <2> SUFFICES ASSUME NEW r \in 0 .. 13 - 11 PROVE Digit(v, r) = Digit(w, 11 + r)
    OBVIOUS
  <2>1. CASE r = 0
    BY <2>1 DEF Digit, Words16
  <2>2. CASE r = 1
    BY <2>2 DEF Digit, Words16
  <2>3. CASE r = 2
    BY <2>3 DEF Digit, Words16
  <2> QED BY <2>1, <2>2, <2>3
<1>3. 11 \in Positions /\ 13 \in Positions /\ 11 <= 13 /\ 13 - 11 + 1 \in FieldWidths
  BY DEF Positions, FieldWidths
<1> HIDE DEF v
<1>4. Extracted(w, 11 .. 13) = v
  BY <1>1, <1>2, <1>3, ExtractedValue
<1> QED BY <1>4 DEF v, Run

(***************************************************************************)
(* The table: the fixed bits of a form give the entry                      *)
(***************************************************************************)
Agree(v, w, lo) == \A p \in lo .. 15 : Digit(v, p) = Digit(w, p)

LEMMA SameHigh ==
  ASSUME NEW v \in Words16, NEW w \in Words16
  PROVE  /\ Agree(v, w, 8) => v \div 256 = w \div 256
         /\ Agree(v, w, 11) => v \div 2048 = w \div 2048
         /\ Agree(v, w, 12) => v \div 4096 = w \div 4096
         /\ Agree(v, w, 14) => v \div 16384 = w \div 16384
<1>15. Agree(v, w, 15) => v \div 32768 = w \div 32768
  <2>1. Agree(v, w, 15) => Digit(v, 15) = Digit(w, 15)
    BY DEF Agree
  <2> QED BY <2>1 DEF Digit, Words16
<1>14. Agree(v, w, 14) => v \div 16384 = w \div 16384
  <2>1. Agree(v, w, 14) => Agree(v, w, 15) /\ Digit(v, 14) = Digit(w, 14)
    BY DEF Agree
  <2> QED BY <2>1, <1>15 DEF Digit, Words16
<1>13. Agree(v, w, 13) => v \div 8192 = w \div 8192
  <2>1. Agree(v, w, 13) => Agree(v, w, 14) /\ Digit(v, 13) = Digit(w, 13)
    BY DEF Agree
  <2> QED BY <2>1, <1>14 DEF Digit, Words16
<1>12. Agree(v, w, 12) => v \div 4096 = w \div 4096
  <2>1. Agree(v, w, 12) => Agree(v, w, 13) /\ Digit(v, 12) = Digit(w, 12)
    BY DEF Agree
  <2> QED BY <2>1, <1>13 DEF Digit, Words16
<1>11. Agree(v, w, 11) => v \div 2048 = w \div 2048
  <2>1. Agree(v, w, 11) => Agree(v, w, 12) /\ Digit(v, 11) = Digit(w, 11)
    BY DEF Agree
  <2> QED BY <2>1, <1>12 DEF Digit, Words16
<1>10. Agree(v, w, 10) => v \div 1024 = w \div 1024
  <2>1. Agree(v, w, 10) => Agree(v, w, 11) /\ Digit(v, 10) = Digit(w, 10)
    BY DEF Agree
  <2> QED BY <2>1, <1>11 DEF Digit, Words16
<1>9. Agree(v, w, 9) => v \div 512 = w \div 512
  <2>1. Agree(v, w, 9) => Agree(v, w, 10) /\ Digit(v, 9) = Digit(w, 9)
    BY DEF Agree
  <2> QED BY <2>1, <1>10 DEF Digit, Words16
<1>8. Agree(v, w, 8) => v \div 256 = w \div 256
  <2>1. Agree(v, w, 8) => Agree(v, w, 9) /\ Digit(v, 8) = Digit(w, 8)
    BY DEF Agree
  <2> QED BY <2>1, <1>9 DEF Digit, Words16
<1> QED BY <1>8, <1>11, <1>12, <1>14

Operations == {0, 256, 512, 768}

LEMMA MatchesImmediate ==
  ASSUME NEW w \in Words16, NEW code \in Operations, Matches(w, ImmediateForm(code))
  PROVE  w \div 256 = 64 + code \div 256
<1>1. FieldBits(ImmediateForm(code)) = 0 .. 7 /\ ImmediateForm(code).code = 16384 + code
  BY DEF FieldBits, ImmediateForm, Form
<1>2. Agree(w, 16384 + code, 8)
  BY <1>1 DEF Agree, Matches, Positions
<1>3. 16384 + code \in Words16
  BY DEF Operations, Words16
<1>4. w \div 256 = (16384 + code) \div 256
  BY <1>2, <1>3, SameHigh
<1> QED BY <1>4 DEF Operations

LEMMA MatchesMem ==
  ASSUME NEW w \in Words16, NEW code \in {0} \cup {16384 + c : c \in Operations},
         Matches(w, MemForm(code))
  PROVE  w \div 256 = 16 + code \div 256
<1>0. code \in {0, 16384, 16640, 16896, 17152}
  BY DEF Operations
<1>1. FieldBits(MemForm(code)) = 0 .. 7 /\ MemForm(code).code = 4096 + code
  BY DEF FieldBits, MemForm, Form
<1>2. Agree(w, 4096 + code, 8)
  BY <1>1 DEF Agree, Matches, Positions
<1>3. 4096 + code \in Words16
  BY <1>0 DEF Words16
<1>4. w \div 256 = (4096 + code) \div 256
  BY <1>2, <1>3, SameHigh
<1> QED BY <1>0, <1>4

LEMMA MatchesIndirect ==
  ASSUME NEW w \in Words16, NEW code \in {0} \cup {16384 + c : c \in Operations},
         Matches(w, IndirectForm(code))
  PROVE  w \div 256 = 32 + code \div 256
<1>0. code \in {0, 16384, 16640, 16896, 17152}
  BY DEF Operations
<1>1. FieldBits(IndirectForm(code)) = {0} /\ IndirectForm(code).code = 8192 + code
  BY DEF FieldBits, IndirectForm, Form
<1>2. Agree(w, 8192 + code, 8)
  BY <1>1 DEF Agree, Matches, Positions
<1>3. 8192 + code \in Words16
  BY <1>0 DEF Words16
<1>4. w \div 256 = (8192 + code) \div 256
  BY <1>2, <1>3, SameHigh
<1> QED BY <1>0, <1>4

LEMMA MatchesPostincrement ==
  ASSUME NEW w \in Words16, NEW code \in {0} \cup {16384 + c : c \in Operations},
         Matches(w, PostincrementForm(code))
  PROVE  w \div 256 = 48 + code \div 256
<1>0. code \in {0, 16384, 16640, 16896, 17152}
  BY DEF Operations
<1>1. FieldBits(PostincrementForm(code)) = {0} /\ PostincrementForm(code).code = 12288 + code
  BY DEF FieldBits, PostincrementForm, Form
<1>2. Agree(w, 12288 + code, 8)
  BY <1>1 DEF Agree, Matches, Positions
<1>3. 12288 + code \in Words16
  BY <1>0 DEF Words16
<1>4. w \div 256 = (12288 + code) \div 256
  BY <1>2, <1>3, SameHigh
<1> QED BY <1>0, <1>4

LEMMA MatchesOpr ==
  ASSUME NEW w \in Words16, Matches(w, Forms["opr"][1])
  PROVE  w \div 4096 = 0
<1>1. FieldBits(Forms["opr"][1]) = 0 .. 11 /\ Forms["opr"][1].code = 0
  BY DEF FieldBits, Forms, Form
<1>2. Agree(w, 0, 12)
  BY <1>1 DEF Agree, Matches, Positions
<1> QED BY <1>2, SameHigh DEF Words16

LEMMA MatchesJump ==
  ASSUME NEW w \in Words16, Matches(w, Forms["jump"][1])
  PROVE  w \div 2048 = 16
<1>1. FieldBits(Forms["jump"][1]) = 0 .. 10 /\ Forms["jump"][1].code = 32768
  BY DEF FieldBits, Forms, Form
<1>2. Agree(w, 32768, 11)
  BY <1>1 DEF Agree, Matches, Positions
<1> QED BY <1>2, SameHigh DEF Words16

LEMMA MatchesCall ==
  ASSUME NEW w \in Words16, Matches(w, Forms["call"][1])
  PROVE  w \div 2048 = 17
<1>1. FieldBits(Forms["call"][1]) = 0 .. 10 /\ Forms["call"][1].code = 34816
  BY DEF FieldBits, Forms, Form
<1>2. Agree(w, 34816, 11)
  BY <1>1 DEF Agree, Matches, Positions
<1> QED BY <1>2, SameHigh DEF Words16

LEMMA MatchesBranch ==
  ASSUME NEW w \in Words16, Matches(w, Forms["br"][1])
  PROVE  w \div 16384 = 3
<1>1. FieldBits(Forms["br"][1]) = 0 .. 13 /\ Forms["br"][1].code = 49152
  BY DEF FieldBits, Forms, Form
<1>2. Agree(w, 49152, 14)
  BY <1>1 DEF Agree, Matches, Positions
<1> QED BY <1>2, SameHigh DEF Words16

LEMMA MatchesSkipMem ==
  ASSUME NEW w \in Words16, Matches(w, Forms["skb"][1])
  PROVE  w \div 4096 = 9
<1>1. FieldBits(Forms["skb"][1]) = 0 .. 11 /\ Forms["skb"][1].code = 36864
  BY DEF FieldBits, Forms, Form
<1>2. Agree(w, 36864, 12)
  BY <1>1 DEF Agree, Matches, Positions
<1> QED BY <1>2, SameHigh DEF Words16

LEMMA MatchesSkipIndirect ==
  ASSUME NEW w \in Words16, Matches(w, Forms["skb"][2])
  PROVE  w \div 4096 = 10
<1>1. FieldBits(Forms["skb"][2]) = {0} \cup 8 .. 11 /\ Forms["skb"][2].code = 40960
  BY DEF FieldBits, Forms, Form
<1>2. Agree(w, 40960, 12)
  BY <1>1 DEF Agree, Matches, Positions
<1> QED BY <1>2, SameHigh DEF Words16

LEMMA MatchesSkipPostincrement ==
  ASSUME NEW w \in Words16, Matches(w, Forms["skb"][3])
  PROVE  w \div 4096 = 11
<1>1. FieldBits(Forms["skb"][3]) = {0} \cup 8 .. 11 /\ Forms["skb"][3].code = 45056
  BY DEF FieldBits, Forms, Form
<1>2. Agree(w, 45056, 12)
  BY <1>1 DEF Agree, Matches, Positions
<1> QED BY <1>2, SameHigh DEF Words16

OperationOf(n) ==
  IF n = 0 THEN "load" ELSE IF n = 1 THEN "and" ELSE IF n = 2 THEN "xor" ELSE "adc"

Entry(w) ==
  IF w \div 4096 = 0 THEN <<"opr", 1>>
  ELSE IF w \div 4096 < 4 THEN <<"store", w \div 4096>>
  ELSE IF w \div 4096 < 8 THEN <<OperationOf((w \div 256) % 4), w \div 4096 - 3>>
  ELSE IF w \div 2048 = 16 THEN <<"jump", 1>>
  ELSE IF w \div 2048 = 17 THEN <<"call", 1>>
  ELSE IF w \div 4096 < 12 THEN <<"skb", w \div 4096 - 8>>
  ELSE <<"br", 1>>

LEMMA EntryOfOperation ==
  ASSUME NEW w \in Words16, NEW n \in 0 .. 3, NEW k \in 1 .. 4,
         Matches(w, OperationForms(256 * n)[k])
  PROVE  Entry(w) = <<OperationOf(n), k>>
<1> DEFINE code == 256 * n
<1>1. code \in Operations /\ 16384 + code \in {0} \cup {16384 + c : c \in Operations}
  BY DEF Operations
<1>2. code \div 256 = n /\ (16384 + code) \div 256 = 64 + n
  OBVIOUS
<1>3. /\ OperationForms(code)[1] = ImmediateForm(code)
      /\ OperationForms(code)[2] = MemForm(16384 + code)
      /\ OperationForms(code)[3] = IndirectForm(16384 + code)
      /\ OperationForms(code)[4] = PostincrementForm(16384 + code)
  BY DEF OperationForms
<1> HIDE DEF code
<1>4. w \div 256 = 48 + 16 * k + n
  <2>1. CASE k = 1
    BY <1>1, <1>2, <1>3, <2>1, MatchesImmediate DEF code
  <2>2. CASE k = 2
    BY <1>1, <1>2, <1>3, <2>2, MatchesMem DEF code
  <2>3. CASE k = 3
    BY <1>1, <1>2, <1>3, <2>3, MatchesIndirect DEF code
  <2>4. CASE k = 4
    BY <1>1, <1>2, <1>3, <2>4, MatchesPostincrement DEF code
  <2> QED BY <2>1, <2>2, <2>3, <2>4
<1>5. w \div 4096 = 3 + k /\ (w \div 256) % 4 = n
  BY <1>4 DEF Words16
<1> QED BY <1>5 DEF Entry

LEMMA EntryOfStore ==
  ASSUME NEW w \in Words16, NEW k \in 1 .. 3, Matches(w, Forms["store"][k])
  PROVE  Entry(w) = <<"store", k>>
<1>1. 0 \in {0} \cup {16384 + c : c \in Operations} /\ 0 \div 256 = 0
  OBVIOUS
<1>2. /\ Forms["store"][1] = MemForm(0) /\ Forms["store"][2] = IndirectForm(0)
      /\ Forms["store"][3] = PostincrementForm(0)
  BY DEF Forms
<1>3. w \div 256 = 16 * k
  <2>1. CASE k = 1
    BY <1>1, <1>2, <2>1, MatchesMem
  <2>2. CASE k = 2
    BY <1>1, <1>2, <2>2, MatchesIndirect
  <2>3. CASE k = 3
    BY <1>1, <1>2, <2>3, MatchesPostincrement
  <2> QED BY <2>1, <2>2, <2>3
<1>4. w \div 4096 = k
  BY <1>3 DEF Words16
<1> QED BY <1>4 DEF Entry

LEMMA EntryOfSkip ==
  ASSUME NEW w \in Words16, NEW k \in 1 .. 3, Matches(w, Forms["skb"][k])
  PROVE  Entry(w) = <<"skb", k>>
<1>1. w \div 4096 = 8 + k
  <2>1. CASE k = 1
    BY <2>1, MatchesSkipMem
  <2>2. CASE k = 2
    BY <2>2, MatchesSkipIndirect
  <2>3. CASE k = 3
    BY <2>3, MatchesSkipPostincrement
  <2> QED BY <2>1, <2>2, <2>3
<1>2. w \div 2048 # 16 /\ w \div 2048 # 17
  BY <1>1 DEF Words16
<1> QED BY <1>1, <1>2 DEF Entry

LEMMA Table ==
  /\ Mnemonics = {"opr", "store", "load", "and", "xor", "adc", "jump", "call", "skb", "br"}
  /\ DOMAIN Forms["opr"] = {1} /\ DOMAIN Forms["jump"] = {1}
  /\ DOMAIN Forms["call"] = {1} /\ DOMAIN Forms["br"] = {1}
  /\ DOMAIN Forms["store"] = 1 .. 3 /\ DOMAIN Forms["skb"] = 1 .. 3
  /\ Forms["load"] = OperationForms(256 * 0) /\ Forms["and"] = OperationForms(256 * 1)
  /\ Forms["xor"] = OperationForms(256 * 2) /\ Forms["adc"] = OperationForms(256 * 3)
<1>1. Mnemonics = {"opr", "store", "load", "and", "xor", "adc", "jump", "call", "skb", "br"}
  BY DEF Mnemonics, Forms
<1>2. /\ DOMAIN Forms["opr"] = {1} /\ DOMAIN Forms["jump"] = {1}
      /\ DOMAIN Forms["call"] = {1} /\ DOMAIN Forms["br"] = {1}
      /\ DOMAIN Forms["store"] = 1 .. 3 /\ DOMAIN Forms["skb"] = 1 .. 3
  BY DEF Forms
<1>3. /\ Forms["load"] = OperationForms(256 * 0) /\ Forms["and"] = OperationForms(256 * 1)
      /\ Forms["xor"] = OperationForms(256 * 2) /\ Forms["adc"] = OperationForms(256 * 3)
  BY DEF Forms
<1> QED BY <1>1, <1>2, <1>3

LEMMA FourOperationForms == \A code : DOMAIN OperationForms(code) = 1 .. 4
BY DEF OperationForms

(* No word has two entries.                                                *)
LEMMA OneEntry ==
  ASSUME NEW w \in Words16, NEW m \in Mnemonics, NEW k \in DOMAIN Forms[m],
         Matches(w, Forms[m][k])
  PROVE  Entry(w) = <<m, k>>
<1>1. CASE m = "opr"
  <2>1. k = 1 /\ w \div 4096 = 0
    BY <1>1, Table, MatchesOpr
  <2> QED BY <1>1, <2>1 DEF Entry
<1>2. CASE m = "store"
  BY <1>2, Table, EntryOfStore
<1>3. CASE m = "load"
  <2>1. Entry(w) = <<OperationOf(0), k>>
    BY <1>3, Table, FourOperationForms, EntryOfOperation
  <2> QED BY <2>1, <1>3 DEF OperationOf
<1>4. CASE m = "and"
  <2>1. Entry(w) = <<OperationOf(1), k>>
    BY <1>4, Table, FourOperationForms, EntryOfOperation
  <2> QED BY <2>1, <1>4 DEF OperationOf
<1>5. CASE m = "xor"
  <2>1. Entry(w) = <<OperationOf(2), k>>
    BY <1>5, Table, FourOperationForms, EntryOfOperation
  <2> QED BY <2>1, <1>5 DEF OperationOf
<1>6. CASE m = "adc"
  <2>1. Entry(w) = <<OperationOf(3), k>>
    BY <1>6, Table, FourOperationForms, EntryOfOperation
  <2> QED BY <2>1, <1>6 DEF OperationOf
<1>7. CASE m = "jump"
  <2>1. k = 1 /\ w \div 2048 = 16
    BY <1>7, Table, MatchesJump
  <2>2. w \div 4096 = 8
    BY <2>1 DEF Words16
  <2> QED BY <1>7, <2>1, <2>2 DEF Entry
<1>8. CASE m = "call"
  <2>1. k = 1 /\ w \div 2048 = 17
    BY <1>8, Table, MatchesCall
  <2>2. w \div 4096 = 8
    BY <2>1 DEF Words16
  <2> QED BY <1>8, <2>1, <2>2 DEF Entry
<1>9. CASE m = "skb"
  BY <1>9, Table, EntryOfSkip
<1>10. CASE m = "br"
  <2>1. k = 1 /\ w \div 16384 = 3
    BY <1>10, Table, MatchesBranch
  <2>2. w \div 4096 >= 12 /\ w \div 2048 >= 24
    BY <2>1 DEF Words16
  <2> QED BY <1>10, <2>1, <2>2 DEF Entry, Words16
<1> QED BY Table, <1>1, <1>2, <1>3, <1>4, <1>5, <1>6, <1>7, <1>8, <1>9, <1>10

LEMMA MatchingEntry ==
  ASSUME NEW w \in Words16, Matching(w) # {}
  PROVE  Matching(w) = {Entry(w)}
<1>1. ASSUME NEW e \in Matching(w) PROVE e = Entry(w)
  <2>1. PICK m \in Mnemonics : e \in {m} \X DOMAIN Forms[m]
    BY DEF Matching
  <2>2. e[1] = m /\ e[2] \in DOMAIN Forms[m] /\ e = <<m, e[2]>>
    BY <2>1
  <2>3. Matches(w, Forms[m][e[2]])
    BY <2>2 DEF Matching
  <2> QED BY <2>2, <2>3, OneEntry
<1> QED BY <1>1

(* The decoder has no choice.                                              *)
LEMMA DecodedEntry ==
  ASSUME NEW w \in Words16, Matching(w) # {}
  PROVE  LET form == Forms[Entry(w)[1]][Entry(w)[2]]
         IN  /\ Entry(w)[1] \in Mnemonics /\ Entry(w)[2] \in DOMAIN Forms[Entry(w)[1]]
             /\ Matches(w, form)
             /\ Decoded(w) =
                  [mnem |-> Entry(w)[1], types |-> form.types,
                   fields |-> [f \in DOMAIN form.fields |-> ExtractField(w, form, f)]]
<1> DEFINE entry == CHOOSE mf \in Matching(w) : TRUE
<1>1. entry = Entry(w) /\ Entry(w) \in Matching(w)
  BY MatchingEntry
<1>2. PICK m \in Mnemonics : Entry(w) \in {m} \X DOMAIN Forms[m]
  BY <1>1 DEF Matching
<1>3. Entry(w)[1] = m /\ Entry(w)[2] \in DOMAIN Forms[m]
  BY <1>2
<1>4. Matches(w, Forms[Entry(w)[1]][Entry(w)[2]])
  BY <1>1 DEF Matching
<1>5. Decoded(w) =
        LET form == Forms[entry[1]][entry[2]]
        IN  [mnem |-> entry[1], types |-> form.types,
             fields |-> [f \in DOMAIN form.fields |-> ExtractField(w, form, f)]]
  BY Zenon DEF Decoded
<1> HIDE DEF entry
<1> QED BY <1>1, <1>3, <1>4, <1>5

(***************************************************************************)
(* What the decoder returns for each kind of instruction                   *)
(***************************************************************************)
DecodedAs(w, m, k) ==
  /\ Decoded(w).mnem = m /\ Decoded(w).types = Forms[m][k].types
  /\ \A f \in DOMAIN Forms[m][k].fields :
       Decoded(w).fields[f] = IF f = "j" THEN 2 * Extracted(w, Forms[m][k].fields[f])
                              ELSE 1 * Extracted(w, Forms[m][k].fields[f])

LEMMA DecodedForm ==
  ASSUME NEW w \in Words16, Matching(w) # {},
         NEW m \in Mnemonics, NEW k \in DOMAIN Forms[m], Entry(w) = <<m, k>>
  PROVE  DecodedAs(w, m, k)
<1>1. Entry(w)[1] = m /\ Entry(w)[2] = k
  OBVIOUS
<1>2. Decoded(w) =
        [mnem |-> m, types |-> Forms[m][k].types,
         fields |-> [f \in DOMAIN Forms[m][k].fields |-> ExtractField(w, Forms[m][k], f)]]
  BY <1>1, DecodedEntry
<1>3. /\ Decoded(w).mnem = m /\ Decoded(w).types = Forms[m][k].types
      /\ \A f \in DOMAIN Forms[m][k].fields :
           Decoded(w).fields[f] = ExtractField(w, Forms[m][k], f)
  BY <1>2
<1>4. \A f : ExtractField(w, Forms[m][k], f) =
        IF f = "j" THEN 2 * Extracted(w, Forms[m][k].fields[f])
        ELSE 1 * Extracted(w, Forms[m][k].fields[f])
  BY DEF ExtractField
<1> QED BY <1>3, <1>4 DEF DecodedAs

LEMMA DecodedOpr ==
  ASSUME NEW w \in Words16, Matching(w) # {}, w \div 4096 = 0
  PROVE  Decoded(w).mnem = "opr" /\ Decoded(w).fields["i"] = w % 4096
<1>1. Entry(w) = <<"opr", 1>> /\ "opr" \in Mnemonics /\ 1 \in DOMAIN Forms["opr"]
  BY Table DEF Entry
<1>2. DOMAIN Forms["opr"][1].fields = {"i"} /\ Forms["opr"][1].fields["i"] = Run(0, 11)
  BY DEF Forms, Form, Run
<1>3. Decoded(w).mnem = "opr" /\ Decoded(w).fields["i"] = 1 * Extracted(w, Run(0, 11))
  <2>1. DecodedAs(w, "opr", 1)
    BY <1>1, DecodedForm
  <2> QED BY <1>2, <2>1 DEF DecodedAs
<1>4. Extracted(w, Run(0, 11)) = w % 4096
  BY Field_0_11
<1> QED BY <1>3, <1>4 DEF Words16

LEMMA DecodedJump ==
  ASSUME NEW w \in Words16, Matching(w) # {}, w \div 4096 = 8
  PROVE  /\ Decoded(w).mnem = IF w \div 2048 = 17 THEN "call" ELSE "jump"
         /\ Decoded(w).fields["j"] = 2 * (w % 2048)
<1> DEFINE m == IF w \div 2048 = 17 THEN "call" ELSE "jump"
<1>1. Entry(w) = <<m, 1>> /\ m \in Mnemonics /\ 1 \in DOMAIN Forms[m]
  <2>1. w \div 2048 = 16 \/ w \div 2048 = 17
    BY DEF Words16
  <2> QED BY <2>1, Table DEF Entry
<1>2. DOMAIN Forms[m][1].fields = {"j"} /\ Forms[m][1].fields["j"] = Run(0, 10)
  BY DEF Forms, Form, Run
<1> HIDE DEF m
<1>3. Decoded(w).mnem = m /\ Decoded(w).fields["j"] = 2 * Extracted(w, Run(0, 10))
  <2>1. DecodedAs(w, m, 1)
    BY <1>1, DecodedForm
  <2> QED BY <1>2, <2>1 DEF DecodedAs
<1>4. Extracted(w, Run(0, 10)) = w % 2048
  BY Field_0_10
<1> QED BY <1>3, <1>4 DEF m

LEMMA DecodedBranch ==
  ASSUME NEW w \in Words16, Matching(w) # {}, w \div 4096 >= 12
  PROVE  /\ Decoded(w).mnem = "br"
         /\ Decoded(w).fields["j"] = 2 * (w % 2048)
         /\ Decoded(w).fields["c"] = (w \div 2048) % 8
<1>1. Entry(w) = <<"br", 1>> /\ "br" \in Mnemonics /\ 1 \in DOMAIN Forms["br"]
  <2>1. w \div 2048 >= 24
    BY DEF Words16
  <2> QED BY <2>1, Table DEF Entry, Words16
<1>2. /\ DOMAIN Forms["br"][1].fields = {"c", "j"} /\ Forms["br"][1].fields["j"] = Run(0, 10)
      /\ Forms["br"][1].fields["c"] = Run(11, 13)
  BY DEF Forms, Form, Run
<1>3. /\ Decoded(w).mnem = "br" /\ Decoded(w).fields["j"] = 2 * Extracted(w, Run(0, 10))
      /\ Decoded(w).fields["c"] = 1 * Extracted(w, Run(11, 13))
  <2>1. DecodedAs(w, "br", 1)
    BY <1>1, DecodedForm
  <2> QED BY <1>2, <2>1 DEF DecodedAs
<1>4. Extracted(w, Run(0, 10)) = w % 2048 /\ Extracted(w, Run(11, 13)) = (w \div 2048) % 8
  BY Field_0_10, Field_11_13
<1> QED BY <1>3, <1>4 DEF Words16

TypeOfMode(mode) ==
  IF mode = 0 THEN "imm" ELSE IF mode = 1 THEN "mem" ELSE IF mode = 2 THEN "ind" ELSE "postinc"

LEMMA FormFields ==
  ASSUME NEW code
  PROVE  /\ ImmediateForm(code).types = <<"imm">> /\ ImmediateForm(code).fields = [i |-> Run(0, 7)]
         /\ MemForm(code).types = <<"mem">> /\ MemForm(code).fields = [m |-> Run(0, 7)]
         /\ IndirectForm(code).types = <<"ind">> /\ IndirectForm(code).fields = [x |-> Run(0, 0)]
         /\ PostincrementForm(code).types = <<"postinc">>
         /\ PostincrementForm(code).fields = [x |-> Run(0, 0)]
BY DEF Form, ImmediateForm, MemForm, IndirectForm, PostincrementForm, Run

(* The operand, where it is the whole of the low byte.                     *)
LEMMA DecodedOperandForm ==
  ASSUME NEW w \in Words16, Matching(w) # {},
         NEW m \in Mnemonics, NEW k \in DOMAIN Forms[m], Entry(w) = <<m, k>>,
         NEW code, NEW mode \in 0 .. 3,
         Forms[m][k] = IF mode = 0 THEN ImmediateForm(code)
                       ELSE IF mode = 1 THEN MemForm(code)
                       ELSE IF mode = 2 THEN IndirectForm(code) ELSE PostincrementForm(code)
  PROVE  /\ Decoded(w).mnem = m
         /\ Decoded(w).types[1] = TypeOfMode(mode)
         /\ mode = 0 => Decoded(w).fields["i"] = w % 256
         /\ mode = 1 => Decoded(w).fields["m"] = w % 256
         /\ mode >= 2 => Decoded(w).fields["x"] = w % 2
<1>1. Extracted(w, Run(0, 7)) = w % 256 /\ Extracted(w, Run(0, 0)) = w % 2
  BY Field_0_7, Field_0_0
<1>2. w % 256 \in Int /\ w % 2 \in Int
  BY DEF Words16
<1>3. DecodedAs(w, m, k) /\ Decoded(w).mnem = m
  BY DecodedForm DEF DecodedAs
<1>4. CASE mode = 0
  <2>1. Forms[m][k].types = <<"imm">> /\ Forms[m][k].fields = [i |-> Run(0, 7)]
    BY <1>4, FormFields
  <2>2. Decoded(w).types = <<"imm">> /\ Decoded(w).fields["i"] = 1 * Extracted(w, Run(0, 7))
    BY <2>1, <1>3 DEF DecodedAs
  <2> QED BY <1>1, <1>2, <1>3, <1>4, <2>2 DEF TypeOfMode
<1>5. CASE mode = 1
  <2>1. Forms[m][k].types = <<"mem">> /\ Forms[m][k].fields = [m |-> Run(0, 7)]
    BY <1>5, FormFields
  <2>2. Decoded(w).types = <<"mem">> /\ Decoded(w).fields["m"] = 1 * Extracted(w, Run(0, 7))
    BY <2>1, <1>3 DEF DecodedAs
  <2> QED BY <1>1, <1>2, <1>3, <1>5, <2>2 DEF TypeOfMode
<1>6. CASE mode = 2
  <2>1. Forms[m][k].types = <<"ind">> /\ Forms[m][k].fields = [x |-> Run(0, 0)]
    BY <1>6, FormFields
  <2>2. Decoded(w).types = <<"ind">> /\ Decoded(w).fields["x"] = 1 * Extracted(w, Run(0, 0))
    BY <2>1, <1>3 DEF DecodedAs
  <2> QED BY <1>1, <1>2, <1>3, <1>6, <2>2 DEF TypeOfMode
<1>7. CASE mode = 3
  <2>1. Forms[m][k].types = <<"postinc">> /\ Forms[m][k].fields = [x |-> Run(0, 0)]
    BY <1>7, FormFields
  <2>2. Decoded(w).types = <<"postinc">> /\ Decoded(w).fields["x"] = 1 * Extracted(w, Run(0, 0))
    BY <2>1, <1>3 DEF DecodedAs
  <2> QED BY <1>1, <1>2, <1>3, <1>7, <2>2 DEF TypeOfMode
<1> QED BY <1>4, <1>5, <1>6, <1>7

DecodedOperand(w, mode) ==
  /\ Decoded(w).types[1] = TypeOfMode(mode)
  /\ mode = 0 => Decoded(w).fields["i"] = w % 256
  /\ mode = 1 => Decoded(w).fields["m"] = w % 256
  /\ mode >= 2 => Decoded(w).fields["x"] = w % 2

LEMMA DecodedStore ==
  ASSUME NEW w \in Words16, Matching(w) # {}, NEW k \in 1 .. 3, w \div 4096 = k
  PROVE  Decoded(w).mnem = "store" /\ DecodedOperand(w, k)
<1>1. Entry(w) = <<"store", k>> /\ "store" \in Mnemonics /\ k \in DOMAIN Forms["store"]
  BY Table DEF Entry
<1>2. Forms["store"][k] = IF k = 0 THEN ImmediateForm(0) ELSE IF k = 1 THEN MemForm(0)
                          ELSE IF k = 2 THEN IndirectForm(0) ELSE PostincrementForm(0)
  BY DEF Forms
<1> QED BY <1>1, <1>2, DecodedOperandForm DEF DecodedOperand

LEMMA DecodedOperation ==
  ASSUME NEW w \in Words16, Matching(w) # {}, NEW mode \in 0 .. 3, w \div 4096 = 4 + mode
  PROVE  Decoded(w).mnem = OperationOf((w \div 256) % 4) /\ DecodedOperand(w, mode)
<1> DEFINE n == (w \div 256) % 4
           op == OperationOf(n)
<1>1. n \in 0 .. 3
  BY DEF Words16
<1> HIDE DEF n
<1>2. Entry(w) = <<op, mode + 1>>
  BY DEF Entry, n
<1>3. op \in Mnemonics /\ Forms[op] = OperationForms(256 * n)
  BY <1>1, Table DEF OperationOf
<1> HIDE DEF op
<1>4. mode + 1 \in DOMAIN Forms[op]
  BY <1>3, FourOperationForms
<1>5. \E code : Forms[op][mode + 1] =
        IF mode = 0 THEN ImmediateForm(code) ELSE IF mode = 1 THEN MemForm(code)
        ELSE IF mode = 2 THEN IndirectForm(code) ELSE PostincrementForm(code)
  <2>1. CASE mode = 0
    BY <1>3, <2>1 DEF OperationForms
  <2>2. CASE mode # 0
    BY <1>3, <2>2 DEF OperationForms
  <2> QED BY <2>1, <2>2
<1>6. Decoded(w).mnem = op /\ DecodedOperand(w, mode)
  BY <1>2, <1>3, <1>4, <1>5, DecodedOperandForm DEF DecodedOperand
<1> QED BY <1>6 DEF op, n

LEMMA DecodedSkip ==
  ASSUME NEW w \in Words16, Matching(w) # {}, NEW k \in 1 .. 3, w \div 4096 = 8 + k
  PROVE  /\ Decoded(w).mnem = "skb" /\ DecodedOperand(w, k)
         /\ Decoded(w).fields["b"] = (w \div 256) % 8
         /\ Decoded(w).fields["i"] = (w \div 2048) % 2
<1>1. Entry(w) = <<"skb", k>> /\ "skb" \in Mnemonics /\ k \in DOMAIN Forms["skb"]
  <2>1. w \div 2048 # 16 /\ w \div 2048 # 17
    BY DEF Words16
  <2> QED BY <2>1, Table DEF Entry
<1>2. /\ Extracted(w, Run(0, 7)) = w % 256 /\ Extracted(w, Run(0, 0)) = w % 2
      /\ Extracted(w, Run(8, 10)) = (w \div 256) % 8 /\ Extracted(w, Run(11, 11)) = (w \div 2048) % 2
  BY Field_0_7, Field_0_0, Field_8_10, Field_11_11
<1>3. w % 256 \in Int /\ w % 2 \in Int /\ (w \div 256) % 8 \in Int /\ (w \div 2048) % 2 \in Int
  BY DEF Words16
<1>4. /\ Forms["skb"][k].types[1] = TypeOfMode(k)
      /\ {"b", "i"} \subseteq DOMAIN Forms["skb"][k].fields
      /\ Forms["skb"][k].fields["b"] = Run(8, 10) /\ Forms["skb"][k].fields["i"] = Run(11, 11)
      /\ k = 1 => "m" \in DOMAIN Forms["skb"][k].fields /\ Forms["skb"][k].fields["m"] = Run(0, 7)
      /\ k >= 2 => "x" \in DOMAIN Forms["skb"][k].fields /\ Forms["skb"][k].fields["x"] = Run(0, 0)
  <2>1. CASE k = 1
    BY <2>1 DEF Forms, Form, TypeOfMode, Run
  <2>2. CASE k = 2
    BY <2>2 DEF Forms, Form, TypeOfMode, Run
  <2>3. CASE k = 3
    BY <2>3 DEF Forms, Form, TypeOfMode, Run
  <2> QED BY <2>1, <2>2, <2>3
<1>5. /\ Decoded(w).mnem = "skb" /\ Decoded(w).types[1] = TypeOfMode(k)
      /\ Decoded(w).fields["b"] = 1 * Extracted(w, Run(8, 10))
      /\ Decoded(w).fields["i"] = 1 * Extracted(w, Run(11, 11))
      /\ k = 1 => Decoded(w).fields["m"] = 1 * Extracted(w, Run(0, 7))
      /\ k >= 2 => Decoded(w).fields["x"] = 1 * Extracted(w, Run(0, 0))
  <2>1. DecodedAs(w, "skb", k)
    BY <1>1, DecodedForm
  <2> QED BY <1>4, <2>1 DEF DecodedAs
<1> QED BY <1>2, <1>3, <1>5 DEF DecodedOperand

(***************************************************************************)
(* Every form has fields that are runs and do not overlap                  *)
(***************************************************************************)
IsRun(field) ==
  \E lo, hi \in Positions : lo <= hi /\ hi - lo + 1 \in FieldWidths /\ field = lo .. hi

WellFormed(form) ==
  /\ form.code \in Words16
  /\ \A f \in DOMAIN form.fields : IsRun(form.fields[f])
  /\ \A f, g \in DOMAIN form.fields : f # g => form.fields[f] \cap form.fields[g] = {}

LEMMA Runs ==
  /\ IsRun(Run(0, 7)) /\ IsRun(Run(0, 10)) /\ IsRun(Run(0, 11)) /\ IsRun(Run(0, 0))
  /\ IsRun(Run(8, 10)) /\ IsRun(Run(11, 11)) /\ IsRun(Run(11, 13))
<1>1. IsRun(Run(0, 7))
  <2>1. 0 \in Positions /\ 7 \in Positions /\ 0 <= 7 /\ 7 - 0 + 1 \in FieldWidths
    BY DEF Positions, FieldWidths
  <2> QED BY <2>1, Zenon DEF IsRun, Run
<1>2. IsRun(Run(0, 10))
  <2>1. 0 \in Positions /\ 10 \in Positions /\ 0 <= 10 /\ 10 - 0 + 1 \in FieldWidths
    BY DEF Positions, FieldWidths
  <2> QED BY <2>1, Zenon DEF IsRun, Run
<1>3. IsRun(Run(0, 11))
  <2>1. 0 \in Positions /\ 11 \in Positions /\ 0 <= 11 /\ 11 - 0 + 1 \in FieldWidths
    BY DEF Positions, FieldWidths
  <2> QED BY <2>1, Zenon DEF IsRun, Run
<1>4. IsRun(Run(0, 0))
  <2>1. 0 \in Positions /\ 0 \in Positions /\ 0 <= 0 /\ 0 - 0 + 1 \in FieldWidths
    BY DEF Positions, FieldWidths
  <2> QED BY <2>1, Zenon DEF IsRun, Run
<1>5. IsRun(Run(8, 10))
  <2>1. 8 \in Positions /\ 10 \in Positions /\ 8 <= 10 /\ 10 - 8 + 1 \in FieldWidths
    BY DEF Positions, FieldWidths
  <2> QED BY <2>1, Zenon DEF IsRun, Run
<1>6. IsRun(Run(11, 11))
  <2>1. 11 \in Positions /\ 11 \in Positions /\ 11 <= 11 /\ 11 - 11 + 1 \in FieldWidths
    BY DEF Positions, FieldWidths
  <2> QED BY <2>1, Zenon DEF IsRun, Run
<1>7. IsRun(Run(11, 13))
  <2>1. 11 \in Positions /\ 13 \in Positions /\ 11 <= 13 /\ 13 - 11 + 1 \in FieldWidths
    BY DEF Positions, FieldWidths
  <2> QED BY <2>1, Zenon DEF IsRun, Run
<1> QED BY <1>1, <1>2, <1>3, <1>4, <1>5, <1>6, <1>7

LEMMA RunsApart ==
  /\ Run(0, 10) \cap Run(11, 13) = {} /\ Run(11, 11) \cap Run(8, 10) = {}
  /\ Run(11, 11) \cap Run(0, 7) = {} /\ Run(8, 10) \cap Run(0, 7) = {}
  /\ Run(11, 11) \cap Run(0, 0) = {} /\ Run(8, 10) \cap Run(0, 0) = {}
BY DEF Run

LEMMA OperandFormsWellFormed ==
  ASSUME NEW code \in {0, 16384, 16640, 16896, 17152}
  PROVE  WellFormed(MemForm(code)) /\ WellFormed(IndirectForm(code)) /\ WellFormed(PostincrementForm(code))
<1>1. WellFormed(MemForm(code))
  <2>1. /\ MemForm(code).code = 4096 + code /\ DOMAIN MemForm(code).fields = {"m"}
        /\ MemForm(code).fields["m"] = Run(0, 7)
    BY DEF MemForm, Form, Run
  <2>2. 4096 + code \in Words16
    BY DEF Words16
  <2> QED BY <2>1, <2>2, Runs DEF WellFormed
<1>2. WellFormed(IndirectForm(code))
  <2>1. /\ IndirectForm(code).code = 8192 + code /\ DOMAIN IndirectForm(code).fields = {"x"}
        /\ IndirectForm(code).fields["x"] = Run(0, 0)
    BY DEF IndirectForm, Form, Run
  <2>2. 8192 + code \in Words16
    BY DEF Words16
  <2> QED BY <2>1, <2>2, Runs DEF WellFormed
<1>3. WellFormed(PostincrementForm(code))
  <2>1. /\ PostincrementForm(code).code = 12288 + code /\ DOMAIN PostincrementForm(code).fields = {"x"}
        /\ PostincrementForm(code).fields["x"] = Run(0, 0)
    BY DEF PostincrementForm, Form, Run
  <2>2. 12288 + code \in Words16
    BY DEF Words16
  <2> QED BY <2>1, <2>2, Runs DEF WellFormed
<1> QED BY <1>1, <1>2, <1>3

LEMMA ImmediateFormWellFormed ==
  ASSUME NEW code \in Operations
  PROVE  WellFormed(ImmediateForm(code))
<1>1. /\ ImmediateForm(code).code = 16384 + code /\ DOMAIN ImmediateForm(code).fields = {"i"}
      /\ ImmediateForm(code).fields["i"] = Run(0, 7)
  BY DEF ImmediateForm, Form, Run
<1>2. 16384 + code \in Words16
  BY DEF Words16, Operations
<1> QED BY <1>1, <1>2, Runs DEF WellFormed

LEMMA OperationFormsWellFormed ==
  ASSUME NEW code \in Operations, NEW k \in 1 .. 4
  PROVE  WellFormed(OperationForms(code)[k])
<1>1. /\ OperationForms(code)[1] = ImmediateForm(code)
      /\ OperationForms(code)[2] = MemForm(16384 + code)
      /\ OperationForms(code)[3] = IndirectForm(16384 + code)
      /\ OperationForms(code)[4] = PostincrementForm(16384 + code)
  BY DEF OperationForms
<1>2. 16384 + code \in {0, 16384, 16640, 16896, 17152}
  BY DEF Operations
<1>3. k = 1 \/ k = 2 \/ k = 3 \/ k = 4
  OBVIOUS
<1> QED BY <1>1, <1>2, <1>3, OperandFormsWellFormed, ImmediateFormWellFormed

LEMMA AllWellFormed ==
  ASSUME NEW m \in Mnemonics, NEW k \in DOMAIN Forms[m]
  PROVE  WellFormed(Forms[m][k])
<1>1. CASE m = "opr"
  <2>1. k = 1 /\ Forms["opr"][1].code = 0 /\ DOMAIN Forms["opr"][1].fields = {"i"}
    BY <1>1, Table DEF Forms, Form
  <2>2. Forms["opr"][1].fields["i"] = Run(0, 11)
    BY DEF Forms, Form, Run
  <2>9. Forms["opr"][1].code \in Words16
    BY <2>1 DEF Words16
  <2> QED BY <1>1, <2>1, <2>9, <2>2, Runs DEF WellFormed
<1>2. CASE m = "jump"
  <2>1. k = 1 /\ Forms["jump"][1].code = 32768 /\ DOMAIN Forms["jump"][1].fields = {"j"}
    BY <1>2, Table DEF Forms, Form
  <2>2. Forms["jump"][1].fields["j"] = Run(0, 10)
    BY DEF Forms, Form, Run
  <2>9. Forms["jump"][1].code \in Words16
    BY <2>1 DEF Words16
  <2> QED BY <1>2, <2>1, <2>9, <2>2, Runs DEF WellFormed
<1>3. CASE m = "call"
  <2>1. k = 1 /\ Forms["call"][1].code = 34816 /\ DOMAIN Forms["call"][1].fields = {"j"}
    BY <1>3, Table DEF Forms, Form
  <2>2. Forms["call"][1].fields["j"] = Run(0, 10)
    BY DEF Forms, Form, Run
  <2>9. Forms["call"][1].code \in Words16
    BY <2>1 DEF Words16
  <2> QED BY <1>3, <2>1, <2>9, <2>2, Runs DEF WellFormed
<1>4. CASE m = "br"
  <2>1. k = 1 /\ Forms["br"][1].code = 49152 /\ DOMAIN Forms["br"][1].fields = {"c", "j"}
    BY <1>4, Table DEF Forms, Form
  <2>2. Forms["br"][1].fields["c"] = Run(11, 13)
    BY DEF Forms, Form, Run
  <2>3. Forms["br"][1].fields["j"] = Run(0, 10)
    BY DEF Forms, Form, Run
  <2>9. Forms["br"][1].code \in Words16
    BY <2>1 DEF Words16
  <2> QED BY <1>4, <2>1, <2>9, <2>2, <2>3, Runs, RunsApart DEF WellFormed
<1>5. CASE m = "store"
  <2>1. /\ Forms["store"][1] = MemForm(0) /\ Forms["store"][2] = IndirectForm(0)
        /\ Forms["store"][3] = PostincrementForm(0)
    BY DEF Forms
  <2>2. k = 1 \/ k = 2 \/ k = 3
    BY <1>5, Table
  <2> QED BY <1>5, <2>1, <2>2, OperandFormsWellFormed
<1>6. CASE m \in {"load", "and", "xor", "adc"}
  <2>1. PICK code \in Operations : Forms[m] = OperationForms(code)
    BY <1>6, Table DEF Operations
  <2> QED BY <2>1, FourOperationForms, OperationFormsWellFormed
<1>7. CASE m = "skb"
  <2>1. WellFormed(Forms["skb"][1])
    <3>1. /\ Forms["skb"][1].code = 36864 /\ DOMAIN Forms["skb"][1].fields = {"i", "b", "m"}
          /\ Forms["skb"][1].fields["i"] = Run(11, 11) /\ Forms["skb"][1].fields["b"] = Run(8, 10)
          /\ Forms["skb"][1].fields["m"] = Run(0, 7)
      BY DEF Forms, Form, Run
    <3>2. Forms["skb"][1].code \in Words16
      BY <3>1 DEF Words16
    <3> QED BY <3>1, <3>2, Runs, RunsApart DEF WellFormed
  <2>2. WellFormed(Forms["skb"][2])
    <3>1. /\ Forms["skb"][2].code = 40960 /\ DOMAIN Forms["skb"][2].fields = {"i", "b", "x"}
          /\ Forms["skb"][2].fields["i"] = Run(11, 11) /\ Forms["skb"][2].fields["b"] = Run(8, 10)
          /\ Forms["skb"][2].fields["x"] = Run(0, 0)
      BY DEF Forms, Form, Run
    <3>2. Forms["skb"][2].code \in Words16
      BY <3>1 DEF Words16
    <3> QED BY <3>1, <3>2, Runs, RunsApart DEF WellFormed
  <2>3. WellFormed(Forms["skb"][3])
    <3>1. /\ Forms["skb"][3].code = 45056 /\ DOMAIN Forms["skb"][3].fields = {"i", "b", "x"}
          /\ Forms["skb"][3].fields["i"] = Run(11, 11) /\ Forms["skb"][3].fields["b"] = Run(8, 10)
          /\ Forms["skb"][3].fields["x"] = Run(0, 0)
      BY DEF Forms, Form, Run
    <3>2. Forms["skb"][3].code \in Words16
      BY <3>1 DEF Words16
    <3> QED BY <3>1, <3>2, Runs, RunsApart DEF WellFormed
  <2>4. k = 1 \/ k = 2 \/ k = 3
    BY <1>7, Table
  <2> QED BY <1>7, <2>1, <2>2, <2>3, <2>4
<1> QED BY Table, <1>1, <1>2, <1>3, <1>4, <1>5, <1>6, <1>7
=============================================================================
