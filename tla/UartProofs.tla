----------------------------- MODULE UartProofs -----------------------------
(***************************************************************************)
(* The UART line, for any rates that satisfy RatesAssumption, any pauses   *)
(* and any characters: where the receivers sample, and that both show what *)
(* was sent.                                                               *)
(***************************************************************************)
EXTENDS UartLine, TLAPS

-----------------------------------------------------------------------------
(* Arithmetic of the two time scales.  TbBit and RxBit are the lengths     *)
(* of a bit to the receivers, TxBit that of the transmitter in the units   *)
(* of uart.py.                                                             *)

TbBit == CLOCK_HZ \div BIT_RATE_HZ
RxBit == oversampling * CLOCK_HZ
TxBit == SampleRate * BitCycles

LEMMA ClockTypes ==
  /\ HalfBit \in Nat /\ TbBit \in Nat /\ RxBit \in Nat
  /\ SampleRate \in Nat /\ SampleRate > 0
  /\ BitCycles \in Int /\ TxBit \in Int
<1>1. BIT_RATE_HZ * 2 \in Nat /\ BIT_RATE_HZ * 2 > 0
  BY UartAssumption
<1>2. HalfBit \in Nat
  BY <1>1, UartAssumption DEF HalfBit
<1>3. TbBit \in Nat
  BY UartAssumption DEF TbBit
<1>4. RxBit \in Nat
  BY UartAssumption DEF RxBit
<1>5. SampleRate \in Nat /\ SampleRate > 0
  BY UartAssumption DEF SampleRate
<1>6. BitCycles \in Int
  <2>1. 4 * BIT_RATE_HZ \in Nat /\ 4 * BIT_RATE_HZ > 0
    BY UartAssumption
  <2>2. CLOCK_HZ \div (4 * BIT_RATE_HZ) \in Int
    BY <2>1, UartAssumption
  <2> DEFINE q == CLOCK_HZ \div (4 * BIT_RATE_HZ)
  <2>3. q \in Int
    BY <2>2
  <2>4. Delay = (q - 12) \div 3 + 1
    BY DEF Delay
  <2> HIDE DEF q
  <2>5. Delay \in Int
    BY <2>3, <2>4
  <2> QED BY <2>5 DEF BitCycles
<1>7. TxBit \in Int
  BY <1>5, <1>6 DEF TxBit
<1> QED BY <1>2, <1>3, <1>4, <1>5, <1>6, <1>7

LEMMA TbOffsetIs ==
  ASSUME NEW k \in 0 .. 9
  PROVE  /\ TbOffset(k) \in Int
         /\ TbOffset(k) = 1 + HalfBit + k * (TbBit - BitCycles)
         /\ TbOffset(k + 1) = TbOffset(k) + TbBit - BitCycles
BY ClockTypes DEF TbOffset, TbBit

LEMMA SimOffsetIs ==
  ASSUME NEW k \in 0 .. 9
  PROVE  /\ SimOffset(k) \in Int
         /\ SimOffset(k) = (oversampling \div 2) * CLOCK_HZ + k * (RxBit - TxBit)
         /\ SimOffset(k + 1) = SimOffset(k) + RxBit - TxBit
<1>1. (oversampling \div 2) * CLOCK_HZ \in Nat
  <2>1. oversampling \div 2 \in Nat
    BY UartAssumption
  <2> QED BY <2>1, UartAssumption
<1> DEFINE h == (oversampling \div 2) * CLOCK_HZ
<1>2. \A j \in Int : SimOffset(j) = h + j * (RxBit - TxBit)
  BY DEF SimOffset, RxBit, TxBit
<1>3. h \in Nat
  BY <1>1
<1> HIDE DEF h
<1>4. SimOffset(k) = h + k * (RxBit - TxBit) /\ SimOffset(k + 1) = h + (k + 1) * (RxBit - TxBit)
  BY <1>2
<1>5. (k + 1) * (RxBit - TxBit) = k * (RxBit - TxBit) + (RxBit - TxBit)
  BY ClockTypes
<1>6. k * (RxBit - TxBit) \in Int
  BY ClockTypes
<1> QED BY <1>3, <1>4, <1>5, <1>6, ClockTypes DEF h

(* What lies between two numbers in a range is in the range.               *)
LEMMA Between ==
  ASSUME NEW a \in Int, NEW d \in Int, NEW lo \in Int, NEW hi \in Int,
         6 * a \in lo .. hi, 6 * (a + 9 * d) \in lo .. hi, NEW k \in 0 .. 9
  PROVE  6 * (a + k * d) \in lo .. hi
<1>1. k \in {0, 1, 2, 3, 4, 5, 6, 7, 8, 9}
  OBVIOUS
<1>2. CASE d >= 0
  <2>1. k * d >= 0 /\ k * d <= 9 * d /\ k * d \in Int
    BY <1>1, <1>2
  <2> QED BY <2>1
<1>3. CASE d < 0
  <2>1. k * d <= 0 /\ k * d >= 9 * d /\ k * d \in Int
    BY <1>1, <1>3
  <2> QED BY <2>1
<1> QED BY <1>2, <1>3
(* Every bit is centred to the testbench, so that its sample falls into it *)
(* and a bit is not empty.                                                 *)
LEMMA TbCentred ==
  ASSUME NEW k \in 0 .. 9
  PROVE  Centred(TbOffset(k), 1) /\ TbOffset(k) > 0 /\ TbOffset(k) <= BitCycles
<1> DEFINE a == 1 + HalfBit
           d == TbBit - BitCycles
           lo == 1 * BitCycles
           hi == 5 * 1 * BitCycles
<1>1. a \in Int /\ d \in Int /\ lo \in Int /\ hi \in Int /\ a > 0
  BY ClockTypes
<1>2. TbOffset(0) = a + 0 * d /\ TbOffset(9) = a + 9 * d /\ TbOffset(k) = a + k * d
  BY TbOffsetIs
<1>3. 6 * TbOffset(0) \in lo .. hi /\ 6 * TbOffset(9) \in lo .. hi
  <2>1. 9 = data_bits + stop_bits
    BY DEF data_bits, stop_bits
  <2> QED BY <2>1, RatesAssumption DEF Centred
<1>4. lo = BitCycles /\ hi = 5 * BitCycles /\ BitCycles \in Int
  BY ClockTypes
<1>5. Centred(TbOffset(k), 1) <=> 6 * TbOffset(k) \in lo .. hi
  BY DEF Centred
<1> HIDE DEF a, d, lo, hi
<1>6. 0 * d = 0
  BY <1>1
<1>7. 6 * a \in lo .. hi /\ 6 * (a + 9 * d) \in lo .. hi
  BY <1>1, <1>2, <1>3, <1>6
<1>8. 6 * (a + k * d) \in lo .. hi
  BY <1>1, <1>7, Between
<1>9. BitCycles > 0
  BY <1>1, <1>4, <1>7
<1>10. k * d \in Int
  BY <1>1
<1>11. TbOffset(k) \in Int
  BY <1>1, <1>2, <1>10
<1> QED BY <1>2, <1>4, <1>5, <1>8, <1>9, <1>11

LEMMA BitsLast ==
  BitCycles \in Nat /\ BitCycles > 0 /\ TxBit \in Nat /\ TxBit > 0
<1>1. BitCycles > 0
  BY TbCentred, TbOffsetIs, ClockTypes
<1>2. TxBit > 0
  BY <1>1, ClockTypes DEF TxBit
<1> QED BY <1>1, <1>2, ClockTypes

(* The same to uart.py, wherever in a sample's length the edge lies.       *)
LEMMA SimEnds ==
  ASSUME NEW k \in 0 .. 9
  PROVE  /\ 6 * SimOffset(k) >= TxBit
         /\ 6 * (SimOffset(k) + CLOCK_HZ) <= 5 * TxBit
<1> DEFINE a == SimOffset(0)
           d == RxBit - TxBit
           hi == 5 * TxBit
<1>1. a \in Int /\ d \in Int /\ hi \in Int /\ TxBit \in Int /\ CLOCK_HZ \in Int
  BY ClockTypes, SimOffsetIs, UartAssumption
<1>2. SimOffset(9) = a + 9 * d /\ SimOffset(k) = a + k * d
  <2>1. \A j \in 0 .. 9 : SimOffset(j) = (oversampling \div 2) * CLOCK_HZ + j * d
    BY SimOffsetIs
  <2>2. a = (oversampling \div 2) * CLOCK_HZ + 0 * d
    BY <2>1
  <2>3. (oversampling \div 2) * CLOCK_HZ \in Int
    <3>1. oversampling \div 2 \in Nat
      BY UartAssumption
    <3> QED BY <3>1, UartAssumption
  <2> DEFINE h == (oversampling \div 2) * CLOCK_HZ
  <2>4. h \in Int /\ a = h + 0 * d /\ SimOffset(9) = h + 9 * d /\ SimOffset(k) = h + k * d
    BY <2>1, <2>2, <2>3
  <2> HIDE DEF a, d, h
  <2>5. 0 * d = 0 /\ k * d \in Int
    BY <1>1
  <2> QED BY <1>1, <2>4, <2>5
<1>3. \A x \in Int : Centred(x, SampleRate) <=> 6 * x \in TxBit .. hi
  <2>1. 5 * SampleRate * BitCycles = hi
    BY ClockTypes DEF TxBit
  <2> QED BY <2>1 DEF Centred, TxBit
<1>4. /\ Centred(SimOffset(0), SampleRate) /\ Centred(SimOffset(0) + CLOCK_HZ, SampleRate)
      /\ Centred(SimOffset(9), SampleRate) /\ Centred(SimOffset(9) + CLOCK_HZ, SampleRate)
  <2>1. 9 = data_bits + stop_bits
    BY DEF data_bits, stop_bits
  <2> QED BY <2>1, RatesAssumption
<1>5. SimOffset(9) \in Int /\ SimOffset(k) \in Int
  BY SimOffsetIs
<1>6. /\ 6 * a \in TxBit .. hi /\ 6 * (a + CLOCK_HZ) \in TxBit .. hi
      /\ 6 * SimOffset(9) \in TxBit .. hi /\ 6 * (SimOffset(9) + CLOCK_HZ) \in TxBit .. hi
  BY <1>1, <1>3, <1>4, <1>5
<1> HIDE DEF a, d, hi
<1>7. 6 * (a + 9 * d) \in TxBit .. hi /\ 6 * ((a + CLOCK_HZ) + 9 * d) \in TxBit .. hi
  BY <1>1, <1>2, <1>6
<1>8. 6 * (a + k * d) \in TxBit .. hi
  BY <1>1, <1>6, <1>7, Between
<1>9. 6 * ((a + CLOCK_HZ) + k * d) \in TxBit .. hi
  <2> DEFINE b == a + CLOCK_HZ
  <2>1. b \in Int /\ 6 * b \in TxBit .. hi /\ 6 * (b + 9 * d) \in TxBit .. hi
    BY <1>1, <1>6, <1>7
  <2> HIDE DEF b
  <2>2. 6 * (b + k * d) \in TxBit .. hi
    BY <1>1, <2>1, Between
  <2> QED BY <2>2 DEF b
<1>10. k * d \in Int
  BY <1>1
<1>11. 6 * SimOffset(k) >= TxBit
  BY <1>1, <1>2, <1>8, <1>10
<1>12. 6 * (SimOffset(k) + CLOCK_HZ) <= hi
  BY <1>1, <1>2, <1>9, <1>10
<1> QED BY <1>11, <1>12 DEF hi

LEMMA SimCentred ==
  ASSUME NEW k \in 0 .. 9, NEW t \in Int, t > SimOffset(k), t <= SimOffset(k) + CLOCK_HZ
  PROVE  Centred(t, SampleRate)
<1>1. 6 * SimOffset(k) >= TxBit /\ 6 * (SimOffset(k) + CLOCK_HZ) <= 5 * TxBit
  BY SimEnds
<1>2. SimOffset(k) \in Int /\ CLOCK_HZ \in Int /\ TxBit \in Int
  BY SimOffsetIs, UartAssumption, ClockTypes
<1>3. 6 * t \in TxBit .. 5 * TxBit
  BY <1>1, <1>2
<1>4. 5 * SampleRate * BitCycles = 5 * TxBit
  BY ClockTypes DEF TxBit
<1> QED BY <1>3, <1>4 DEF Centred, TxBit

(* A start bit is looked at after at least one sample; samples lie in the  *)
(* bit they belong to.                                                     *)
LEMMA SimWithin ==
  /\ oversampling \div 2 \in Nat /\ oversampling \div 2 > 0
  /\ SimOffset(0) = (oversampling \div 2) * CLOCK_HZ /\ SimOffset(0) >= CLOCK_HZ
  /\ \A k \in 0 .. 9 : SimOffset(k) > 0 /\ SimOffset(k) + CLOCK_HZ < TxBit
<1>1. \A k \in 0 .. 9 : SimOffset(k) > 0 /\ SimOffset(k) + CLOCK_HZ < TxBit
  <2> SUFFICES ASSUME NEW k \in 0 .. 9 PROVE SimOffset(k) > 0 /\ SimOffset(k) + CLOCK_HZ < TxBit
    OBVIOUS
  <2>1. SimOffset(k) \in Int /\ CLOCK_HZ \in Int
    BY SimOffsetIs, UartAssumption
  <2>2. 6 * SimOffset(k) >= TxBit /\ 6 * (SimOffset(k) + CLOCK_HZ) <= 5 * TxBit
    BY SimEnds
  <2> QED BY <2>1, <2>2, BitsLast
<1>2. oversampling \div 2 \in Nat
  BY UartAssumption
<1> DEFINE h == oversampling \div 2
<1>3. SimOffset(0) = h * CLOCK_HZ
  <2>1. SimOffset(0) = h * CLOCK_HZ + 0 * (RxBit - TxBit)
    BY SimOffsetIs
  <2>2. h * CLOCK_HZ \in Int
    BY <1>2, UartAssumption
  <2> QED BY <2>1, <2>2, ClockTypes
<1> HIDE DEF h
<1>4. h \in Nat
  BY <1>2 DEF h
<1>5. h > 0
  <2>1. h # 0
    <3> SUFFICES ASSUME h = 0 PROVE FALSE
      OBVIOUS
    <3>1. SimOffset(0) = 0
      BY <1>3, UartAssumption
    <3> QED BY <1>1, <3>1
  <2> QED BY <1>4, <2>1
<1>6. h * CLOCK_HZ >= CLOCK_HZ
  <2>1. h - 1 \in Nat /\ (h - 1) * CLOCK_HZ >= 0
    BY <1>4, <1>5, UartAssumption
  <2> QED BY <1>4, <2>1, UartAssumption
<1> QED BY <1>1, <1>3, <1>4, <1>5, <1>6 DEF h

-----------------------------------------------------------------------------
(* The bits of a character.                                                *)

(* What is on the line during element e of character c: the start bit,     *)
(* eight data bits and the stop bit.                                       *)
Bit(c, e) ==
  IF e = 0 THEN 0 ELSE IF e \in 1 .. 8 THEN (c \div 2 ^ (e - 1)) % 2 ELSE 1

(* The scratchpad when n bits have still to be sent, the stop bit included.*)
Rest(c, n) == c \div 2 ^ (9 - n) + 256 - 2 ^ (n - 1)

LEMMA Powers ==
  /\ 2 ^ 0 = 1 /\ 2 ^ 1 = 2 /\ 2 ^ 2 = 4 /\ 2 ^ 3 = 8 /\ 2 ^ 4 = 16
  /\ 2 ^ 5 = 32 /\ 2 ^ 6 = 64 /\ 2 ^ 7 = 128 /\ 2 ^ 8 = 256
OBVIOUS

LEMMA ByteDigits ==
  ASSUME NEW x \in 0 .. 255
  PROVE  x \div 1 = x /\ x % 1 = 0 /\ x \div 256 = 0 /\ x % 256 = x
OBVIOUS

LEMMA PowerTypes ==
  ASSUME NEW k \in 0 .. 8
  PROVE  2 ^ k \in Nat /\ 2 ^ k > 0
<1>0. CASE k = 0
  BY <1>0, Powers
<1>1. CASE k = 1
  BY <1>1, Powers
<1>2. CASE k = 2
  BY <1>2, Powers
<1>3. CASE k = 3
  BY <1>3, Powers
<1>4. CASE k = 4
  BY <1>4, Powers
<1>5. CASE k = 5
  BY <1>5, Powers
<1>6. CASE k = 6
  BY <1>6, Powers
<1>7. CASE k = 7
  BY <1>7, Powers
<1>8. CASE k = 8
  BY <1>8, Powers
<1> QED BY <1>0, <1>1, <1>2, <1>3, <1>4, <1>5, <1>6, <1>7, <1>8

LEMMA BitValue ==
  ASSUME NEW c \in 0 .. 255, NEW e \in Int
  PROVE  Bit(c, e) \in 0 .. 1
<1>1. CASE e \in 1 .. 8
  <2>1. e - 1 \in 0 .. 8
    BY <1>1
  <2> DEFINE p == 2 ^ (e - 1)
  <2>2. c \div 2 ^ (e - 1) \in Int
    <3>1. p \in Nat /\ p > 0
      BY <2>1, PowerTypes
    <3> HIDE DEF p
    <3>2. c \div p \in Int
      BY <3>1
    <3> QED BY <3>2 DEF p
  <2> DEFINE q == c \div 2 ^ (e - 1)
  <2>3. Bit(c, e) = q % 2
    BY <1>1 DEF Bit
  <2> HIDE DEF q
  <2> QED BY <2>2, <2>3 DEF q
<1>2. CASE e \notin 1 .. 8
  BY <1>2 DEF Bit
<1> QED BY <1>1, <1>2

LEMMA RestSent ==
  ASSUME NEW c \in 0 .. 255, NEW n \in 1 .. 9
  PROVE  /\ Rest(c, n) \in 0 .. 255
         /\ Rest(c, n) % 2 = Bit(c, 10 - n)
         /\ n > 1 => Rest(c, n) \div 2 + 128 = Rest(c, n - 1)
<1>1. CASE n = 1
  BY <1>1, Powers DEF Rest, Bit
<1>2. CASE n = 2
  BY <1>2, Powers DEF Rest, Bit
<1>3. CASE n = 3
  BY <1>3, Powers DEF Rest, Bit
<1>4. CASE n = 4
  BY <1>4, Powers DEF Rest, Bit
<1>5. CASE n = 5
  BY <1>5, Powers DEF Rest, Bit
<1>6. CASE n = 6
  BY <1>6, Powers DEF Rest, Bit
<1>7. CASE n = 7
  BY <1>7, Powers DEF Rest, Bit
<1>8. CASE n = 8
  BY <1>8, Powers DEF Rest, Bit
<1>9. CASE n = 9
  BY <1>9, Powers DEF Rest, Bit
<1> QED BY <1>1, <1>2, <1>3, <1>4, <1>5, <1>6, <1>7, <1>8, <1>9

(* uart.py puts the bits together from the lowest, tb_serial.v shifts them *)
(* in from the highest.                                                    *)
LEMMA LowBits ==
  ASSUME NEW c \in 0 .. 255, NEW m \in 1 .. 8
  PROVE  (c % 2 ^ (m - 1)) + Bit(c, m) * 2 ^ (m - 1) = c % 2 ^ m
<1>1. CASE m = 1
  BY <1>1, Powers DEF Bit
<1>2. CASE m = 2
  BY <1>2, Powers DEF Bit
<1>3. CASE m = 3
  BY <1>3, Powers DEF Bit
<1>4. CASE m = 4
  BY <1>4, Powers DEF Bit
<1>5. CASE m = 5
  BY <1>5, Powers DEF Bit
<1>6. CASE m = 6
  BY <1>6, Powers DEF Bit
<1>7. CASE m = 7
  BY <1>7, Powers DEF Bit
<1>8. CASE m = 8
  BY <1>8, Powers DEF Bit
<1> QED BY <1>1, <1>2, <1>3, <1>4, <1>5, <1>6, <1>7, <1>8

LEMMA ShiftedDown ==
  ASSUME NEW s \in 0 .. 255, NEW b \in 0 .. 1
  PROVE  /\ (b * 128 + s \div 2) \div 128 = 1 * b + s \div 256
         /\ (b * 128 + s \div 2) \div 64 = 2 * b + s \div 128
         /\ (b * 128 + s \div 2) \div 32 = 4 * b + s \div 64
         /\ (b * 128 + s \div 2) \div 16 = 8 * b + s \div 32
         /\ (b * 128 + s \div 2) \div 8 = 16 * b + s \div 16
         /\ (b * 128 + s \div 2) \div 4 = 32 * b + s \div 8
         /\ (b * 128 + s \div 2) \div 2 = 64 * b + s \div 4
         /\ (b * 128 + s \div 2) \div 1 = 128 * b + s \div 2
<1>1. (b * 128 + s \div 2) \div 128 = 1 * b + s \div 256
  OBVIOUS
<1>2. (b * 128 + s \div 2) \div 64 = 2 * b + s \div 128
  OBVIOUS
<1>3. (b * 128 + s \div 2) \div 32 = 4 * b + s \div 64
  OBVIOUS
<1>4. (b * 128 + s \div 2) \div 16 = 8 * b + s \div 32
  OBVIOUS
<1>5. (b * 128 + s \div 2) \div 8 = 16 * b + s \div 16
  OBVIOUS
<1>6. (b * 128 + s \div 2) \div 4 = 32 * b + s \div 8
  OBVIOUS
<1>7. (b * 128 + s \div 2) \div 2 = 64 * b + s \div 4
  OBVIOUS
<1>8. (b * 128 + s \div 2) \div 1 = 128 * b + s \div 2
  OBVIOUS
<1> QED BY <1>1, <1>2, <1>3, <1>4, <1>5, <1>6, <1>7, <1>8

(* Before bit k - 1 of c is taken in, the low k - 1 bits are at the top of *)
(* the byte s.                                                             *)
HasBits(s, c, k) == s \in 0 .. 255 /\ s \div 2 ^ (9 - k) = c % 2 ^ (k - 1)

LEMMA ShiftedBits ==
  ASSUME NEW c \in 0 .. 255, NEW k \in 1 .. 8, NEW s, HasBits(s, c, k)
  PROVE  /\ Shifted(s, Bit(c, k)) \in 0 .. 255
         /\ Shifted(s, Bit(c, k)) \div 2 ^ (8 - k) = c % 2 ^ k
<1> DEFINE b == Bit(c, k)
<1>a. s \in 0 .. 255
  BY DEF HasBits
<1>b. s \div 2 ^ (9 - k) = c % 2 ^ (k - 1)
  BY DEF HasBits
<1>1. b \in 0 .. 1
  <2>1. k \in Int
    OBVIOUS
  <2> QED BY <2>1, BitValue
<1>2. Shifted(s, b) = b * 128 + s \div 2
  BY DEF Shifted
<1>3. (c % 2 ^ (k - 1)) + b * 2 ^ (k - 1) = c % 2 ^ k
  BY LowBits
<1> HIDE DEF b
<1>4. Shifted(s, b) \in 0 .. 255
  BY <1>a, <1>1, <1>2
<1>5. Shifted(s, b) \div 2 ^ (8 - k) = b * 2 ^ (k - 1) + s \div 2 ^ (9 - k)
  <2>1. CASE k = 1
    BY <1>a, <1>1, <1>2, <2>1, Powers, ShiftedDown
  <2>2. CASE k = 2
    BY <1>a, <1>1, <1>2, <2>2, Powers, ShiftedDown
  <2>3. CASE k = 3
    BY <1>a, <1>1, <1>2, <2>3, Powers, ShiftedDown
  <2>4. CASE k = 4
    BY <1>a, <1>1, <1>2, <2>4, Powers, ShiftedDown
  <2>5. CASE k = 5
    BY <1>a, <1>1, <1>2, <2>5, Powers, ShiftedDown
  <2>6. CASE k = 6
    BY <1>a, <1>1, <1>2, <2>6, Powers, ShiftedDown
  <2>7. CASE k = 7
    BY <1>a, <1>1, <1>2, <2>7, Powers, ShiftedDown
  <2>8. CASE k = 8
    BY <1>a, <1>1, <1>2, <2>8, Powers, ShiftedDown
  <2> QED BY <2>1, <2>2, <2>3, <2>4, <2>5, <2>6, <2>7, <2>8
<1>6. b * 2 ^ (k - 1) \in Int /\ c % 2 ^ (k - 1) \in Int
  <2> DEFINE p == 2 ^ (k - 1)
  <2>1. p \in Nat /\ p > 0
    <3>1. k - 1 \in 0 .. 8
      OBVIOUS
    <3> QED BY <3>1, PowerTypes
  <2> HIDE DEF p
  <2>2. b * p \in Int /\ c % p \in Int
    BY <1>1, <2>1
  <2> QED BY <2>2 DEF p
<1> QED BY <1>b, <1>3, <1>4, <1>5, <1>6 DEF b

LEMMA ShiftedInto ==
  ASSUME NEW c \in 0 .. 255, NEW k \in 1 .. 8, NEW s, HasBits(s, c, k)
  PROVE  HasBits(Shifted(s, Bit(c, k)), c, k + 1)
<1> DEFINE r == Shifted(s, Bit(c, k))
<1>1. r \in 0 .. 255 /\ r \div 2 ^ (8 - k) = c % 2 ^ k
  BY ShiftedBits
<1>2. 9 - (k + 1) = 8 - k /\ (k + 1) - 1 = k
  OBVIOUS
<1> HIDE DEF r
<1>3. HasBits(r, c, k + 1)
  BY <1>1, <1>2 DEF HasBits
<1> QED BY <1>3 DEF r

-----------------------------------------------------------------------------
(* The inductive invariant.  Element is the part of a character that is on *)
(* the line, 9 (a stop bit) between characters; OnLine is the index of     *)
(* that character, which a character accepted but not begun is not yet.    *)

Element == IF count = 10 THEN 9 ELSE 9 - count
OnLine  == IF count = 10 THEN Len(sent) - 1 ELSE Len(sent)
Edge    == last * SampleRate

TypeInv ==
  /\ sent \in Seq(Bytes) /\ temp \in 0 .. 255 /\ count \in 0 .. 10
  /\ due \in Int /\ last \in Nat /\ uart_tx \in 0 .. 1
  /\ call \in [cycle : Int, value : 0 .. 1]
  /\ sim \in [line_state : 0 .. 1, sample_cycle : Nat, idle : BOOLEAN, counter : Int,
              bit_num : Int, byte_val : Nat, rxb : Int]
  /\ printed \in Seq(Bytes) /\ written \in Seq(Bytes)
  /\ tb \in [idle : BOOLEAN, bit_counter : Int, sample_at : Int, shifter : 0 .. 255]
  /\ run \in BOOLEAN /\ finished \in BOOLEAN

(* The transmitter: when the next bit is due, what is left in temp, and    *)
(* what is on the line.                                                    *)
LineInv ==
  /\ due = -1 <=> count = 0
  /\ count \in 1 .. 9 => due = last + BitCycles
  /\ count = 10 => due >= last + BitCycles /\ temp = sent[Len(sent)]
  /\ count \in 1 .. 9 => temp = Rest(sent[Len(sent)], count)
  /\ count # 0 => Len(sent) > 0
  /\ uart_tx = Bit(sent[OnLine], Element)

Prefix(s, t) == Len(s) <= Len(t) /\ \A i \in 1 .. Len(s) : s[i] = t[i]

(* The testbench: which bit it waits for and until when, and the bits it   *)
(* has of the character that it will write next.  One that has finished    *)
(* waits for nothing any more.                                             *)
TbBusyInv ==
  /\ tb.bit_counter \in 0 .. 9
  /\ \/ tb.bit_counter = Element /\ tb.sample_at = last + TbOffset(tb.bit_counter)
     \/ /\ tb.bit_counter = Element + 1
        /\ tb.sample_at = last + BitCycles + TbOffset(tb.bit_counter)
  /\ Len(written) = OnLine - 1
  /\ tb.bit_counter > 0 =>
       tb.shifter \div 2 ^ (9 - tb.bit_counter)
         = sent[Len(written) + 1] % 2 ^ (tb.bit_counter - 1)

TbInv ==
  /\ Prefix(written, sent)
  /\ ~tb.idle => ~finished /\ TbBusyInv
  /\ tb.idle /\ ~finished =>
       /\ Element \in {0, 9}
       /\ Len(written) = IF Element = 9 THEN OnLine ELSE OnLine - 1

(* uart.py knows the level before the one its caller has just set, until   *)
(* simg stops and calls it no more.                                        *)
CallInv ==
  /\ call = NoCall /\ run => sim.line_state = uart_tx
  /\ call # NoCall =>
       /\ run /\ call = [cycle |-> last, value |-> uart_tx] /\ count < 10 /\ Len(sent) > 0
       /\ sim.line_state = IF Element = 0 THEN 1 ELSE Bit(sent[OnLine], Element - 1)

(* When it next looks at a bit, which bit that is, and where it looks.     *)
LooksAt == sim.sample_cycle + (sim.counter - 1) * CLOCK_HZ
Looking == sim.bit_num + 1

LooksBehind(edge) ==
  LooksAt > edge + SimOffset(Looking) /\ LooksAt <= edge + SimOffset(Looking) + CLOCK_HZ

SimBusyInv ==
  /\ sim.counter >= 1 /\ sim.rxb = -1 /\ Looking \in 0 .. 9
  /\ IF Looking = 0 THEN sim.byte_val = 0
     ELSE sim.byte_val = sent[Len(printed) + 1] % 2 ^ sim.bit_num
  /\ \/ /\ call = NoCall /\ Element >= 1 /\ Looking = Element
        /\ LooksBehind(Edge) /\ Len(printed) = OnLine - 1
     \/ /\ call # NoCall /\ Element >= 1 /\ Looking = Element
        /\ LooksBehind(Edge) /\ Len(printed) = OnLine - 1
     \/ /\ call # NoCall /\ Element >= 1 /\ Looking = Element - 1
        /\ LooksBehind(Edge - TxBit) /\ Len(printed) = OnLine - 1
     \/ /\ call # NoCall /\ Element = 0 /\ Looking = 9
        /\ LooksAt <= Edge /\ Len(printed) = OnLine - 2

SimIdleInv ==
  /\ sim.sample_cycle <= Edge + CLOCK_HZ
  /\ \/ Element = 9 /\ call = NoCall /\ Len(printed) = OnLine /\ sim.rxb = -1
     \/ /\ Element = 0 /\ call # NoCall
        /\ IF sim.rxb = -1 THEN Len(printed) = OnLine - 1
           ELSE Len(printed) = OnLine - 2 /\ sim.rxb = sent[Len(printed) + 1]
     \/ /\ Element = 0 /\ call = NoCall /\ Len(printed) = OnLine - 1 /\ sim.rxb = -1
        /\ sim.sample_cycle > Edge
     \/ /\ Element = 1 /\ call # NoCall /\ Len(printed) = OnLine - 1 /\ sim.rxb = -1
        /\ sim.sample_cycle > Edge - TxBit /\ sim.sample_cycle <= Edge - TxBit + CLOCK_HZ

SimInv ==
  /\ CallInv /\ Prefix(printed, sent)
  /\ sim.idle /\ run => SimIdleInv
  /\ ~sim.idle => run /\ SimBusyInv

Inv == TypeInv /\ LineInv /\ TbInv /\ SimInv /\ errors = {}

-----------------------------------------------------------------------------
(* The beginning, and what changes when a step leaves a part alone.        *)

LEMMA PrefixSend ==
  ASSUME NEW S, NEW s \in Seq(S), NEW t \in Seq(S), NEW e \in S, Prefix(s, t)
  PROVE  Prefix(s, Append(t, e))
BY DEF Prefix

LEMMA PrefixShow ==
  ASSUME NEW S, NEW s \in Seq(S), NEW t \in Seq(S), Prefix(s, t), Len(s) < Len(t)
  PROVE  Prefix(Append(s, t[Len(s) + 1]), t)
<1> DEFINE e == t[Len(s) + 1]
           r == Append(s, e)
<1>1. e \in S
  OBVIOUS
<1>2. r \in Seq(S) /\ Len(r) = Len(s) + 1 /\ Len(r) <= Len(t)
  BY <1>1
<1>3. \A i \in 1 .. Len(r) : r[i] = t[i]
  <2> SUFFICES ASSUME NEW i \in 1 .. Len(r) PROVE r[i] = t[i]
    OBVIOUS
  <2>1. CASE i = Len(s) + 1
    BY <1>1, <2>1
  <2>2. CASE i # Len(s) + 1
    <3>1. i \in 1 .. Len(s)
      BY <1>2, <2>2
    <3>2. r[i] = s[i]
      BY <1>1, <3>1
    <3> QED BY <3>1, <3>2 DEF Prefix
  <2> QED BY <2>1, <2>2
<1> QED BY <1>2, <1>3 DEF Prefix

LEMMA ByteRange == \A b \in Bytes : b \in 0 .. 255
BY UartAssumption

LEMMA InvInit == Init => Inv
<1> SUFFICES ASSUME Init PROVE Inv
  OBVIOUS
<1>1. TypeInv
  <2>1. /\ call \in [cycle : Int, value : 0 .. 1]
        /\ tb.bit_counter \in Int
    BY DEF Init, NoCall
  <2>2. sim \in [line_state : 0 .. 1, sample_cycle : Nat, idle : BOOLEAN, counter : Int,
                 bit_num : Int, byte_val : Nat, rxb : Int]
    BY DEF Init, NewUART
  <2>3. tb \in [idle : BOOLEAN, bit_counter : Int, sample_at : Int, shifter : 0 .. 255]
    BY DEF Init
  <2>4. run \in BOOLEAN /\ finished \in BOOLEAN
    BY DEF Init
  <2>5. /\ sent \in Seq(Bytes) /\ printed \in Seq(Bytes) /\ written \in Seq(Bytes)
        /\ temp \in 0 .. 255 /\ count \in 0 .. 10 /\ due \in Int /\ last \in Nat
        /\ uart_tx \in 0 .. 1
    BY DEF Init
  <2> QED BY <2>1, <2>2, <2>3, <2>4, <2>5 DEF TypeInv
<1>2. Element = 9 /\ OnLine = 0 /\ Len(sent) = 0
  BY DEF Init, Element, OnLine
<1>3. LineInv
  BY <1>2 DEF Init, LineInv, Bit
<1>4. TbInv
  BY <1>2 DEF Init, TbInv, Prefix
<1>5. SimInv
  <2>1. CallInv
    BY DEF Init, CallInv, NoCall, NewUART
  <2>2. SimIdleInv
    <3>1. Edge = 0
      BY ClockTypes DEF Init, Edge
    <3> QED BY <1>2, <3>1, UartAssumption DEF Init, SimIdleInv, NewUART
  <2>3. sim.idle /\ run
    BY DEF Init, NewUART
  <2> QED BY <1>2, <2>1, <2>2, <2>3 DEF SimInv, Prefix, Init
<1>6. errors = {}
  BY DEF Init
<1> QED BY <1>1, <1>3, <1>4, <1>5, <1>6 DEF Inv

LEMMA LineKept ==
  ASSUME LineInv, UNCHANGED transmitter
  PROVE  LineInv'
BY DEF LineInv, transmitter, Element, OnLine

LEMMA TbKept ==
  ASSUME TbInv, UNCHANGED transmitter, UNCHANGED testbench
  PROVE  TbInv'
BY DEF TbInv, TbBusyInv, transmitter, testbench, Element, OnLine, Prefix

LEMMA SimKept ==
  ASSUME SimInv, UNCHANGED transmitter, UNCHANGED simulator
  PROVE  SimInv'
BY DEF SimInv, CallInv, SimIdleInv, SimBusyInv, LooksBehind, LooksAt, Looking, transmitter,
       simulator, Element, OnLine, Edge, Prefix

LEMMA InvStutter ==
  ASSUME Inv, UNCHANGED vars
  PROVE  Inv'
<1>1. UNCHANGED transmitter /\ UNCHANGED simulator /\ UNCHANGED testbench /\ errors' = errors
  BY DEF vars
<1>2. TypeInv'
  BY <1>1 DEF Inv, TypeInv, transmitter, simulator, testbench
<1> QED BY <1>1, <1>2, LineKept, TbKept, SimKept DEF Inv

-----------------------------------------------------------------------------
(* The transmitter's steps.                                                *)

(* A character that is accepted changes nothing on the line, and nothing   *)
(* to the receivers.                                                       *)
Accepted ==
  /\ count = 0 /\ count' = 10 /\ Element = 9 /\ Element' = 9 /\ OnLine' = OnLine
  /\ OnLine = Len(sent) /\ Len(sent') = Len(sent) + 1
  /\ \A i \in 1 .. Len(sent) : sent'[i] = sent[i]
  /\ sent' \in Seq(Bytes) /\ Edge' = Edge /\ temp' \in Bytes
  /\ temp' = sent'[Len(sent')] /\ due' >= last + BitCycles /\ due' \in Int
  /\ sent' = Append(sent, temp') /\ last \in Nat

LEMMA AcceptedFacts ==
  ASSUME Inv, UartTxChar
  PROVE  Accepted
<1>1. PICK byte \in Bytes, gap \in Gaps :
        sent' = Append(sent, byte) /\ temp' = byte /\ due' = last + gap
  BY DEF UartTxChar
<1>2. sent \in Seq(Bytes) /\ last \in Nat
  BY DEF Inv, TypeInv
<1>3. count = 0
  BY DEF Inv, LineInv, UartTxChar
<1>4. gap \in Nat /\ gap >= BitCycles
  BY UartAssumption, RatesAssumption
<1>5. count' = 10 /\ last' = last
  BY DEF UartTxChar
<1>6. /\ sent' \in Seq(Bytes) /\ Len(sent') = Len(sent) + 1 /\ sent'[Len(sent')] = byte
      /\ \A i \in 1 .. Len(sent) : sent'[i] = sent[i]
  BY <1>1, <1>2
<1>7. Len(sent) \in Nat
  BY <1>2
<1> QED BY <1>1, <1>2, <1>3, <1>4, <1>5, <1>6, <1>7, ClockTypes DEF Element, OnLine, Edge, Accepted

LEMMA AcceptedInv ==
  ASSUME Inv, UartTxChar
  PROVE  Inv'
<1>0. /\ count = 0 /\ count' = 10 /\ Element = 9 /\ Element' = 9 /\ OnLine' = OnLine
      /\ OnLine = Len(sent) /\ Len(sent') = Len(sent) + 1
      /\ \A i \in 1 .. Len(sent) : sent'[i] = sent[i]
      /\ sent' \in Seq(Bytes) /\ Edge' = Edge /\ temp' \in Bytes
      /\ temp' = sent'[Len(sent')] /\ due' >= last + BitCycles /\ due' \in Int
      /\ sent' = Append(sent, temp') /\ last \in Nat
  BY AcceptedFacts DEF Accepted
<1>1. UNCHANGED <<last, uart_tx, call, sim, printed, run, tb, written, finished, errors>>
  BY DEF UartTxChar, simulator, testbench
<1>2. Len(sent) \in Nat /\ sent \in Seq(Bytes)
  BY DEF Inv, TypeInv
<1>3. TypeInv'
  <2>1. temp' \in 0 .. 255 /\ count' \in 0 .. 10
    <3>1. temp' \in Bytes
      BY <1>0
    <3>2. temp' \in 0 .. 255
      BY <3>1, ByteRange
    <3> QED BY <1>0, <3>2
  <2>2. TypeInv
    BY DEF Inv
  <2>3. due' \in Int /\ sent' \in Seq(Bytes)
    BY <1>0
  <2> QED BY <1>1, <2>1, <2>2, <2>3 DEF TypeInv
<1>4. LineInv'
  <2>1. uart_tx = 1
    BY <1>0 DEF Inv, LineInv, Bit
  <2>2. due' # -1
    BY <1>0, <1>1, BitsLast
  <2> QED BY <1>0, <1>1, <1>2, <2>1, <2>2 DEF LineInv, Bit
<1>5. TbInv'
  <2>1. Prefix(written', sent')
    <3>1. Prefix(written, sent) /\ written \in Seq(Bytes)
      BY DEF Inv, TbInv, TypeInv
    <3> QED BY <1>0, <1>1, <1>2, <3>1, PrefixSend
  <2>2. tb.idle /\ ~finished => Len(written) = OnLine
    BY <1>0 DEF Inv, TbInv
  <2>3. ~tb.idle => ~finished /\ TbBusyInv'
    <3> SUFFICES ASSUME ~tb.idle PROVE ~finished /\ TbBusyInv'
      OBVIOUS
    <3>1. ~finished /\ TbBusyInv
      BY DEF Inv, TbInv
    <3>2. Len(written) + 1 \in 1 .. Len(sent)
      <4>1. Len(written) \in Nat
        BY DEF Inv, TypeInv
      <4> QED BY <1>0, <1>2, <3>1, <4>1 DEF TbBusyInv
    <3>3. sent'[Len(written) + 1] = sent[Len(written) + 1]
      BY <1>0, <3>2
    <3> QED BY <1>0, <1>1, <3>1, <3>3 DEF TbBusyInv
  <2> QED BY <1>0, <1>1, <2>1, <2>2, <2>3 DEF TbInv
<1>6. SimInv'
  <2>1. call = NoCall
    BY DEF UartTxChar
  <2>2. CallInv'
    BY <1>0, <1>1, <2>1 DEF Inv, SimInv, CallInv
  <2>3. Prefix(printed', sent')
    <3>1. Prefix(printed, sent) /\ printed \in Seq(Bytes)
      BY DEF Inv, SimInv, TypeInv
    <3> QED BY <1>0, <1>1, <1>2, <3>1, PrefixSend
  <2>4. sim.idle /\ run => SimIdleInv'
    BY <1>0, <1>1, <2>1 DEF Inv, SimInv, SimIdleInv
  <2>5. ~sim.idle => run /\ SimBusyInv'
    <3> SUFFICES ASSUME ~sim.idle PROVE run /\ SimBusyInv'
      OBVIOUS
    <3>1. run /\ SimBusyInv
      BY DEF Inv, SimInv
    <3>2. Len(printed) + 1 \in 1 .. Len(sent)
      <4>1. Len(printed) \in Nat
        BY DEF Inv, TypeInv
      <4> QED BY <1>0, <1>2, <2>1, <3>1, <4>1 DEF SimBusyInv
    <3>3. sent'[Len(printed) + 1] = sent[Len(printed) + 1]
      BY <1>0, <3>2
    <3>4. LooksAt' = LooksAt /\ Looking' = Looking
      BY <1>0, <1>1 DEF LooksAt, Looking
    <3>5. LooksBehind(Edge)' <=> LooksBehind(Edge)
      BY <1>0, <3>4 DEF LooksBehind
    <3> QED BY <1>0, <1>1, <2>1, <3>1, <3>3, <3>4, <3>5 DEF SimBusyInv
  <2> QED BY <1>0, <1>1, <2>2, <2>3, <2>4, <2>5 DEF SimInv
<1> QED BY <1>1, <1>3, <1>4, <1>5, <1>6 DEF Inv

(* The next bit: the element after it, or the start bit of the character   *)
(* that was accepted.                                                      *)
NextBit ==
  /\ IF count = 10 THEN Element = 9 /\ Element' = 0 /\ OnLine' = OnLine + 1 /\ Edge' >= Edge + TxBit
     ELSE Element \in 0 .. 8 /\ Element' = Element + 1 /\ OnLine' = OnLine
            /\ last' = last + BitCycles /\ Edge' = Edge + TxBit
  /\ Element' \in 0 .. 9 /\ OnLine' = Len(sent) /\ Len(sent) > 0
  /\ count \in 1 .. 10 /\ count' = count - 1 /\ last' = due /\ call = NoCall
  /\ uart_tx' = Bit(sent[OnLine'], Element')
  /\ count' # 0 => temp' = Rest(sent[Len(sent)], count') /\ due' = due + BitCycles
  /\ count' = 0 => due' = -1
  /\ temp' \in 0 .. 255 /\ last' \in Nat /\ last' >= last + BitCycles
  /\ due' \in Int /\ Edge \in Int

LEMMA NextBitFacts ==
  ASSUME Inv, Uarttxr
  PROVE  NextBit
<1>1. /\ due # -1 /\ call = NoCall /\ last' = due /\ count' = count - 1 /\ sent' = sent
      /\ due' = IF count = 1 THEN -1 ELSE due + BitCycles
      /\ uart_tx' = IF count = 10 THEN 0 ELSE temp % 2
      /\ temp' = IF count = 10 THEN temp ELSE temp \div 2 + 128
  BY DEF Uarttxr
<1>2. /\ sent \in Seq(Bytes) /\ count \in 0 .. 10 /\ last \in Nat /\ due \in Int
      /\ temp \in 0 .. 255
  BY DEF Inv, TypeInv
<1>3. /\ count \in 1 .. 10 /\ Len(sent) > 0 /\ Len(sent) \in Nat
      /\ due >= last + BitCycles /\ (count < 10 => due = last + BitCycles)
  BY <1>1, <1>2, ClockTypes DEF Inv, LineInv
<1>4. Element = (IF count = 10 THEN 9 ELSE 9 - count) /\ Element' = 9 - count'
  BY <1>1, <1>2 DEF Element
<1>5. OnLine = (IF count = 10 THEN Len(sent) - 1 ELSE Len(sent)) /\ OnLine' = Len(sent)
  BY <1>1, <1>2 DEF OnLine
<1>6. Edge = last * SampleRate /\ Edge' = due * SampleRate
  BY <1>1 DEF Edge
<1>7. due \in Nat /\ due >= 0 /\ BitCycles \in Nat /\ SampleRate \in Nat
  BY <1>2, <1>3, BitsLast, ClockTypes
<1>8. (last + BitCycles) * SampleRate = Edge + TxBit /\ Edge \in Int /\ TxBit \in Int
  BY <1>2, <1>6, <1>7 DEF TxBit
<1>9. Edge' >= Edge + TxBit
  <2> DEFINE d == due - (last + BitCycles)
  <2>1. d \in Nat /\ d * SampleRate \in Nat
    BY <1>2, <1>3, <1>7
  <2>2. due * SampleRate = (last + BitCycles) * SampleRate + d * SampleRate
    BY <1>2, <1>7
  <2> HIDE DEF d
  <2> QED BY <1>6, <1>8, <2>1, <2>2
<1>10. count < 10 => Edge' = Edge + TxBit
  BY <1>3, <1>6, <1>8
<1> DEFINE c == sent[Len(sent)]
<1>11. c \in 0 .. 255
  <2>1. c \in Bytes
    BY <1>2, <1>3
  <2> HIDE DEF c
  <2> QED BY <2>1, ByteRange
<1>12. /\ count = 10 => temp = c
       /\ count < 10 => temp = Rest(c, count)
  BY <1>3 DEF Inv, LineInv
<1> HIDE DEF c
<1>13. temp' \in 0 .. 255
  BY <1>1, <1>2
<1>14. uart_tx' = Bit(c, Element')
  <2>1. CASE count = 10
    BY <1>1, <1>4, <2>1 DEF Bit
  <2>2. CASE count < 10
    <3>1. Rest(c, count) % 2 = Bit(c, 10 - count)
      <4>1. count \in 1 .. 9
        BY <1>3, <2>2
      <4> QED BY <1>11, <4>1, RestSent
    <3>2. Element' = 10 - count
      BY <1>1, <1>3, <1>4
    <3> QED BY <1>1, <1>12, <2>2, <3>1, <3>2
  <2> QED BY <1>3, <2>1, <2>2
<1>15. count' # 0 => temp' = Rest(c, count')
  <2>1. CASE count = 10
    <3>1. Rest(c, 9) = c
      BY <1>11, Powers DEF Rest
    <3> QED BY <1>1, <1>12, <2>1, <3>1
  <2>2. CASE count < 10
    <3>1. count > 1 => Rest(c, count) \div 2 + 128 = Rest(c, count - 1)
      <4>1. count \in 1 .. 9
        BY <1>3, <2>2
      <4> QED BY <1>11, <4>1, RestSent
    <3>2. count' # 0 => count > 1
      BY <1>1, <1>3
    <3> QED BY <1>1, <1>12, <2>2, <3>1, <3>2
  <2> QED BY <1>3, <2>1, <2>2
<1>16. uart_tx' = Bit(sent[OnLine'], Element')
  BY <1>5, <1>14 DEF c
<1>17. count' # 0 => temp' = Rest(sent[Len(sent)], count')
  BY <1>15 DEF c
<1>18. /\ count' # 0 => due' = due + BitCycles
       /\ count' = 0 => due' = -1
  BY <1>1, <1>3
<1>19. /\ IF count = 10 THEN Element = 9 /\ Element' = 0 /\ OnLine' = OnLine + 1
          ELSE Element \in 0 .. 8 /\ Element' = Element + 1 /\ OnLine' = OnLine
                 /\ last' = last + BitCycles
       /\ Element' \in 0 .. 9
  BY <1>1, <1>3, <1>4, <1>5
<1>20. last' \in Nat /\ last' >= last + BitCycles /\ due' \in Int
  BY <1>1, <1>2, <1>3, <1>7
<1>21. Edge \in Int
  BY <1>8
<1>22. IF count = 10
       THEN Element = 9 /\ Element' = 0 /\ OnLine' = OnLine + 1 /\ Edge' >= Edge + TxBit
       ELSE Element \in 0 .. 8 /\ Element' = Element + 1 /\ OnLine' = OnLine
              /\ last' = last + BitCycles /\ Edge' = Edge + TxBit
  <2>1. count # 10 => count < 10
    BY <1>3
  <2> QED BY <1>9, <1>10, <1>19, <2>1, Zenon
<1>23. OnLine' = Len(sent)
  BY <1>5
<1> HIDE DEF c
<1> QED
  BY <1>1, <1>3, <1>13, <1>16, <1>17, <1>18, <1>19, <1>20, <1>21, <1>22, <1>23, Zenon
  DEF NextBit

LEMMA NextBitLine ==
  ASSUME Inv, Uarttxr
  PROVE  TypeInv' /\ LineInv'
<1>1. /\ sent' = sent /\ UNCHANGED <<sim, printed, run, tb, written, finished>>
      /\ call' = IF run THEN [cycle |-> due, value |-> uart_tx'] ELSE NoCall
  BY DEF Uarttxr, testbench
<1>2. NextBit
  BY NextBitFacts
<1>3. /\ count \in 1 .. 10 /\ count' = count - 1 /\ last' = due
      /\ count' # 0 => temp' = Rest(sent[Len(sent)], count') /\ due' = due + BitCycles
      /\ count' = 0 => due' = -1
      /\ uart_tx' = Bit(sent[OnLine'], Element')
      /\ OnLine' = Len(sent) /\ Len(sent) > 0 /\ Element' \in 0 .. 9
      /\ temp' \in 0 .. 255 /\ last' \in Nat /\ due' \in Int
  BY <1>2 DEF NextBit
<1>4. due \in Int /\ sent \in Seq(Bytes) /\ TypeInv
  BY DEF Inv, TypeInv
<1>5. uart_tx' \in 0 .. 1
  <2> DEFINE c == sent[OnLine']
  <2>1. c \in Bytes
    BY <1>3, <1>4
  <2>2. uart_tx' = Bit(c, Element')
    BY <1>3
  <2> HIDE DEF c
  <2>3. c \in 0 .. 255 /\ Element' \in Int
    BY <1>3, <2>1, ByteRange
  <2> QED BY <2>2, <2>3, BitValue
<1>6. call' \in [cycle : Int, value : 0 .. 1]
  BY <1>1, <1>4, <1>5 DEF NoCall
<1>7. count' \in 0 .. 10
  BY <1>3
<1>8. TypeInv'
  BY <1>1, <1>3, <1>4, <1>5, <1>6, <1>7 DEF TypeInv
<1>9. count' # 0 => due' # -1
  BY <1>3, BitsLast
<1>10. LineInv'
  BY <1>1, <1>3, <1>9 DEF LineInv
<1> QED BY <1>8, <1>10

(* When the line changes the testbench has looked at the element before.   *)
LEMMA NextBitTb ==
  ASSUME Inv, Uarttxr
  PROVE  TbInv'
<1>1. UNCHANGED <<sent, tb, written, finished>>
  BY DEF Uarttxr, testbench
<1>2. /\ due # -1 /\ last' = due
      /\ finished \/ ((tb.idle => uart_tx = 1) /\ (~tb.idle => tb.sample_at > due))
  BY DEF Uarttxr, TbBefore
<1>3. NextBit
  BY NextBitFacts
<1>4. /\ count \in 1 .. 10 /\ count' = count - 1 /\ Element' \in 0 .. 9
      /\ IF count = 10 THEN Element = 9 /\ Element' = 0 /\ OnLine' = OnLine + 1
         ELSE Element \in 0 .. 8 /\ Element' = Element + 1 /\ OnLine' = OnLine
                /\ last' = last + BitCycles
      /\ last' >= last + BitCycles
  BY <1>3 DEF NextBit
<1>5. /\ LineInv /\ TbInv /\ OnLine \in Int /\ last \in Nat /\ due \in Int /\ Len(written) \in Nat
      /\ tb.bit_counter \in Int /\ tb.sample_at \in Int
  <2>1. sent \in Seq(Bytes) /\ written \in Seq(Bytes) /\ last \in Nat /\ due \in Int
    BY DEF Inv, TypeInv
  <2>2. tb \in [idle : BOOLEAN, bit_counter : Int, sample_at : Int, shifter : 0 .. 255]
    BY DEF Inv, TypeInv
  <2> QED BY <2>1, <2>2 DEF OnLine, Inv
<1>6. Prefix(written', sent')
  BY <1>1, <1>5 DEF TbInv, Prefix
<1>7. CASE finished
  BY <1>1, <1>5, <1>6, <1>7 DEF TbInv
<1>8. CASE tb.idle /\ ~finished
  <2>1. Element # 0
    <3>1. uart_tx = 1 /\ uart_tx = Bit(sent[OnLine], Element)
      BY <1>2, <1>5, <1>8 DEF LineInv
    <3> QED BY <3>1 DEF Bit
  <2>2. count = 10 /\ Len(written) = OnLine
    BY <1>4, <1>5, <1>8, <2>1 DEF TbInv
  <2>3. Len(written) = OnLine' - 1 /\ Element' = 0
    BY <1>4, <1>5, <2>2
  <2> QED BY <1>1, <1>6, <1>8, <2>3 DEF TbInv
<1>9. CASE ~tb.idle
  <2> DEFINE k == tb.bit_counter
  <2>1. ~finished /\ TbBusyInv
    BY <1>5, <1>9 DEF TbInv
  <2>2. k \in 0 .. 9
    BY <2>1 DEF TbBusyInv
  <2>3. TbOffset(k) \in Int /\ TbOffset(k) <= BitCycles /\ BitCycles \in Int
    BY <2>2, TbCentred, TbOffsetIs, ClockTypes
  <2>4. /\ \/ k = Element /\ tb.sample_at = last + TbOffset(k)
           \/ k = Element + 1 /\ tb.sample_at = last + BitCycles + TbOffset(k)
        /\ Len(written) = OnLine - 1
        /\ k > 0 =>
             tb.shifter \div 2 ^ (9 - k) = sent[Len(written) + 1] % 2 ^ (k - 1)
    BY <2>1 DEF TbBusyInv
  <2>5. ~(k = Element /\ tb.sample_at = last + TbOffset(k))
    BY <1>2, <1>4, <1>5, <1>9, <2>1, <2>3
  <2>6. count # 10
    BY <1>4, <2>2, <2>4, <2>5
  <2>7. k = Element' /\ tb.sample_at = last' + TbOffset(k) /\ Len(written) = OnLine' - 1
    BY <1>4, <2>4, <2>5, <2>6
  <2>8. TbBusyInv'
    BY <1>1, <2>2, <2>4, <2>7 DEF TbBusyInv
  <2> QED BY <1>1, <1>6, <1>9, <2>1, <2>8 DEF TbInv
<1> QED BY <1>7, <1>8, <1>9

LEMMA SimTypes ==
  ASSUME TypeInv
  PROVE  /\ sim.line_state \in 0 .. 1 /\ sim.sample_cycle \in Int /\ sim.counter \in Int
         /\ sim.bit_num \in Int /\ sim.byte_val \in Nat /\ sim.rxb \in Int
         /\ LooksAt \in Int /\ Looking \in Int /\ Edge \in Int /\ OnLine \in Int
         /\ Element \in 0 .. 9 /\ Len(printed) \in Nat /\ Len(sent) \in Nat
<1>1. /\ sim.line_state \in 0 .. 1 /\ sim.sample_cycle \in Int /\ sim.counter \in Int
      /\ sim.bit_num \in Int /\ sim.byte_val \in Nat /\ sim.rxb \in Int
  <2>1. sim \in [line_state : 0 .. 1, sample_cycle : Nat, idle : BOOLEAN, counter : Int,
                 bit_num : Int, byte_val : Nat, rxb : Int]
    BY DEF TypeInv
  <2> QED BY <2>1
<1>2. count \in 0 .. 10 /\ last \in Nat /\ Len(sent) \in Nat /\ Len(printed) \in Nat
  BY DEF TypeInv
<1>3. LooksAt \in Int
  <2>1. (sim.counter - 1) * CLOCK_HZ \in Int
    BY <1>1, UartAssumption
  <2> QED BY <1>1, <2>1 DEF LooksAt
<1>4. Edge \in Int
  BY <1>2, ClockTypes DEF Edge
<1>5. Looking \in Int /\ OnLine \in Int /\ Element \in 0 .. 9
  BY <1>1, <1>2 DEF Looking, OnLine, Element
<1> QED BY <1>1, <1>2, <1>3, <1>4, <1>5

(* A simg that has stopped sees nothing of it.                             *)
LEMMA NextBitUnseen ==
  ASSUME Inv, Uarttxr, ~run
  PROVE  SimInv'
<1>1. UNCHANGED <<sent, sim, printed, run>> /\ call' = NoCall
  BY DEF Uarttxr
<1>2. SimInv
  BY DEF Inv
<1>3. CallInv'
  BY <1>1 DEF CallInv
<1>4. Prefix(printed', sent')
  BY <1>1, <1>2 DEF SimInv
<1>5. sim'.idle
  BY <1>1, <1>2 DEF SimInv
<1> QED BY <1>1, <1>3, <1>4, <1>5 DEF SimInv

(* uart.py looks at an element when the line has changed to the next one.  *)
LEMMA NextBitSim ==
  ASSUME Inv, Uarttxr, run
  PROVE  SimInv'
<1>1. UNCHANGED <<sent, sim, printed, run>> /\ call' = [cycle |-> due, value |-> uart_tx']
  BY DEF Uarttxr
<1>2. NextBit
  BY NextBitFacts
<1>3. /\ count \in 1 .. 10 /\ count' = count - 1 /\ Element' \in 0 .. 9 /\ call = NoCall
      /\ OnLine' = Len(sent) /\ Len(sent) > 0 /\ last' = due /\ last' \in Nat
      /\ IF count = 10 THEN Element = 9 /\ Element' = 0 /\ OnLine' = OnLine + 1
                              /\ Edge' >= Edge + TxBit
         ELSE Element \in 0 .. 8 /\ Element' = Element + 1 /\ OnLine' = OnLine
                /\ Edge' = Edge + TxBit
  BY <1>2 DEF NextBit
<1>4. TypeInv /\ LineInv /\ SimInv
  BY DEF Inv
<1>5. /\ sim.sample_cycle \in Int /\ LooksAt \in Int /\ Looking \in Int /\ Edge \in Int
      /\ OnLine \in Int /\ Len(printed) \in Nat
  BY <1>4, SimTypes
<1>6. /\ CLOCK_HZ \in Nat /\ CLOCK_HZ > 0 /\ TxBit \in Nat /\ TxBit > 0 /\ CLOCK_HZ < TxBit
  <2>1. SimOffset(0) \in Int /\ SimOffset(0) > 0 /\ SimOffset(0) + CLOCK_HZ < TxBit
    BY SimWithin, SimOffsetIs
  <2> QED BY <2>1, UartAssumption, BitsLast
<1>7. Edge' \in Int /\ Edge' >= Edge + TxBit
  <2>1. Edge' = last' * SampleRate
    BY DEF Edge
  <2>2. Edge' \in Int
    BY <1>3, <2>1, ClockTypes
  <2> QED BY <1>3, <1>5, <1>6, <2>2
<1>8. call' # NoCall
  BY <1>1, <1>3 DEF NoCall
<1>9. CallInv'
  <2>1. sim.line_state = Bit(sent[OnLine], Element)
    BY <1>3, <1>4 DEF SimInv, CallInv, LineInv
  <2>2. CASE count = 10
    BY <1>1, <1>3, <2>1, <2>2, <1>8 DEF CallInv, Bit
  <2>3. CASE count # 10
    <3>1. Element' # 0 /\ Element' - 1 = Element
      BY <1>3, <2>3
    <3>2. sim.line_state = Bit(sent[OnLine'], Element' - 1)
      BY <1>3, <2>1, <2>3, <3>1
    <3> QED BY <1>1, <1>3, <1>8, <3>1, <3>2 DEF CallInv
  <2> QED BY <2>2, <2>3
<1>10. Prefix(printed', sent')
  BY <1>1, <1>4 DEF SimInv
<1>11. CASE sim.idle
  <2>1. SimIdleInv
    BY <1>4, <1>11 DEF SimInv
  <2>2. /\ sim.sample_cycle <= Edge + CLOCK_HZ
        /\ \/ Element = 9 /\ Len(printed) = OnLine /\ sim.rxb = -1
           \/ /\ Element = 0 /\ Len(printed) = OnLine - 1 /\ sim.rxb = -1
              /\ sim.sample_cycle > Edge
    BY <1>3, <2>1 DEF SimIdleInv
  <2>3. sim.sample_cycle <= Edge' + CLOCK_HZ
    BY <1>5, <1>6, <1>7, <2>2
  <2>4. CASE count = 10
    <3>1. Element' = 0 /\ Len(printed) = OnLine' - 1 /\ sim.rxb = -1
      BY <1>3, <1>5, <2>2, <2>4
    <3>2. SimIdleInv'
      BY <1>1, <1>8, <2>3, <3>1 DEF SimIdleInv
    <3> QED BY <1>1, <1>9, <1>10, <1>11, <3>2 DEF SimInv
  <2>5. CASE count # 10
    <3>1. /\ Element' = 1 /\ Len(printed) = OnLine' - 1 /\ sim.rxb = -1
          /\ sim.sample_cycle > Edge' - TxBit /\ sim.sample_cycle <= Edge' - TxBit + CLOCK_HZ
      BY <1>3, <1>5, <1>6, <2>2, <2>5
    <3>2. SimIdleInv'
      BY <1>1, <1>8, <2>3, <3>1 DEF SimIdleInv
    <3> QED BY <1>1, <1>9, <1>10, <1>11, <3>2 DEF SimInv
  <2> QED BY <2>4, <2>5
<1>12. CASE ~sim.idle
  <2>1. SimBusyInv
    BY <1>4, <1>12 DEF SimInv
  <2>2. /\ sim.counter >= 1 /\ sim.rxb = -1 /\ Looking \in 0 .. 9
        /\ IF Looking = 0 THEN sim.byte_val = 0
           ELSE sim.byte_val = sent[Len(printed) + 1] % 2 ^ sim.bit_num
        /\ Element >= 1 /\ Looking = Element /\ LooksBehind(Edge) /\ Len(printed) = OnLine - 1
    BY <1>3, <2>1 DEF SimBusyInv
  <2>3. LooksAt' = LooksAt /\ Looking' = Looking
    BY <1>1 DEF LooksAt, Looking
  <2>4. LooksAt > Edge + SimOffset(Looking) /\ LooksAt <= Edge + SimOffset(Looking) + CLOCK_HZ
    BY <2>2 DEF LooksBehind
  <2>5. CASE count = 10
    <3>1. SimOffset(9) \in Int /\ SimOffset(9) + CLOCK_HZ < TxBit
      BY SimWithin, SimOffsetIs
    <3>2. Looking = 9 /\ Element' = 0
      BY <1>3, <2>2, <2>5
    <3>3. LooksAt <= Edge'
      BY <1>5, <1>6, <1>7, <2>4, <3>1, <3>2
    <3>4. Len(printed) = OnLine' - 2
      BY <1>3, <1>5, <2>2, <2>5
    <3>5. SimBusyInv'
      BY <1>1, <1>8, <2>2, <2>3, <3>2, <3>3, <3>4 DEF SimBusyInv
    <3> QED BY <1>1, <1>9, <1>10, <1>12, <3>5 DEF SimInv
  <2>6. CASE count # 10
    <3>1. /\ Element' >= 1 /\ Looking = Element' - 1 /\ Len(printed) = OnLine' - 1
          /\ Edge' - TxBit = Edge
      BY <1>3, <1>5, <1>6, <2>2, <2>6
    <3>2. LooksAt' > (Edge' - TxBit) + SimOffset(Looking')
            /\ LooksAt' <= (Edge' - TxBit) + SimOffset(Looking') + CLOCK_HZ
      BY <2>3, <2>4, <3>1
    <3>3. LooksBehind(Edge - TxBit)'
      BY <3>2 DEF LooksBehind
    <3>4. SimBusyInv'
      BY <1>1, <1>8, <2>2, <2>3, <3>1, <3>3 DEF SimBusyInv
    <3> QED BY <1>1, <1>9, <1>10, <1>12, <3>4 DEF SimInv
  <2> QED BY <2>5, <2>6
<1> QED BY <1>11, <1>12

LEMMA NextBitInv ==
  ASSUME Inv, Uarttxr
  PROVE  Inv'
<1>1. errors' = {}
  BY DEF Inv, Uarttxr
<1>2. SimInv'
  BY NextBitSim, NextBitUnseen
<1> QED BY <1>1, <1>2, NextBitLine, NextBitTb DEF Inv

-----------------------------------------------------------------------------
(* The testbench.                                                          *)

TbType == [idle : BOOLEAN, bit_counter : Int, sample_at : Int, shifter : 0 .. 255]

LEMMA TbStartInv ==
  ASSUME Inv, TbStart
  PROVE  Inv'
<1>1. /\ UNCHANGED transmitter /\ UNCHANGED simulator /\ written' = written /\ errors' = errors
      /\ tb.idle /\ uart_tx = 0 /\ ~finished /\ finished' = finished
      /\ tb' = [tb EXCEPT !.idle = FALSE, !.bit_counter = 0, !.sample_at = last + 1 + HalfBit]
  BY DEF TbStart
<1>2. TypeInv /\ LineInv /\ TbInv /\ SimInv /\ errors = {}
  BY DEF Inv
<1>3. tb \in TbType /\ last \in Nat
  BY <1>2 DEF TypeInv, TbType
<1>4. last + 1 + HalfBit = last + TbOffset(0)
  <2>1. TbOffset(0) = 1 + HalfBit + 0 * (TbBit - BitCycles)
    BY TbOffsetIs
  <2>2. 0 * (TbBit - BitCycles) = 0
    BY ClockTypes
  <2> QED BY <1>3, <2>1, <2>2, ClockTypes
<1> DEFINE at == last + 1 + HalfBit
<1>5. at \in Int
  BY <1>3, ClockTypes
<1>6. tb' = [tb EXCEPT !.idle = FALSE, !.bit_counter = 0, !.sample_at = at]
  BY <1>1
<1> HIDE DEF at
<1>7. tb' \in TbType
  <2> DEFINE r1 == [tb EXCEPT !.idle = FALSE]
             r2 == [r1 EXCEPT !.bit_counter = 0]
  <2>1. r1 \in TbType
    BY <1>3 DEF TbType
  <2>2. r2 \in TbType
    <3> HIDE DEF r1
    <3> QED BY <2>1 DEF TbType
  <2>3. [r2 EXCEPT !.sample_at = at] \in TbType
    <3> HIDE DEF r2
    <3> QED BY <1>5, <2>2 DEF TbType
  <2> QED BY <1>6, <2>3
<1>8. tb'.idle = FALSE /\ tb'.bit_counter = 0 /\ tb'.sample_at = at
  BY <1>3, <1>6 DEF TbType
<1>9. Element = 0
  <2>1. Element # 9
    BY <1>1, <1>2 DEF LineInv, Bit
  <2> QED BY <1>1, <1>2, <2>1 DEF TbInv
<1>10. Element' = Element /\ OnLine' = OnLine /\ last' = last /\ sent' = sent
  BY <1>1 DEF transmitter, Element, OnLine
<1>11. Len(written) = OnLine - 1
  BY <1>1, <1>2, <1>9 DEF TbInv
<1>12. TbBusyInv'
  BY <1>1, <1>4, <1>8, <1>9, <1>10, <1>11 DEF TbBusyInv, at
<1>13. TbInv'
  BY <1>1, <1>2, <1>8, <1>10, <1>12 DEF TbInv
<1>14. TypeInv'
  BY <1>1, <1>2, <1>7 DEF TypeInv, transmitter, simulator, TbType
<1> QED BY <1>1, <1>2, <1>13, <1>14, LineKept, SimKept DEF Inv

(* The register that counts is at the element on the line whenever the     *)
(* testbench samples.                                                      *)
LEMMA TbSamplesElement ==
  ASSUME Inv, ~tb.idle, due # -1 => tb.sample_at <= due
  PROVE  /\ tb.bit_counter \in 0 .. 9 /\ tb.bit_counter = Element
         /\ tb.sample_at = last + TbOffset(tb.bit_counter)
<1> DEFINE k == tb.bit_counter
<1>1. TypeInv /\ LineInv /\ TbInv
  BY DEF Inv
<1>2. TbBusyInv
  BY <1>1 DEF TbInv
<1>3. /\ k \in 0 .. 9
      /\ \/ k = Element /\ tb.sample_at = last + TbOffset(k)
         \/ k = Element + 1 /\ tb.sample_at = last + BitCycles + TbOffset(k)
  BY <1>2 DEF TbBusyInv
<1>4. count \in 0 .. 10 /\ last \in Nat /\ Element \in 0 .. 9
  BY <1>1, SimTypes DEF TypeInv
<1>5. ~(k = Element + 1)
  <2> SUFFICES ASSUME k = Element + 1 PROVE FALSE
    OBVIOUS
  <2>1. Element < 9
    BY <1>3, <1>4
  <2>2. count \in 1 .. 9
    BY <1>4, <2>1 DEF Element
  <2>3. due = last + BitCycles /\ due # -1
    BY <1>1, <2>2 DEF LineInv
  <2>4. TbOffset(k) > 0 /\ TbOffset(k) \in Int
    BY <1>3, TbCentred, TbOffsetIs
  <2>5. tb.sample_at = last + BitCycles + TbOffset(k)
    BY <1>3, <1>4
  <2> QED BY <1>4, <2>3, <2>4, <2>5, ClockTypes
<1> QED BY <1>3, <1>5

(* What TbSample reads, and where the next bit will be sampled.            *)
TbReads(k, c) ==
  /\ k \in 0 .. 9 /\ k = tb.bit_counter /\ k = Element /\ c = sent[Len(written) + 1]
  /\ Len(written) = OnLine - 1 /\ Len(written) < Len(sent) /\ Len(written) \in Nat
  /\ c \in Bytes /\ c \in 0 .. 255 /\ uart_tx = Bit(c, k)
  /\ k > 0 => tb.shifter \div 2 ^ (9 - k) = c % 2 ^ (k - 1)
  /\ tb.sample_at + TbBit = last + BitCycles + TbOffset(k + 1) /\ tb.sample_at + TbBit \in Int

LEMMA TbSampleFacts ==
  ASSUME Inv, TbSample
  PROVE  TbReads(tb.bit_counter, sent[Len(written) + 1])
<1> DEFINE k == tb.bit_counter
           c == sent[Len(written) + 1]
<1>1. ~tb.idle /\ (due # -1 => tb.sample_at <= due)
  BY DEF TbSample
<1>2. k \in 0 .. 9 /\ k = Element /\ tb.sample_at = last + TbOffset(k)
  BY <1>1, TbSamplesElement
<1>3. TypeInv /\ LineInv /\ TbBusyInv
  BY <1>1 DEF Inv, TbInv
<1>4. /\ Len(written) = OnLine - 1
      /\ k > 0 => tb.shifter \div 2 ^ (9 - k) = c % 2 ^ (k - 1)
  BY <1>3 DEF TbBusyInv
<1>5. /\ sent \in Seq(Bytes) /\ Len(sent) \in Nat /\ Len(written) \in Nat /\ OnLine \in Int
      /\ last \in Nat /\ OnLine <= Len(sent)
  <2>1. sent \in Seq(Bytes) /\ written \in Seq(Bytes) /\ last \in Nat
    BY <1>3 DEF TypeInv
  <2> QED BY <2>1 DEF OnLine
<1>6. Len(written) < Len(sent) /\ OnLine = Len(written) + 1
  BY <1>4, <1>5
<1>7. c \in Bytes
  BY <1>5, <1>6
<1>8. uart_tx = Bit(c, k)
  BY <1>2, <1>3, <1>6 DEF LineInv
<1>9. TbOffset(k) \in Int /\ TbOffset(k + 1) = TbOffset(k) + TbBit - BitCycles
  BY <1>2, TbOffsetIs
<1> HIDE DEF k, c
<1>10. c \in 0 .. 255
  BY <1>7, ByteRange
<1>11. tb.sample_at + TbBit = last + BitCycles + TbOffset(k + 1) /\ tb.sample_at + TbBit \in Int
  BY <1>2, <1>5, <1>9, ClockTypes
<1> QED BY <1>2, <1>4, <1>5, <1>6, <1>7, <1>8, <1>10, <1>11 DEF TbReads, k, c

(* A step of the testbench that leaves a correct testbench.                *)
LEMMA TbStepInv ==
  ASSUME Inv, UNCHANGED transmitter, UNCHANGED simulator, tb' \in TbType,
         written' \in Seq(Bytes), finished' \in BOOLEAN, TbInv', errors' = {}
  PROVE  Inv'
<1>1. TypeInv'
  BY DEF Inv, TypeInv, transmitter, simulator, TbType
<1> QED BY <1>1, LineKept, SimKept DEF Inv

(* The next state of its registers: the counters, the bits, the end.       *)
TbCounted(r, at, n) == [r EXCEPT !.sample_at = at, !.bit_counter = n]

TbCountedTo(q, r, at, n) ==
  /\ q \in TbType /\ q.idle = r.idle /\ q.sample_at = at /\ q.bit_counter = n
  /\ q.shifter = r.shifter

LEMMA TbCounts ==
  ASSUME NEW r \in TbType, NEW at \in Int, NEW n \in Int
  PROVE  TbCountedTo(TbCounted(r, at, n), r, at, n)
<1> DEFINE q == TbCounted(r, at, n)
           p == [r EXCEPT !.sample_at = at]
<1>1. /\ q.idle = r.idle /\ q.sample_at = at /\ q.bit_counter = n /\ q.shifter = r.shifter
  BY DEF TbType, TbCounted
<1>2. p \in TbType
  BY DEF TbType
<1>3. q = [p EXCEPT !.bit_counter = n]
  BY DEF TbCounted
<1> HIDE DEF p
<1>4. q \in TbType
  BY <1>2, <1>3 DEF TbType
<1> QED BY <1>1, <1>4 DEF TbCountedTo

TbShifted(r, s) == [r EXCEPT !.shifter = s]

TbShiftedTo(q, r, s) ==
  /\ q \in TbType /\ q.idle = r.idle /\ q.sample_at = r.sample_at
  /\ q.bit_counter = r.bit_counter /\ q.shifter = s

LEMMA TbShifts ==
  ASSUME NEW r \in TbType, NEW s \in 0 .. 255
  PROVE  TbShiftedTo(TbShifted(r, s), r, s)
BY DEF TbType, TbShifted, TbShiftedTo

LEMMA TbStops ==
  ASSUME NEW r \in TbType, NEW q, q = [r EXCEPT !.idle = TRUE]
  PROVE  q \in TbType /\ q.idle = TRUE
BY DEF TbType

LEMMA TbSampleInv ==
  ASSUME Inv, TbSample
  PROVE  Inv'
<1> DEFINE k == tb.bit_counter
           c == sent[Len(written) + 1]
           next == [tb EXCEPT !.sample_at = @ + CLOCK_HZ \div BIT_RATE_HZ, !.bit_counter = @ + 1]
<1>1. UNCHANGED transmitter /\ UNCHANGED simulator /\ ~tb.idle /\ ~finished
  BY DEF TbSample
<1>2. \/ /\ k = 0 /\ tb' = next /\ written' = written /\ finished' = finished
         /\ errors' = IF uart_tx = 1 THEN errors \cup {"testbench"} ELSE errors
      \/ /\ k \in 1 .. StopBit - 1 /\ tb' = [next EXCEPT !.shifter = Shifted(tb.shifter, uart_tx)]
         /\ written' = written /\ finished' = finished /\ errors' = errors
      \/ /\ k = StopBit /\ tb' = [next EXCEPT !.idle = TRUE]
         /\ finished' = (uart_tx = 1 /\ tb.shifter = EndOfFile)
         /\ uart_tx = 1 =>
              /\ errors' = errors
              /\ written' = IF tb.shifter # EndOfFile THEN Append(written, tb.shifter) ELSE written
  BY DEF TbSample
<1>3. StopBit = 9
  BY DEF StopBit, data_bits
<1>4. TbReads(k, c)
  BY TbSampleFacts
<1>5. /\ k \in 0 .. 9 /\ k = Element /\ Len(written) = OnLine - 1
      /\ Len(written) < Len(sent) /\ Len(written) \in Nat
      /\ c \in Bytes /\ c \in 0 .. 255 /\ uart_tx = Bit(c, k)
      /\ k > 0 => tb.shifter \div 2 ^ (9 - k) = c % 2 ^ (k - 1)
      /\ tb.sample_at + TbBit = last + BitCycles + TbOffset(k + 1)
      /\ tb.sample_at + TbBit \in Int
  BY <1>4 DEF TbReads
<1>6. /\ tb \in TbType /\ tb.shifter \in 0 .. 255 /\ written \in Seq(Bytes) /\ sent \in Seq(Bytes)
      /\ TbInv /\ errors = {} /\ finished \in BOOLEAN
  <2>1. tb \in TbType
    BY DEF Inv, TypeInv, TbType
  <2> QED BY <2>1 DEF Inv, TypeInv, TbType
<1>7. /\ Element' = Element /\ OnLine' = OnLine /\ last' = last /\ sent' = sent
  BY <1>1 DEF transmitter, Element, OnLine
<1>8. next = [tb EXCEPT !.sample_at = tb.sample_at + TbBit, !.bit_counter = k + 1]
  BY DEF TbBit
<1> DEFINE at == tb.sample_at + TbBit
           n  == k + 1
<1>9. at \in Int /\ n \in Int
  BY <1>5
<1>10. next = TbCounted(tb, at, n)
  BY <1>8 DEF TbCounted
<1> HIDE DEF next, at, n
<1>11. /\ next \in TbType /\ next.idle = tb.idle /\ next.sample_at = at /\ next.bit_counter = n
       /\ next.shifter = tb.shifter
  <2>1. TbCountedTo(TbCounted(tb, at, n), tb, at, n)
    BY <1>6, <1>9, TbCounts
  <2> QED BY <1>10, <2>1 DEF TbCountedTo
<1>12. n = k + 1 /\ at = last + BitCycles + TbOffset(n)
  BY <1>5 DEF at, n
<1>13. CASE k = 0
  <2>1. tb' = next /\ written' = written /\ finished' = finished /\ errors' = {}
    <3>1. uart_tx = 0
      BY <1>5, <1>13 DEF Bit
    <3> QED BY <1>1, <1>2, <1>3, <1>6, <1>13, <3>1
  <2>2. tb.shifter \div 2 ^ (9 - n) = c % 2 ^ (n - 1)
    <3>1. n = 1 /\ 9 - n = 8 /\ n - 1 = 0
      BY <1>12, <1>13
    <3>2. c \in 0 .. 255
      BY <1>5
    <3> HIDE DEF c
    <3>3. c % 1 = 0
      BY <3>2, ByteDigits
    <3>4. tb.shifter \div 256 = 0
      BY <1>6, ByteDigits
    <3> QED BY <3>1, <3>3, <3>4, Powers
  <2>3. TbBusyInv'
    <3>1. /\ tb'.bit_counter = n /\ tb'.sample_at = at /\ tb'.shifter = tb.shifter
          /\ n = 1 /\ n = Element + 1 /\ n \in 0 .. 9
      BY <1>5, <1>11, <1>12, <1>13, <2>1
    <3> QED BY <1>5, <1>7, <1>12, <2>1, <2>2, <3>1 DEF TbBusyInv, c
  <2>4. ~tb'.idle
    BY <1>1, <1>11, <2>1
  <2>5. TbInv'
    BY <1>1, <1>6, <1>7, <2>1, <2>3, <2>4 DEF TbInv
  <2>6. finished' \in BOOLEAN
    BY <1>6, <2>1
  <2> QED BY <1>1, <1>6, <1>11, <2>1, <2>5, <2>6, TbStepInv
<1>14. CASE k \in 1 .. 8
  <2> DEFINE s == Shifted(tb.shifter, uart_tx)
  <2>1. tb' = [next EXCEPT !.shifter = s] /\ written' = written /\ finished' = finished /\ errors' = {}
    BY <1>1, <1>2, <1>3, <1>6, <1>14
  <2>2. HasBits(s, c, n)
    <3>1. s = Shifted(tb.shifter, Bit(c, k)) /\ c \in 0 .. 255 /\ n = k + 1
      BY <1>5, <1>12
    <3>2. tb.shifter \div 2 ^ (9 - k) = c % 2 ^ (k - 1)
      BY <1>5, <1>14
    <3>3. HasBits(tb.shifter, c, k)
      BY <1>6, <3>2 DEF HasBits
    <3> HIDE DEF k, c, s
    <3>4. HasBits(Shifted(tb.shifter, Bit(c, k)), c, k + 1)
      BY <1>14, <3>1, <3>3, ShiftedInto
    <3> QED BY <3>1, <3>4
  <2>3. s \in 0 .. 255 /\ s \div 2 ^ (9 - n) = c % 2 ^ (n - 1)
    BY <2>2 DEF HasBits
  <2> HIDE DEF s
  <2>4. /\ tb' \in TbType /\ tb'.idle = next.idle /\ tb'.sample_at = at /\ tb'.bit_counter = n
        /\ tb'.shifter = s
    <3>1. next \in TbType /\ s \in 0 .. 255
      BY <1>11, <2>3
    <3>2. TbShiftedTo(TbShifted(next, s), next, s)
      BY <3>1, TbShifts
    <3>3. tb' = TbShifted(next, s)
      BY <2>1 DEF TbShifted
    <3>4. TbShiftedTo(tb', next, s)
      BY <3>2, <3>3
    <3> QED BY <1>11, <3>4 DEF TbShiftedTo
  <2>5. s \div 2 ^ (9 - n) = c % 2 ^ (n - 1)
    BY <2>3
  <2>6. TbBusyInv'
    BY <1>5, <1>7, <1>12, <1>14, <2>1, <2>4, <2>5 DEF TbBusyInv, c
  <2>7. ~tb'.idle
    BY <1>1, <1>11, <2>4
  <2>8. TbInv'
    BY <1>1, <1>6, <1>7, <2>1, <2>6, <2>7 DEF TbInv
  <2>9. finished' \in BOOLEAN
    BY <1>6, <2>1
  <2> QED BY <1>1, <1>6, <2>1, <2>4, <2>8, <2>9, TbStepInv
<1>15. CASE k = 9
  <2>1. tb.shifter = c
    <3>1. tb.shifter \div 2 ^ 0 = c % 2 ^ 8 /\ c \in 0 .. 255
      BY <1>5, <1>15
    <3> HIDE DEF c
    <3>2. tb.shifter \div 1 = c % 256
      BY <3>1, Powers
    <3>3. c % 256 = c
      BY <3>1, ByteDigits
    <3>4. tb.shifter \div 1 = tb.shifter
      BY <1>6, ByteDigits
    <3> QED BY <3>2, <3>3, <3>4
  <2>2. uart_tx = 1
    BY <1>5, <1>15 DEF Bit
  <2>3. /\ tb' = [next EXCEPT !.idle = TRUE] /\ errors' = {} /\ finished' = (c = EndOfFile)
        /\ written' = IF c # EndOfFile THEN Append(written, c) ELSE written
    BY <1>2, <1>3, <1>6, <1>15, <2>1, <2>2
  <2>4. tb' \in TbType /\ tb'.idle = TRUE /\ finished' \in BOOLEAN
    BY <1>11, <2>3, TbStops
  <2>5. Prefix(written, sent)
    BY <1>6 DEF TbInv
  <2>6. CASE c = EndOfFile
    <3>1. written' = written /\ finished'
      BY <2>3, <2>6
    <3>2. TbInv'
      BY <1>7, <2>4, <2>5, <3>1 DEF TbInv
    <3> QED BY <1>1, <1>6, <2>3, <2>4, <3>1, <3>2, TbStepInv
  <2>7. CASE c # EndOfFile
    <3>1. written' = Append(written, c)
      BY <2>3, <2>7
    <3>2. written' \in Seq(Bytes) /\ Len(written') = Len(written) + 1
      BY <1>5, <1>6, <3>1
    <3>3. Prefix(written', sent')
      BY <1>5, <1>6, <1>7, <2>5, <3>1, PrefixShow
    <3>4. Len(written') = OnLine'
      <4>1. OnLine \in Int
        BY SimTypes DEF Inv
      <4> QED BY <1>5, <1>7, <3>2, <4>1
    <3>5. TbInv'
      BY <1>5, <1>7, <1>15, <2>4, <3>3, <3>4 DEF TbInv
    <3> QED BY <1>1, <2>3, <2>4, <3>2, <3>5, TbStepInv
  <2> QED BY <2>6, <2>7
<1>16. k = 0 \/ k \in 1 .. 8 \/ k = 9
  BY <1>5
<1> QED BY <1>13, <1>14, <1>15, <1>16

-----------------------------------------------------------------------------
(* The receiver of simg.                                                   *)

SimType ==
  [line_state : 0 .. 1, sample_cycle : Nat, idle : BOOLEAN, counter : Int,
   bit_num : Int, byte_val : Nat, rxb : Int]

LEMMA SimUpdates ==
  ASSUME NEW r \in SimType
  PROVE  /\ \A v \in Nat : [r EXCEPT !.sample_cycle = v] \in SimType
         /\ \A v \in Int : [r EXCEPT !.counter = v] \in SimType
         /\ \A v \in Int : [r EXCEPT !.bit_num = v] \in SimType
         /\ \A v \in Nat : [r EXCEPT !.byte_val = v] \in SimType
         /\ \A v \in Int : [r EXCEPT !.rxb = v] \in SimType
         /\ \A v \in 0 .. 1 : [r EXCEPT !.line_state = v] \in SimType
         /\ [r EXCEPT !.idle = TRUE] \in SimType
         /\ [r EXCEPT !.idle = FALSE] \in SimType
<1>1. \A v \in Nat : [r EXCEPT !.sample_cycle = v] \in SimType
  BY DEF SimType
<1>2. \A v \in Int : [r EXCEPT !.counter = v] \in SimType
  BY DEF SimType
<1>3. \A v \in Int : [r EXCEPT !.bit_num = v] \in SimType
  BY DEF SimType
<1>4. \A v \in Nat : [r EXCEPT !.byte_val = v] \in SimType
  BY DEF SimType
<1>5. \A v \in Int : [r EXCEPT !.rxb = v] \in SimType
  BY DEF SimType
<1>6. \A v \in 0 .. 1 : [r EXCEPT !.line_state = v] \in SimType
  BY DEF SimType
<1>7. [r EXCEPT !.idle = TRUE] \in SimType
  BY DEF SimType
<1>8. [r EXCEPT !.idle = FALSE] \in SimType
  BY DEF SimType
<1> QED BY <1>1, <1>2, <1>3, <1>4, <1>5, <1>6, <1>7, <1>8

LEMMA SimSampled ==
  ASSUME NEW r \in SimType
  PROVE  /\ Sampled(r) \in SimType
         /\ Sampled(r).sample_cycle = r.sample_cycle + CLOCK_HZ
         /\ Sampled(r).line_state = r.line_state /\ Sampled(r).counter = r.counter
         /\ Sampled(r).bit_num = r.bit_num /\ Sampled(r).byte_val = r.byte_val
         /\ Sampled(r).rxb = r.rxb
<1>1. r.sample_cycle + CLOCK_HZ \in Nat
  BY UartAssumption DEF SimType
<1>2. Sampled(r) \in SimType
  BY <1>1, SimUpdates DEF Sampled
<1> QED BY <1>2 DEF Sampled, SimType

LEMMA SimSampledIdle ==
  ASSUME NEW r \in SimType
  PROVE  Sampled(r).idle <=> r.idle
BY DEF Sampled, SimType

(* A step of the receiver during a call.                                   *)
SimSteps ==
  /\ UNCHANGED transmitter /\ UNCHANGED testbench
  /\ call' = call /\ printed' = printed /\ run' = run

LEMMA SimStepInv ==
  ASSUME Inv, SimSteps, errors' = {}, sim' \in SimType, sim'.line_state = sim.line_state,
         call # NoCall, sim'.idle => SimIdleInv', ~sim'.idle => SimBusyInv'
  PROVE  Inv'
<1>1. TypeInv /\ LineInv /\ TbInv /\ SimInv
  BY DEF Inv
<1>2. TypeInv'
  BY <1>1 DEF TypeInv, SimSteps, transmitter, testbench, SimType
<1>3. CallInv'
  BY <1>1 DEF SimInv, CallInv, SimSteps, transmitter, Element, OnLine
<1>4. Prefix(printed', sent')
  BY <1>1 DEF SimInv, SimSteps, transmitter
<1>5. SimInv'
  <2>1. run'
    BY <1>1 DEF SimInv, CallInv, SimSteps
  <2> QED BY <1>3, <1>4, <2>1 DEF SimInv
<1>6. LineInv' /\ TbInv'
  BY <1>1, LineKept, TbKept DEF SimSteps
<1> QED BY <1>2, <1>5, <1>6 DEF Inv

LEMMA SimStepView ==
  ASSUME SimSteps
  PROVE  /\ Element' = Element /\ OnLine' = OnLine /\ Edge' = Edge /\ sent' = sent
         /\ call' = call /\ printed' = printed
BY DEF SimSteps, transmitter, Element, OnLine, Edge

(* During a call samples up to the edge are taken.                         *)
LEMMA SamplesBefore ==
  ASSUME Inv, call # NoCall
  PROVE  /\ Sampling <=> sim.sample_cycle <= Edge
         /\ call.cycle * SampleRate = Edge
<1>1. call.cycle = last
  <2>1. call = [cycle |-> last, value |-> uart_tx]
    BY DEF Inv, SimInv, CallInv
  <2> QED BY <2>1
<1>2. call.cycle * SampleRate = Edge
  BY <1>1 DEF Edge
<1> QED BY <1>2 DEF Sampling

(* A low line is taken for a start bit half a bit after it is first seen.  *)
SimBegun(r) == [Sampled(r) EXCEPT !.idle = FALSE, !.bit_num = -1, !.byte_val = 0,
                                  !.counter = oversampling \div 2]

LEMMA SimBegins ==
  ASSUME NEW r \in SimType
  PROVE  /\ SimBegun(r) \in SimType /\ SimBegun(r).idle = FALSE
         /\ SimBegun(r).sample_cycle = r.sample_cycle + CLOCK_HZ
         /\ SimBegun(r).line_state = r.line_state /\ SimBegun(r).bit_num = -1
         /\ SimBegun(r).counter = oversampling \div 2 /\ SimBegun(r).byte_val = 0
         /\ SimBegun(r).rxb = r.rxb
<1> DEFINE p == Sampled(r)
           p1 == [p EXCEPT !.idle = FALSE]
           p2 == [p1 EXCEPT !.bit_num = -1]
           p3 == [p2 EXCEPT !.byte_val = 0]
           h == oversampling \div 2
<1>1. /\ p \in SimType /\ p.sample_cycle = r.sample_cycle + CLOCK_HZ
      /\ p.line_state = r.line_state /\ p.rxb = r.rxb
  BY SimSampled
<1>2. SimBegun(r) = [p3 EXCEPT !.counter = h]
  BY DEF SimBegun
<1>3. h \in Int
  BY UartAssumption
<1> HIDE DEF p, h
<1>4. /\ p1 \in SimType /\ p1.idle = FALSE /\ p1.sample_cycle = p.sample_cycle
      /\ p1.line_state = p.line_state /\ p1.rxb = p.rxb
  BY <1>1, SimUpdates DEF SimType
<1> HIDE DEF p1
<1>5. /\ p2 \in SimType /\ p2.idle = p1.idle /\ p2.sample_cycle = p1.sample_cycle
      /\ p2.line_state = p1.line_state /\ p2.rxb = p1.rxb /\ p2.bit_num = -1
  <2>1. p2 \in SimType
    <3>1. \A v \in Int : [p1 EXCEPT !.bit_num = v] \in SimType
      BY <1>4, SimUpdates
    <3>2. -1 \in Int
      OBVIOUS
    <3> QED BY <3>1, <3>2
  <2> QED BY <1>4, <2>1 DEF SimType
<1> HIDE DEF p2
<1>6. /\ p3 \in SimType /\ p3.idle = p2.idle /\ p3.sample_cycle = p2.sample_cycle
      /\ p3.line_state = p2.line_state /\ p3.rxb = p2.rxb /\ p3.bit_num = p2.bit_num
      /\ p3.byte_val = 0
  <2>1. p3 \in SimType
    BY <1>5, SimUpdates
  <2> QED BY <1>5, <2>1 DEF SimType
<1> HIDE DEF p3
<1> DEFINE q == [p3 EXCEPT !.counter = h]
<1>7. /\ q \in SimType /\ q.idle = p3.idle /\ q.sample_cycle = p3.sample_cycle
      /\ q.line_state = p3.line_state /\ q.rxb = p3.rxb /\ q.bit_num = p3.bit_num
      /\ q.byte_val = p3.byte_val /\ q.counter = h
  <2>1. q \in SimType
    BY <1>3, <1>6, SimUpdates
  <2> QED BY <1>6, <2>1 DEF SimType
<1> HIDE DEF q
<1>8. /\ q \in SimType /\ q.idle = FALSE
      /\ q.sample_cycle = r.sample_cycle + CLOCK_HZ
      /\ q.line_state = r.line_state /\ q.bit_num = -1
      /\ q.counter = h /\ q.byte_val = 0 /\ q.rxb = r.rxb
  BY <1>1, <1>4, <1>5, <1>6, <1>7
<1> QED BY <1>2, <1>8 DEF q, h

LEMMA SimIdleStep ==
  ASSUME Inv, SimIdle
  PROVE  Inv'
<1>1. /\ Sampling /\ sim.idle /\ SimSteps /\ errors' = errors
      /\ sim' = IF sim.line_state = 1 THEN Sampled(sim) ELSE SimBegun(sim)
  BY DEF SimIdle, SimSteps, SimBegun
<1>2. TypeInv /\ SimInv /\ CallInv /\ SimIdleInv /\ errors = {}
  <2>1. call # NoCall
    BY <1>1 DEF Sampling
  <2> QED BY <1>1, <2>1 DEF Inv, SimInv, CallInv
<1>3. sim \in SimType /\ call # NoCall
  BY <1>1, <1>2 DEF TypeInv, SimType, Sampling
<1>4. sim.sample_cycle <= Edge
  BY <1>1, <1>3, SamplesBefore
<1>5. /\ sim.line_state \in 0 .. 1 /\ sim.sample_cycle \in Int /\ sim.rxb \in Int
      /\ Edge \in Int /\ OnLine \in Int /\ Len(printed) \in Nat
  BY <1>2, SimTypes
<1>6. CLOCK_HZ \in Int /\ CLOCK_HZ > 0 /\ TxBit \in Int
  BY UartAssumption, ClockTypes
<1>7. /\ Element' = Element /\ OnLine' = OnLine /\ Edge' = Edge /\ sent' = sent
      /\ call' = call /\ printed' = printed
  BY <1>1, SimStepView
<1>8. sim.line_state = IF Element = 0 THEN 1 ELSE Bit(sent[OnLine], Element - 1)
  BY <1>2, <1>3 DEF CallInv
<1>9. CASE sim.line_state = 1
  <2> DEFINE u == Sampled(sim)
  <2>1. sim' = u
    BY <1>1, <1>9
  <2>2. u \in SimType /\ u.sample_cycle = sim.sample_cycle + CLOCK_HZ
          /\ u.line_state = sim.line_state /\ u.rxb = sim.rxb
    BY <1>3, SimSampled
  <2>3. u.idle
    BY <1>1, <1>3, SimSampledIdle
  <2> HIDE DEF u
  <2>4. Element = 0
    <3>1. Element # 1
      BY <1>8, <1>9 DEF Bit
    <3> QED BY <1>2, <1>3, <3>1 DEF SimIdleInv
  <2>5. sim'.sample_cycle <= Edge' + CLOCK_HZ
    BY <1>4, <1>5, <1>6, <1>7, <2>1, <2>2
  <2>6. sim'.rxb = sim.rxb
    BY <2>1, <2>2
  <2>7. IF sim.rxb = -1 THEN Len(printed) = OnLine - 1
        ELSE Len(printed) = OnLine - 2 /\ sim.rxb = sent[Len(printed) + 1]
    BY <1>2, <1>3, <2>4 DEF SimIdleInv
  <2>8. SimIdleInv'
    BY <1>3, <1>7, <2>4, <2>5, <2>6, <2>7 DEF SimIdleInv
  <2> QED BY <1>1, <1>2, <1>3, <2>1, <2>2, <2>3, <2>8, SimStepInv
<1>10. CASE sim.line_state = 0
  <2> DEFINE u == SimBegun(sim)
  <2>1. sim' = u
    BY <1>1, <1>10
  <2>2. /\ u \in SimType /\ u.idle = FALSE
        /\ u.sample_cycle = sim.sample_cycle + CLOCK_HZ
        /\ u.line_state = sim.line_state /\ u.bit_num = -1
        /\ u.counter = oversampling \div 2 /\ u.byte_val = 0 /\ u.rxb = sim.rxb
    BY <1>3, SimBegins
  <2> HIDE DEF u
  <2>3. /\ Element = 1 /\ Len(printed) = OnLine - 1 /\ sim.rxb = -1
        /\ sim.sample_cycle > Edge - TxBit /\ sim.sample_cycle <= Edge - TxBit + CLOCK_HZ
    BY <1>2, <1>3, <1>8, <1>10 DEF SimIdleInv
  <2>4. Looking' = 0
    BY <2>1, <2>2 DEF Looking
  <2>5. LooksAt' = sim.sample_cycle + SimOffset(0)
    <3> DEFINE h == oversampling \div 2
    <3>1. h \in Nat /\ SimOffset(0) = h * CLOCK_HZ
      BY SimWithin
    <3>2. LooksAt' = (sim.sample_cycle + CLOCK_HZ) + (h - 1) * CLOCK_HZ
      BY <2>1, <2>2 DEF LooksAt
    <3> HIDE DEF h
    <3>3. (h - 1) * CLOCK_HZ = h * CLOCK_HZ - CLOCK_HZ /\ h * CLOCK_HZ \in Int
      BY <1>6, <3>1
    <3> QED BY <1>5, <1>6, <3>1, <3>2, <3>3
  <2>6. LooksBehind(Edge - TxBit)'
    <3>1. SimOffset(0) \in Int
      BY SimOffsetIs
    <3>2. /\ LooksAt' > (Edge' - TxBit) + SimOffset(0)
          /\ LooksAt' <= (Edge' - TxBit) + SimOffset(0) + CLOCK_HZ
      BY <1>5, <1>6, <1>7, <2>3, <2>5, <3>1
    <3> QED BY <2>4, <3>2 DEF LooksBehind
  <2>7. sim'.counter >= 1
    BY <2>1, <2>2, SimWithin
  <2>8. SimBusyInv'
    BY <1>3, <1>7, <2>1, <2>2, <2>3, <2>4, <2>6, <2>7 DEF SimBusyInv
  <2> QED BY <1>1, <1>2, <1>3, <2>1, <2>2, <2>8, SimStepInv
<1> QED BY <1>5, <1>9, <1>10

(* A sample between two that are looked at.                                *)
SimCounted(r) == [Sampled(r) EXCEPT !.counter = @ - 1]

LEMMA SimCounts ==
  ASSUME NEW r \in SimType
  PROVE  /\ SimCounted(r) \in SimType
         /\ SimCounted(r).sample_cycle = r.sample_cycle + CLOCK_HZ
         /\ SimCounted(r).line_state = r.line_state /\ SimCounted(r).bit_num = r.bit_num
         /\ SimCounted(r).counter = r.counter - 1 /\ SimCounted(r).byte_val = r.byte_val
         /\ SimCounted(r).rxb = r.rxb
         /\ SimCounted(r).idle <=> r.idle
<1> DEFINE p == Sampled(r)
           n == p.counter - 1
<1>1. /\ p \in SimType /\ p.sample_cycle = r.sample_cycle + CLOCK_HZ
      /\ p.line_state = r.line_state /\ p.rxb = r.rxb /\ p.counter = r.counter
      /\ p.bit_num = r.bit_num /\ p.byte_val = r.byte_val
  BY SimSampled
<1>2. p.idle <=> r.idle
  BY SimSampledIdle
<1>3. SimCounted(r) = [p EXCEPT !.counter = n]
  BY DEF SimCounted
<1> HIDE DEF p
<1>4. n = r.counter - 1 /\ n \in Int
  BY <1>1 DEF SimType
<1> HIDE DEF n
<1> DEFINE q == [p EXCEPT !.counter = n]
<1>5. q \in SimType
  BY <1>1, <1>4, SimUpdates
<1>6. /\ q.sample_cycle = p.sample_cycle /\ q.line_state = p.line_state /\ q.rxb = p.rxb
      /\ q.bit_num = p.bit_num /\ q.byte_val = p.byte_val /\ q.counter = n
  BY <1>1, <1>5 DEF SimType
<1>7. q.idle <=> p.idle
  BY <1>1 DEF SimType
<1> QED BY <1>1, <1>2, <1>3, <1>4, <1>5, <1>6, <1>7

LEMMA SimCountStep ==
  ASSUME Inv, SimCount
  PROVE  Inv'
<1>1. /\ Sampling /\ ~sim.idle /\ sim.counter > 1 /\ SimSteps /\ errors' = errors
      /\ sim' = SimCounted(sim)
  BY DEF SimCount, SimSteps, SimCounted
<1>2. TypeInv /\ SimInv /\ SimBusyInv /\ errors = {}
  BY <1>1 DEF Inv, SimInv
<1>3. sim \in SimType /\ call # NoCall
  BY <1>1, <1>2 DEF TypeInv, SimType, Sampling
<1>4. /\ sim.counter \in Int /\ sim.sample_cycle \in Int /\ sim.bit_num \in Int
  BY <1>2, SimTypes
<1>5. /\ Element' = Element /\ OnLine' = OnLine /\ Edge' = Edge /\ sent' = sent
      /\ call' = call /\ printed' = printed
  BY <1>1, SimStepView
<1>6. /\ sim' \in SimType
      /\ sim'.sample_cycle = sim.sample_cycle + CLOCK_HZ
      /\ sim'.line_state = sim.line_state /\ sim'.bit_num = sim.bit_num
      /\ sim'.counter = sim.counter - 1 /\ sim'.byte_val = sim.byte_val /\ sim'.rxb = sim.rxb
  BY <1>1, <1>3, SimCounts
<1>7. ~sim'.idle
  BY <1>1, <1>3, SimCounts
<1>8. LooksAt' = LooksAt
  <2> DEFINE n == sim.counter - 1
  <2>1. n \in Int /\ sim'.counter - 1 = n - 1
    BY <1>4, <1>6
  <2>2. LooksAt' = (sim.sample_cycle + CLOCK_HZ) + (n - 1) * CLOCK_HZ
    BY <1>6, <2>1 DEF LooksAt
  <2>3. LooksAt = sim.sample_cycle + n * CLOCK_HZ
    BY DEF LooksAt
  <2> HIDE DEF n
  <2>4. (n - 1) * CLOCK_HZ = n * CLOCK_HZ - CLOCK_HZ /\ n * CLOCK_HZ \in Int
    BY <2>1, UartAssumption
  <2> QED BY <1>4, <2>2, <2>3, <2>4, UartAssumption
<1>9. Looking' = Looking
  BY <1>6 DEF Looking
<1>10. /\ LooksBehind(Edge)' <=> LooksBehind(Edge)
       /\ LooksBehind(Edge - TxBit)' <=> LooksBehind(Edge - TxBit)
  BY <1>5, <1>8, <1>9 DEF LooksBehind
<1>11. sim'.counter >= 1
  BY <1>1, <1>4, <1>6
<1>12. SimBusyInv'
  BY <1>2, <1>5, <1>6, <1>8, <1>9, <1>10, <1>11 DEF SimBusyInv
<1> QED BY <1>1, <1>2, <1>3, <1>6, <1>7, <1>12, SimStepInv

(* What uart.py reads when it looks: the element it looks for.             *)
SimReads(m, c) ==
  /\ m \in 0 .. 9 /\ m = Looking /\ sim.bit_num = m - 1 /\ c = sent[Len(printed) + 1]
  /\ call # NoCall /\ sim.rxb = -1 /\ LooksAt = sim.sample_cycle
  /\ sim.sample_cycle <= Edge /\ Len(printed) < Len(sent)
  /\ c \in Bytes /\ c \in 0 .. 255 /\ sim.line_state = Bit(c, m)
  /\ IF m = 0 THEN sim.byte_val = 0 ELSE sim.byte_val = c % 2 ^ (m - 1)
  /\ \/ /\ Element >= 1 /\ m = Element - 1 /\ LooksBehind(Edge - TxBit)
        /\ Len(printed) = OnLine - 1
     \/ Element = 0 /\ m = 9 /\ Len(printed) = OnLine - 2

LEMMA SimReadsFacts ==
  ASSUME Inv, AtSample
  PROVE  SimReads(Looking, sent[Len(printed) + 1])
<1> DEFINE m == Looking
           c == sent[Len(printed) + 1]
<1>1. Sampling /\ ~sim.idle /\ sim.counter = 1 /\ call # NoCall
  BY DEF AtSample, Sampling
<1>2. TypeInv /\ SimInv /\ CallInv /\ SimBusyInv
  BY <1>1 DEF Inv, SimInv
<1>3. /\ sim.sample_cycle \in Int /\ sim.bit_num \in Int /\ Edge \in Int /\ OnLine \in Int
      /\ Len(printed) \in Nat /\ Len(sent) \in Nat /\ Element \in 0 .. 9
  BY <1>2, SimTypes
<1>4. sim.sample_cycle <= Edge
  BY <1>1, SamplesBefore
<1>5. LooksAt = sim.sample_cycle
  <2>1. (1 - 1) * CLOCK_HZ = 0
    BY UartAssumption
  <2> QED BY <1>1, <1>3, <2>1 DEF LooksAt
<1>6. m \in 0 .. 9 /\ sim.rxb = -1 /\ sim.bit_num = m - 1
  <2>1. m \in 0 .. 9 /\ sim.rxb = -1
    BY <1>2 DEF SimBusyInv
  <2> QED BY <1>3, <2>1 DEF Looking
<1>7. ~LooksBehind(Edge)
  <2>1. SimOffset(m) \in Int /\ SimOffset(m) > 0
    BY <1>6, SimWithin, SimOffsetIs
  <2>2. ~(LooksAt > Edge + SimOffset(m))
    BY <1>3, <1>4, <1>5, <2>1
  <2> QED BY <2>2 DEF LooksBehind
<1>8. \/ /\ Element >= 1 /\ m = Element - 1 /\ LooksBehind(Edge - TxBit)
         /\ Len(printed) = OnLine - 1
      \/ Element = 0 /\ m = 9 /\ Len(printed) = OnLine - 2
  BY <1>1, <1>2, <1>7 DEF SimBusyInv
<1>9. OnLine <= Len(sent)
  BY <1>3 DEF OnLine
<1>10. Len(printed) < Len(sent)
  BY <1>3, <1>8, <1>9
<1>11. c \in Bytes
  <2>1. sent \in Seq(Bytes)
    BY <1>2 DEF TypeInv
  <2> QED BY <1>3, <1>10, <2>1
<1>12. sim.line_state = IF Element = 0 THEN 1 ELSE Bit(sent[OnLine], Element - 1)
  BY <1>1, <1>2 DEF CallInv
<1>13. sim.line_state = Bit(c, m)
  <2>1. CASE Element = 0
    <3>1. m = 9 /\ sim.line_state = 1
      BY <1>8, <1>12, <2>1
    <3> QED BY <3>1 DEF Bit
  <2>2. CASE Element # 0
    <3>1. m = Element - 1 /\ OnLine = Len(printed) + 1
      BY <1>3, <1>8, <2>2
    <3> QED BY <1>12, <2>2, <3>1
  <2> QED BY <2>1, <2>2
<1>14. IF m = 0 THEN sim.byte_val = 0 ELSE sim.byte_val = c % 2 ^ (m - 1)
  BY <1>2, <1>6 DEF SimBusyInv
<1> HIDE DEF c, m
<1>15. c \in 0 .. 255
  BY <1>11, ByteRange
<1> QED
  BY <1>1, <1>4, <1>5, <1>6, <1>8, <1>10, <1>11, <1>13, <1>14, <1>15 DEF SimReads, c, m

(* From one look to the next: a bit of the receiver, whatever the line's.  *)
LEMMA NextLook ==
  ASSUME Inv, AtSample, SimSteps, sim'.sample_cycle = sim.sample_cycle + CLOCK_HZ,
         sim'.counter = oversampling, sim'.bit_num = Looking, Element >= 1,
         Looking = Element - 1
  PROVE  /\ Looking' = Element /\ Looking' = Looking + 1 /\ LooksBehind(Edge)' /\ sim'.counter >= 1
<1> DEFINE m == Looking
<1>1. SimReads(m, sent[Len(printed) + 1])
  BY SimReadsFacts
<1>2. m \in 0 .. 9 /\ LooksAt = sim.sample_cycle /\ LooksBehind(Edge - TxBit)
  BY <1>1 DEF SimReads
<1>3. /\ sim.sample_cycle \in Int /\ Edge \in Int /\ Element \in 0 .. 9 /\ Edge' = Edge
  BY SimTypes, SimStepView DEF Inv
<1>4. Looking' = m + 1 /\ Looking' = Element
  BY <1>2, <1>3 DEF Looking
<1>5. m \in 0 .. 9 /\ SimOffset(m) \in Int /\ SimOffset(m + 1) = SimOffset(m) + RxBit - TxBit
  BY <1>2, SimOffsetIs
<1>6. LooksAt > (Edge - TxBit) + SimOffset(m) /\ LooksAt <= (Edge - TxBit) + SimOffset(m) + CLOCK_HZ
  BY <1>2 DEF LooksBehind
<1> HIDE DEF m
<1>7. LooksAt' = LooksAt + RxBit
  <2>1. LooksAt' = (sim.sample_cycle + CLOCK_HZ) + (oversampling - 1) * CLOCK_HZ
    BY DEF LooksAt
  <2>2. (oversampling - 1) * CLOCK_HZ = RxBit - CLOCK_HZ
    BY UartAssumption DEF RxBit
  <2> QED BY <1>2, <1>3, <2>1, <2>2, ClockTypes, UartAssumption
<1>8. /\ LooksAt' > Edge' + SimOffset(m + 1)
      /\ LooksAt' <= Edge' + SimOffset(m + 1) + CLOCK_HZ
  <2>1. LooksAt \in Int /\ RxBit \in Int /\ TxBit \in Int /\ CLOCK_HZ \in Int
    BY <1>2, <1>3, ClockTypes, UartAssumption
  <2> QED BY <1>3, <1>5, <1>6, <1>7, <2>1
<1>9. LooksBehind(Edge)'
  BY <1>4, <1>8 DEF LooksBehind
<1>10. sim'.counter >= 1
  BY UartAssumption
<1> QED BY <1>4, <1>9, <1>10 DEF m

(* Registers after a look that is not the last, and the last.              *)
SimLooked(r, bits, value) ==
  [Sampled(r) EXCEPT !.counter = oversampling, !.bit_num = bits, !.byte_val = value]
SimEnded(r, c) == [r EXCEPT !.idle = TRUE, !.byte_val = c, !.rxb = c]

LEMMA SimLooks ==
  ASSUME NEW r \in SimType, NEW bits \in Int, NEW value \in Nat
  PROVE  /\ SimLooked(r, bits, value) \in SimType
         /\ SimLooked(r, bits, value).sample_cycle = r.sample_cycle + CLOCK_HZ
         /\ SimLooked(r, bits, value).line_state = r.line_state
         /\ SimLooked(r, bits, value).counter = oversampling
         /\ SimLooked(r, bits, value).bit_num = bits
         /\ SimLooked(r, bits, value).byte_val = value
         /\ SimLooked(r, bits, value).rxb = r.rxb
         /\ SimLooked(r, bits, value).idle <=> r.idle
<1> DEFINE p == Sampled(r)
           p1 == [p EXCEPT !.counter = oversampling]
           p2 == [p1 EXCEPT !.bit_num = bits]
           p3 == [p2 EXCEPT !.byte_val = value]
<1>1. /\ p \in SimType /\ p.sample_cycle = r.sample_cycle + CLOCK_HZ
      /\ p.line_state = r.line_state /\ p.rxb = r.rxb
  BY SimSampled
<1>2. p.idle <=> r.idle
  BY SimSampledIdle
<1>3. SimLooked(r, bits, value) = p3
  BY DEF SimLooked
<1>4. oversampling \in Int
  BY UartAssumption
<1> HIDE DEF p
<1>5. p1 \in SimType
  BY <1>1, <1>4, SimUpdates
<1>6. /\ p1.counter = oversampling /\ p1.sample_cycle = p.sample_cycle
      /\ p1.line_state = p.line_state /\ p1.rxb = p.rxb /\ (p1.idle <=> p.idle)
  BY <1>1, <1>5 DEF SimType
<1> HIDE DEF p1
<1>7. p2 \in SimType
  BY <1>5, SimUpdates
<1>8. /\ p2.counter = p1.counter /\ p2.sample_cycle = p1.sample_cycle
      /\ p2.line_state = p1.line_state /\ p2.rxb = p1.rxb /\ p2.bit_num = bits
      /\ (p2.idle <=> p1.idle)
  BY <1>5, <1>7 DEF SimType
<1> HIDE DEF p2
<1>9. p3 \in SimType
  BY <1>7, SimUpdates
<1>10. /\ p3.counter = p2.counter /\ p3.sample_cycle = p2.sample_cycle
       /\ p3.line_state = p2.line_state /\ p3.rxb = p2.rxb /\ p3.bit_num = p2.bit_num
       /\ p3.byte_val = value /\ (p3.idle <=> p2.idle)
  BY <1>7, <1>9 DEF SimType
<1> HIDE DEF p3
<1> QED BY <1>1, <1>2, <1>3, <1>6, <1>8, <1>9, <1>10

LEMMA SimFinishes ==
  ASSUME NEW r \in SimType, NEW c \in 0 .. 255
  PROVE  /\ SimEnded(r, c) \in SimType /\ SimEnded(r, c).idle = TRUE /\ SimEnded(r, c).rxb = c
         /\ SimEnded(r, c).line_state = r.line_state
         /\ SimEnded(r, c).sample_cycle = r.sample_cycle
<1> DEFINE p1 == [r EXCEPT !.idle = TRUE]
           p2 == [p1 EXCEPT !.byte_val = c]
           p3 == [p2 EXCEPT !.rxb = c]
<1>1. c \in Nat /\ c \in Int
  OBVIOUS
<1>2. SimEnded(r, c) = p3
  BY DEF SimEnded
<1>3. p1 \in SimType
  BY SimUpdates
<1>4. p1.line_state = r.line_state /\ p1.sample_cycle = r.sample_cycle /\ p1.idle = TRUE
  BY <1>3 DEF SimType
<1> HIDE DEF p1
<1>5. p2 \in SimType
  BY <1>1, <1>3, SimUpdates
<1>6. p2.line_state = p1.line_state /\ p2.sample_cycle = p1.sample_cycle /\ p2.idle = p1.idle
  BY <1>3, <1>5 DEF SimType
<1> HIDE DEF p2
<1>7. p3 \in SimType
  BY <1>1, <1>5, SimUpdates
<1>8. /\ p3.line_state = p2.line_state /\ p3.sample_cycle = p2.sample_cycle /\ p3.rxb = c
      /\ p3.idle = p2.idle
  BY <1>5, <1>7 DEF SimType
<1> HIDE DEF p3
<1> QED BY <1>2, <1>4, <1>6, <1>7, <1>8

LEMMA SimStartStep ==
  ASSUME Inv, SimStart
  PROVE  Inv'
<1> DEFINE c == sent[Len(printed) + 1]
<1>1. /\ AtSample /\ ~sim.idle /\ sim.bit_num < 0 /\ SimSteps
      /\ sim.line_state = 0 => errors' = errors
      /\ sim.line_state = 0 =>
           sim' = [Sampled(sim) EXCEPT !.counter = oversampling, !.idle = FALSE, !.bit_num = 0]
  <2>1. AtSample /\ ~sim.idle /\ sim.bit_num < 0 /\ SimSteps
    BY DEF SimStart, SimSteps, AtSample
  <2>2. ASSUME sim.line_state = 0
        PROVE  /\ errors' = errors
               /\ sim' = [Sampled(sim) EXCEPT !.counter = oversampling, !.idle = FALSE,
                                              !.bit_num = 0]
    <3>1. (sim.line_state = 1) = FALSE
      BY <2>2
    <3> QED BY <3>1 DEF SimStart
  <2> QED BY <2>1, <2>2
<1>2. TypeInv /\ SimInv /\ errors = {} /\ sim \in SimType /\ sim.bit_num \in Int
  <2>1. TypeInv
    BY DEF Inv
  <2> QED BY <2>1, SimTypes DEF Inv, TypeInv, SimType
<1>3. SimReads(Looking, c)
  BY <1>1, SimReadsFacts
<1>4. Looking = 0
  BY <1>1, <1>2, <1>3 DEF SimReads
<1>5. /\ call # NoCall /\ sim.rxb = -1 /\ sim.line_state = 0 /\ sim.byte_val = 0
      /\ Element = 1 /\ Len(printed) = OnLine - 1 /\ c \in 0 .. 255
  <2>1. Element \in 0 .. 9
    BY <1>2, SimTypes
  <2> QED BY <1>3, <1>4, <2>1 DEF SimReads, Bit
<1> DEFINE u == SimLooked(sim, 0, 0)
<1>6. /\ u \in SimType /\ u.sample_cycle = sim.sample_cycle + CLOCK_HZ
      /\ u.line_state = sim.line_state /\ u.counter = oversampling /\ u.bit_num = 0
      /\ u.byte_val = 0 /\ u.rxb = sim.rxb
  BY <1>2, SimLooks
<1>7. ~u.idle
  <2>1. SimLooked(sim, 0, 0).idle <=> sim.idle
    BY <1>2, SimLooks
  <2> QED BY <1>1, <2>1
<1>8. sim' = u
  <2> DEFINE p == Sampled(sim)
  <2>1. /\ sim' = [p EXCEPT !.counter = oversampling, !.idle = FALSE, !.bit_num = 0]
        /\ u = [p EXCEPT !.counter = oversampling, !.bit_num = 0, !.byte_val = 0]
    BY <1>1, <1>5 DEF SimLooked
  <2>2. p \in SimType /\ p.byte_val = 0
    BY <1>2, <1>5, SimSampled
  <2>3. ~p.idle
    BY <1>1, <1>2, SimSampledIdle
  <2> HIDE DEF p, u
  <2> QED BY <2>1, <2>2, <2>3 DEF SimType
<1> HIDE DEF u
<1>9. /\ Element' = Element /\ OnLine' = OnLine /\ Edge' = Edge /\ sent' = sent
      /\ call' = call /\ printed' = printed
  BY <1>1, SimStepView
<1>10. /\ Looking' = Element /\ Looking' = 1 /\ LooksBehind(Edge)' /\ sim'.counter >= 1
  <2>1. Looking = Element - 1 /\ Element >= 1
    BY <1>4, <1>5
  <2>2. /\ sim'.sample_cycle = sim.sample_cycle + CLOCK_HZ /\ sim'.counter = oversampling
        /\ sim'.bit_num = Looking
    BY <1>4, <1>6, <1>8
  <2>3. Looking' = Element /\ LooksBehind(Edge)' /\ sim'.counter >= 1
    BY <1>1, <2>1, <2>2, NextLook
  <2> QED BY <1>5, <2>3
<1>11. 0 = c % 2 ^ 0
  <2> HIDE DEF c
  <2> QED BY <1>5, ByteDigits, Powers
<1>12. SimBusyInv'
  <2>1. sim'.rxb = -1 /\ sim'.byte_val = 0 /\ sim'.bit_num = 0
    BY <1>5, <1>6, <1>8
  <2>2. /\ Looking' \in 0 .. 9 /\ Looking' # 0 /\ Element' >= 1 /\ call' # NoCall
        /\ Looking' = Element' /\ Len(printed') = OnLine' - 1
        /\ sent'[Len(printed') + 1] = c
    BY <1>5, <1>9, <1>10
  <2>3. sim'.byte_val = sent'[Len(printed') + 1] % 2 ^ sim'.bit_num
    BY <1>11, <2>1, <2>2
  <2> HIDE DEF c
  <2> QED BY <1>10, <2>1, <2>2, <2>3 DEF SimBusyInv
<1> QED BY <1>1, <1>2, <1>5, <1>6, <1>7, <1>8, <1>12, SimStepInv

LEMMA SimBitStep ==
  ASSUME Inv, SimBit
  PROVE  Inv'
<1> DEFINE c == sent[Len(printed) + 1]
           m == Looking
           value == sim.byte_val + sim.line_state * 2 ^ sim.bit_num
           bits  == sim.bit_num + 1
           done  == bits = data_bits + stop_bits
           good  == value \div 2 ^ data_bits = 2 ^ stop_bits - 1
           u == SimLooked(sim, bits, value)
<1>1. /\ AtSample /\ ~sim.idle /\ SimSteps /\ sim.bit_num \in 0 .. data_bits + stop_bits - 1
      /\ sim' = IF ~done THEN u
                ELSE IF ~good THEN [u EXCEPT !.idle = TRUE]
                ELSE [u EXCEPT !.idle = TRUE, !.byte_val = DataBits(value),
                               !.rxb = DataBits(value)]
      /\ errors' = IF done /\ ~good THEN errors \cup {"simulator"} ELSE errors
  BY DEF SimBit, SimSteps, AtSample, SimLooked
<1>2. data_bits = 8 /\ stop_bits = 1
  BY DEF data_bits, stop_bits
<1>3. /\ TypeInv /\ errors = {} /\ sim \in SimType /\ sim.byte_val \in Nat /\ sim.bit_num \in Int
      /\ sim.line_state \in 0 .. 1 /\ sim.sample_cycle \in Int /\ Edge \in Int
      /\ Element \in 0 .. 9 /\ OnLine \in Int /\ Len(printed) \in Nat
  <2>1. TypeInv
    BY DEF Inv
  <2> QED BY <2>1, SimTypes DEF Inv, TypeInv, SimType
<1>4. SimReads(m, c)
  BY <1>1, SimReadsFacts
<1>5. /\ m \in 1 .. 9 /\ sim.bit_num = m - 1 /\ bits = m /\ call # NoCall /\ sim.rxb = -1
      /\ sim.sample_cycle <= Edge /\ c \in Bytes /\ c \in 0 .. 255
      /\ sim.line_state = Bit(c, m) /\ sim.byte_val = c % 2 ^ (m - 1)
      /\ \/ /\ Element >= 1 /\ m = Element - 1 /\ Len(printed) = OnLine - 1
         \/ Element = 0 /\ m = 9 /\ Len(printed) = OnLine - 2
  <2>1. m \in 0 .. 9 /\ sim.bit_num = m - 1
    BY <1>4 DEF SimReads
  <2>2. m \in 1 .. 9 /\ bits = m
    <3>1. sim.bit_num >= 0 /\ bits = sim.bit_num + 1
      <4>1. sim.bit_num \in 0 .. 8 + 1 - 1
        BY <1>2 DEF SimBit
      <4> QED BY <4>1
    <3> HIDE DEF m, bits
    <3> QED BY <2>1, <3>1
  <2>3. m # 0
    BY <2>2
  <2> QED BY <1>4, <2>1, <2>2, <2>3 DEF SimReads
<1>6. /\ Element' = Element /\ OnLine' = OnLine /\ Edge' = Edge /\ sent' = sent
      /\ call' = call /\ printed' = printed
  BY <1>1, SimStepView
<1>7. value \in Nat
  <2> DEFINE p == 2 ^ (m - 1)
  <2>1. m - 1 \in 0 .. 8
    BY <1>5
  <2>2. p \in Nat
    BY <2>1, PowerTypes
  <2>3. value = sim.byte_val + sim.line_state * p
    BY <1>5
  <2> HIDE DEF p, value
  <2>4. sim.line_state = 0 \/ sim.line_state = 1
    BY <1>3
  <2> QED BY <1>3, <2>2, <2>3, <2>4
<1>8. bits \in Int
  BY <1>3
<1>9. value = (c % 2 ^ (m - 1)) + Bit(c, m) * 2 ^ (m - 1)
  BY <1>5
<1>10. done <=> m = 9
  BY <1>2, <1>5
<1> HIDE DEF value, bits
<1>11. /\ u \in SimType /\ u.sample_cycle = sim.sample_cycle + CLOCK_HZ
       /\ u.line_state = sim.line_state /\ u.counter = oversampling /\ u.bit_num = bits
       /\ u.byte_val = value /\ u.rxb = sim.rxb
  BY <1>3, <1>7, <1>8, SimLooks
<1>12. ~u.idle
  <2>1. SimLooked(sim, bits, value).idle <=> sim.idle
    BY <1>3, <1>7, <1>8, SimLooks
  <2> QED BY <1>1, <2>1
<1> HIDE DEF u, m, c
<1>13. CASE m # 9
  <2>1. sim' = u /\ errors' = {}
    BY <1>1, <1>3, <1>10, <1>13
  <2>2. m \in 1 .. 8 /\ Element >= 1 /\ m = Element - 1 /\ Len(printed) = OnLine - 1
    BY <1>5, <1>13
  <2>3. value = c % 2 ^ m
    BY <1>5, <1>9, <2>2, LowBits
  <2>4. Looking' = Element /\ Looking' = m + 1 /\ LooksBehind(Edge)' /\ sim'.counter >= 1
    <3>1. Looking = Element - 1 /\ Element >= 1
      BY <2>2 DEF m
    <3>2. /\ sim'.sample_cycle = sim.sample_cycle + CLOCK_HZ /\ sim'.counter = oversampling
          /\ sim'.bit_num = Looking
      BY <1>5, <1>11, <2>1 DEF m
    <3> QED BY <1>1, <3>1, <3>2, NextLook DEF m
  <2>5. SimBusyInv'
    <3>1. sim'.rxb = -1 /\ sim'.byte_val = value /\ sim'.bit_num = m
      BY <1>5, <1>11, <2>1
    <3>2. /\ Looking' \in 0 .. 9 /\ Looking' # 0 /\ Element' >= 1 /\ call' # NoCall
          /\ Looking' = Element' /\ Len(printed') = OnLine' - 1
      BY <1>5, <1>6, <2>2, <2>4
    <3>3. sim'.byte_val = sent'[Len(printed') + 1] % 2 ^ sim'.bit_num
      BY <1>6, <2>3, <3>1 DEF c
    <3> QED BY <2>4, <3>1, <3>2, <3>3 DEF SimBusyInv
  <2>6. ~sim'.idle /\ sim' \in SimType /\ sim'.line_state = sim.line_state
    BY <1>11, <1>12, <2>1
  <2> QED BY <1>1, <1>5, <2>1, <2>5, <2>6, SimStepInv
<1>14. CASE m = 9
  <2>1. value = c + 256
    <3>1. Bit(c, 9) = 1
      BY DEF Bit
    <3>2. c % 256 = c
      BY <1>5, ByteDigits
    <3> QED BY <1>5, <1>9, <1>14, <3>1, <3>2, Powers
  <2>2. value \div 256 = 1 /\ value % 256 = c
    BY <1>5, <2>1
  <2>3. good
    BY <1>2, <2>2, Powers
  <2>4. DataBits(value) = c
    BY <1>2, <2>2, Powers DEF DataBits
  <2>5. sim' = SimEnded(u, c) /\ errors' = {}
    BY <1>1, <1>3, <1>10, <1>14, <2>3, <2>4 DEF SimEnded
  <2>6. /\ sim' \in SimType /\ sim'.idle = TRUE /\ sim'.rxb = c
        /\ sim'.line_state = u.line_state /\ sim'.sample_cycle = u.sample_cycle
    BY <1>5, <1>11, <2>5, SimFinishes
  <2>7. Element = 0 /\ Len(printed) = OnLine - 2
    BY <1>3, <1>5, <1>14
  <2>8. sim'.sample_cycle <= Edge' + CLOCK_HZ
    BY <1>3, <1>5, <1>6, <1>11, <2>6, UartAssumption
  <2>9. sim'.rxb # -1
    <3>1. c # -1
      BY <1>5
    <3>2. sim'.rxb = c
      BY <2>6
    <3> QED BY <3>1, <3>2
  <2>10. SimIdleInv'
    BY <1>5, <1>6, <2>6, <2>7, <2>8, <2>9 DEF SimIdleInv, c
  <2> QED BY <1>1, <1>5, <1>11, <2>5, <2>6, <2>10, SimStepInv
<1> QED BY <1>13, <1>14

(* The call returns when its samples are taken: then the bit it waited for *)
(* is the one that the line has changed to.                                *)
Returned(r, level) == [r EXCEPT !.line_state = level, !.rxb = -1]

LEMMA SimReturns ==
  ASSUME NEW r \in SimType, NEW level \in 0 .. 1
  PROVE  /\ Returned(r, level) \in SimType /\ Returned(r, level).line_state = level
         /\ Returned(r, level).sample_cycle = r.sample_cycle
         /\ Returned(r, level).counter = r.counter /\ Returned(r, level).bit_num = r.bit_num
         /\ Returned(r, level).byte_val = r.byte_val /\ Returned(r, level).rxb = -1
         /\ Returned(r, level).idle <=> r.idle
<1> DEFINE p1 == [r EXCEPT !.line_state = level]
           p2 == [p1 EXCEPT !.rxb = -1]
<1>1. -1 \in Int
  OBVIOUS
<1>2. Returned(r, level) = p2
  BY DEF Returned
<1>3. p1 \in SimType
  BY SimUpdates
<1>4. /\ p1.line_state = level /\ p1.sample_cycle = r.sample_cycle /\ p1.counter = r.counter
      /\ p1.bit_num = r.bit_num /\ p1.byte_val = r.byte_val /\ (p1.idle <=> r.idle)
  BY <1>3 DEF SimType
<1> HIDE DEF p1
<1>5. p2 \in SimType
  <2>1. \A v \in Int : [p1 EXCEPT !.rxb = v] \in SimType
    BY <1>3, SimUpdates
  <2> QED BY <1>1, <2>1
<1>6. /\ p2.line_state = p1.line_state /\ p2.sample_cycle = p1.sample_cycle
      /\ p2.counter = p1.counter /\ p2.bit_num = p1.bit_num /\ p2.byte_val = p1.byte_val
      /\ p2.rxb = -1 /\ (p2.idle <=> p1.idle)
  BY <1>3, <1>5 DEF SimType
<1> HIDE DEF p2
<1> QED BY <1>2, <1>4, <1>5, <1>6

LEMMA ReturnFacts ==
  ASSUME Inv, TxReturn
  PROVE  /\ call # NoCall /\ run /\ sim.sample_cycle > Edge
         /\ sim.idle => Element = 0
         /\ ~sim.idle =>
              /\ sim.counter >= 1 /\ sim.rxb = -1 /\ Looking \in 0 .. 9
              /\ IF Looking = 0 THEN sim.byte_val = 0
                 ELSE sim.byte_val = sent[Len(printed) + 1] % 2 ^ sim.bit_num
              /\ Element >= 1 /\ Looking = Element /\ LooksBehind(Edge)
              /\ Len(printed) = OnLine - 1
<1>1. call # NoCall /\ ~Sampling /\ run
  BY DEF TxReturn, Inv, SimInv, CallInv
<1>2. TypeInv /\ SimInv
  BY DEF Inv
<1>3. /\ sim.sample_cycle \in Int /\ Edge \in Int /\ LooksAt \in Int /\ sim.counter \in Int
  BY <1>2, SimTypes
<1>4. sim.sample_cycle > Edge
  BY <1>1, <1>3, SamplesBefore
<1>5. CLOCK_HZ \in Nat /\ TxBit \in Int
  BY UartAssumption, ClockTypes
<1>6. ASSUME sim.idle PROVE Element = 0
  <2>1. CLOCK_HZ < TxBit
    <3>1. SimOffset(0) \in Int /\ SimOffset(0) > 0 /\ SimOffset(0) + CLOCK_HZ < TxBit
      BY SimWithin, SimOffsetIs
    <3> QED BY <1>5, <3>1
  <2>2. ~(sim.sample_cycle <= Edge - TxBit + CLOCK_HZ)
    BY <1>3, <1>4, <1>5, <2>1
  <2>3. SimIdleInv
    BY <1>1, <1>2, <1>6 DEF SimInv
  <2> QED BY <1>1, <2>2, <2>3 DEF SimIdleInv
<1>7. ASSUME ~sim.idle
      PROVE  /\ sim.counter >= 1 /\ sim.rxb = -1 /\ Looking \in 0 .. 9
             /\ IF Looking = 0 THEN sim.byte_val = 0
                ELSE sim.byte_val = sent[Len(printed) + 1] % 2 ^ sim.bit_num
             /\ Element >= 1 /\ Looking = Element /\ LooksBehind(Edge)
             /\ Len(printed) = OnLine - 1
  <2>1. SimBusyInv
    BY <1>2, <1>7 DEF SimInv
  <2>2. sim.counter >= 1 /\ Looking \in 0 .. 9
    BY <2>1 DEF SimBusyInv
  <2>3. LooksAt >= sim.sample_cycle
    <3> DEFINE n == sim.counter - 1
    <3>1. n \in Nat /\ n * CLOCK_HZ \in Nat
      BY <1>3, <1>5, <2>2
    <3>2. LooksAt = sim.sample_cycle + n * CLOCK_HZ
      BY DEF LooksAt
    <3> HIDE DEF n
    <3> QED BY <1>3, <3>1, <3>2
  <2>4. ~LooksBehind(Edge - TxBit)
    <3>1. SimOffset(Looking) \in Int /\ SimOffset(Looking) + CLOCK_HZ < TxBit
      BY <2>2, SimWithin, SimOffsetIs
    <3>2. ~(LooksAt <= (Edge - TxBit) + SimOffset(Looking) + CLOCK_HZ)
      BY <1>3, <1>4, <1>5, <2>3, <3>1
    <3> QED BY <3>2 DEF LooksBehind
  <2>5. ~(LooksAt <= Edge)
    BY <1>3, <1>4, <2>3
  <2> QED BY <1>1, <2>1, <2>4, <2>5 DEF SimBusyInv
<1> QED BY <1>1, <1>4, <1>6, <1>7

LEMMA TxReturnStep ==
  ASSUME Inv, TxReturn
  PROVE  Inv'
<1>1. /\ call # NoCall /\ call' = NoCall /\ UNCHANGED transmitter /\ UNCHANGED testbench
      /\ errors' = errors /\ sim' = Returned(sim, call.value)
      /\ run' = (sim.rxb # EndOfFile)
      /\ printed' = IF sim.rxb \in {-1, EndOfFile} THEN printed ELSE Append(printed, sim.rxb)
  BY DEF TxReturn, Returned
<1>2. TypeInv /\ LineInv /\ TbInv /\ SimInv /\ CallInv /\ errors = {}
  BY DEF Inv, SimInv
<1>3. /\ sim \in SimType /\ call.value = uart_tx /\ uart_tx \in 0 .. 1
      /\ sent \in Seq(Bytes) /\ printed \in Seq(Bytes)
  <2>1. call = [cycle |-> last, value |-> uart_tx]
    BY <1>1, <1>2 DEF CallInv
  <2>2. call.value = uart_tx
    BY <2>1
  <2> QED BY <1>2, <2>2 DEF TypeInv, SimType
<1> DEFINE u == Returned(sim, call.value)
<1>4. /\ u \in SimType /\ u.line_state = uart_tx /\ u.sample_cycle = sim.sample_cycle
      /\ u.counter = sim.counter /\ u.bit_num = sim.bit_num
      /\ u.byte_val = sim.byte_val /\ u.rxb = -1
  BY <1>3, SimReturns
<1>5. u.idle <=> sim.idle
  <2>1. call.value \in 0 .. 1
    BY <1>3
  <2> QED BY <1>3, <2>1, SimReturns
<1>6. sim' = u
  BY <1>1
<1> HIDE DEF u
<1>7. /\ Element' = Element /\ OnLine' = OnLine /\ Edge' = Edge /\ sent' = sent
      /\ uart_tx' = uart_tx
  BY <1>1 DEF transmitter, Element, OnLine, Edge
<1>8. /\ OnLine \in Int /\ OnLine <= Len(sent) /\ Len(printed) \in Nat /\ Len(sent) \in Nat
      /\ Edge \in Int /\ sim.sample_cycle \in Int
  <2>1. /\ OnLine \in Int /\ Len(printed) \in Nat /\ Len(sent) \in Nat
        /\ Edge \in Int /\ sim.sample_cycle \in Int
    BY <1>2, SimTypes
  <2> QED BY <2>1 DEF OnLine
<1>9. /\ sim.sample_cycle > Edge /\ run /\ EndOfFile # -1
      /\ sim.idle => Element = 0
  BY ReturnFacts DEF EndOfFile
<1>10. CallInv'
  BY <1>1, <1>4, <1>6, <1>7 DEF CallInv
<1>11. Prefix(printed, sent)
  BY <1>2 DEF SimInv
<1>12. CASE sim.idle
  <2>1. Element = 0 /\ SimIdleInv
    BY <1>2, <1>9, <1>12 DEF SimInv
  <2>2. /\ sim.sample_cycle <= Edge + CLOCK_HZ
        /\ IF sim.rxb = -1 THEN Len(printed) = OnLine - 1
           ELSE Len(printed) = OnLine - 2 /\ sim.rxb = sent[Len(printed) + 1]
    BY <1>1, <2>1 DEF SimIdleInv
  <2>3. /\ printed' \in Seq(Bytes) /\ Prefix(printed', sent)
        /\ run' => Len(printed') = OnLine - 1
    <3>1. CASE sim.rxb = -1
      BY <1>1, <1>3, <1>11, <2>2, <3>1
    <3>2. CASE sim.rxb = EndOfFile
      BY <1>1, <1>3, <1>11, <3>2
    <3>3. CASE sim.rxb \notin {-1, EndOfFile}
      <4> DEFINE e == sent[Len(printed) + 1]
      <4>1. printed' = Append(printed, e) /\ Len(printed) = OnLine - 2
        BY <1>1, <2>2, <3>3
      <4>2. Len(printed) < Len(sent)
        BY <1>8, <4>1
      <4>3. e \in Bytes
        BY <1>3, <1>8, <4>2
      <4>4. Prefix(printed', sent)
        BY <1>3, <1>11, <4>1, <4>2, PrefixShow
      <4> HIDE DEF e
      <4>5. printed' \in Seq(Bytes) /\ Len(printed') = Len(printed) + 1
        BY <1>3, <4>1, <4>3
      <4> QED BY <1>8, <4>1, <4>4, <4>5
    <3> QED BY <3>1, <3>2, <3>3
  <2>4. run' => SimIdleInv'
    <3>1. sim'.sample_cycle = sim.sample_cycle /\ sim'.rxb = -1
      BY <1>4, <1>6
    <3> QED BY <1>1, <1>7, <1>9, <2>1, <2>2, <2>3, <3>1 DEF SimIdleInv
  <2>5. TypeInv'
    <3>1. NoCall \in [cycle : Int, value : 0 .. 1]
      BY DEF NoCall
    <3> QED BY <1>1, <1>2, <1>4, <1>6, <2>3, <3>1 DEF TypeInv, transmitter, testbench, SimType
  <2>6. SimInv'
    BY <1>5, <1>6, <1>7, <1>10, <1>12, <2>3, <2>4 DEF SimInv
  <2> QED BY <1>1, <1>2, <2>5, <2>6, LineKept, TbKept DEF Inv
<1>13. CASE ~sim.idle
  <2>1. /\ sim.counter >= 1 /\ sim.rxb = -1 /\ Looking \in 0 .. 9
        /\ IF Looking = 0 THEN sim.byte_val = 0
           ELSE sim.byte_val = sent[Len(printed) + 1] % 2 ^ sim.bit_num
        /\ Element >= 1 /\ Looking = Element /\ LooksBehind(Edge)
        /\ Len(printed) = OnLine - 1
    BY <1>13, ReturnFacts
  <2>2. printed' = printed /\ run'
    BY <1>1, <1>9, <2>1
  <2>3. /\ sim'.counter = sim.counter /\ sim'.rxb = -1 /\ sim'.byte_val = sim.byte_val
        /\ sim'.bit_num = sim.bit_num /\ sim'.sample_cycle = sim.sample_cycle
    BY <1>4, <1>6
  <2>4. LooksAt' = LooksAt /\ Looking' = Looking
    BY <2>3 DEF LooksAt, Looking
  <2>5. LooksBehind(Edge)'
    BY <1>7, <2>1, <2>4 DEF LooksBehind
  <2>6. SimBusyInv'
    BY <1>1, <1>7, <2>1, <2>2, <2>3, <2>4, <2>5 DEF SimBusyInv
  <2>7. TypeInv'
    <3>1. NoCall \in [cycle : Int, value : 0 .. 1]
      BY DEF NoCall
    <3> QED BY <1>1, <1>2, <1>4, <1>6, <2>2, <3>1 DEF TypeInv, transmitter, testbench, SimType
  <2>8. SimInv'
    BY <1>5, <1>6, <1>7, <1>10, <1>11, <1>13, <2>2, <2>6 DEF SimInv
  <2> QED BY <1>1, <1>2, <2>7, <2>8, LineKept, TbKept DEF Inv
<1> QED BY <1>12, <1>13

-----------------------------------------------------------------------------
(* The theorems.                                                           *)

LEMMA InvStep == Inv /\ [Next]_vars => Inv'
<1> SUFFICES ASSUME Inv, [Next]_vars PROVE Inv'
  OBVIOUS
<1>1. CASE UartTxChar \/ Uarttxr
  BY <1>1, AcceptedInv, NextBitInv
<1>2. CASE TbStart \/ TbSample
  BY <1>2, TbStartInv, TbSampleInv
<1>3. CASE SimIdle \/ SimCount \/ SimStart \/ SimBit
  BY <1>3, SimIdleStep, SimCountStep, SimStartStep, SimBitStep
<1>4. CASE TxReturn
  BY <1>4, TxReturnStep
<1>5. CASE UNCHANGED vars
  BY <1>5, InvStutter
<1> QED BY <1>1, <1>2, <1>3, <1>4, <1>5 DEF Next, Receive

LEMMA InvHolds == Spec => []Inv
<1>1. Init => Inv
  BY InvInit
<1>2. Inv /\ [Next]_vars => Inv'
  BY InvStep
<1> QED BY <1>1, <1>2, PTL DEF Spec

LEMMA ElementIs ==
  ASSUME count \in 0 .. 10
  PROVE  Element = 9 - (count % 10)
BY DEF Element

LEMMA MiddleFromInv == Inv => SampledInTheMiddle
<1> SUFFICES ASSUME Inv PROVE SampledInTheMiddle
  OBVIOUS
<1>1. TypeInv /\ errors = {} /\ count \in 0 .. 10 /\ last \in Nat
  BY DEF Inv, TypeInv
<1>2. ASSUME ~tb.idle, due # -1, tb.sample_at <= due
      PROVE  tb.bit_counter = 9 - (count % 10) /\ Centred(tb.sample_at - last, 1)
  <2> DEFINE k == tb.bit_counter
  <2>1. k \in 0 .. 9 /\ k = Element /\ tb.sample_at = last + TbOffset(k)
    BY <1>2, TbSamplesElement
  <2>2. TbOffset(k) \in Int /\ Centred(TbOffset(k), 1)
    BY <2>1, TbCentred, TbOffsetIs
  <2>3. tb.sample_at - last = TbOffset(k)
    BY <1>1, <2>1, <2>2
  <2> QED BY <1>1, <2>1, <2>2, <2>3, ElementIs
<1>3. ASSUME AtSample, sim.bit_num < 8
      PROVE  /\ sim.bit_num = 7 - count
             /\ Centred(sim.sample_cycle - (call.cycle - BitCycles) * SampleRate, SampleRate)
  <2> DEFINE m == Looking
             t == sim.sample_cycle - (Edge - TxBit)
  <2>1. SimReads(m, sent[Len(printed) + 1])
    BY <1>3, SimReadsFacts
  <2>2. sim.sample_cycle \in Int /\ Edge \in Int /\ TxBit \in Int /\ CLOCK_HZ \in Int
        /\ Element \in 0 .. 9
    BY <1>1, SimTypes, ClockTypes, UartAssumption
  <2>3. /\ m \in 0 .. 9 /\ sim.bit_num = m - 1 /\ call # NoCall /\ LooksAt = sim.sample_cycle
        /\ \/ Element >= 1 /\ m = Element - 1 /\ LooksBehind(Edge - TxBit)
           \/ Element = 0 /\ m = 9
    BY <2>1 DEF SimReads
  <2>4. m \in 0 .. 9 /\ m = Element - 1 /\ LooksBehind(Edge - TxBit)
    BY <1>3, <2>3
  <2>5. count < 10
    BY <2>3 DEF Inv, SimInv, CallInv
  <2>6. sim.bit_num = 7 - count
    BY <1>1, <2>2, <2>3, <2>4, <2>5 DEF Element
  <2>7. (call.cycle - BitCycles) * SampleRate = Edge - TxBit
    <3>1. call.cycle = last /\ call.cycle * SampleRate = Edge
      <4>1. call = [cycle |-> last, value |-> uart_tx]
        BY <2>3 DEF Inv, SimInv, CallInv
      <4> QED BY <2>3, <4>1, SamplesBefore
    <3>2. (last - BitCycles) * SampleRate = last * SampleRate - SampleRate * BitCycles
      BY <1>1, ClockTypes
    <3> QED BY <3>1, <3>2 DEF TxBit
  <2>8. /\ LooksAt > (Edge - TxBit) + SimOffset(m)
        /\ LooksAt <= (Edge - TxBit) + SimOffset(m) + CLOCK_HZ
    BY <2>4 DEF LooksBehind
  <2>9. SimOffset(m) \in Int
    BY <2>4, SimOffsetIs
  <2>10. t \in Int /\ t > SimOffset(m) /\ t <= SimOffset(m) + CLOCK_HZ
    BY <2>2, <2>3, <2>8, <2>9
  <2> HIDE DEF t, m
  <2>11. Centred(t, SampleRate)
    BY <2>4, <2>10, SimCentred
  <2> QED BY <2>6, <2>7, <2>11 DEF t
<1> QED BY <1>1, <1>2, <1>3 DEF SampledInTheMiddle

(* Whatever is sent and however long the pauses are, each bit is sampled   *)
(* while it is on the line, at least a sixth of a bit from its edges, and  *)
(* no receiver reports a framing error.                                    *)
THEOREM SampledWell == Spec => []SampledInTheMiddle
<1>1. Inv => SampledInTheMiddle
  BY MiddleFromInv
<1> QED BY <1>1, InvHolds, PTL

LEMMA AcceptedLag ==
  ASSUME Inv, UartTxChar
  PROVE  /\ run => Len(sent) - Len(printed) <= 1
         /\ ~finished => Len(sent) - Len(written) <= 1
<1>1. /\ count = 0 /\ Element = 9 /\ OnLine = Len(sent)
  BY AcceptedFacts DEF Accepted
<1>2. call = NoCall
  BY DEF UartTxChar
<1>3. Len(sent) \in Nat /\ Len(printed) \in Nat /\ Len(written) \in Nat
  BY DEF Inv, TypeInv
<1>4. run => Len(printed) = OnLine \/ Len(printed) = OnLine - 1
  BY <1>1, <1>2 DEF Inv, SimInv, SimIdleInv, SimBusyInv
<1>5. ~finished => Len(written) = OnLine \/ Len(written) = OnLine - 1
  BY <1>1 DEF Inv, TbInv, TbBusyInv
<1> QED BY <1>1, <1>3, <1>4, <1>5

(* simg shows what is sent, whatever the characters are, up to the first   *)
(* 0x04: each character once and in order, at the first uarttx of the next *)
(* one.  When that is what it got it stops, having shown all before it and *)
(* nothing else.                                                           *)
THEOREM SimulatorShows == Spec => SimulatorShowsTheLine
<1>1. Init => Simulated!Init
  BY DEF Init, Simulated!Init
<1>2. Inv /\ [Next]_vars => [Simulated!Next]_Simulated!vars
  <2> SUFFICES ASSUME Inv, [Next]_vars, ~UNCHANGED <<sent, printed, run>>
               PROVE  Simulated!Next
    BY DEF Simulated!vars
  <2>1. UartTxChar \/ TxReturn
    BY DEF Next, Receive, Uarttxr, SimIdle, SimCount, SimStart, SimBit, TbStart, TbSample, vars,
           transmitter, simulator
  <2>2. CASE UartTxChar
    <3>1. PICK byte \in Bytes : sent' = Append(sent, byte)
      BY <2>2 DEF UartTxChar
    <3>2. printed' = printed /\ run' = run
      BY <2>2 DEF UartTxChar, simulator
    <3>3. Simulated!Send(byte)
      BY <2>2, <3>1, <3>2, AcceptedLag DEF Simulated!Send
    <3> QED BY <3>3 DEF Simulated!Next
  <2>3. CASE TxReturn
    <3>1. /\ sent' = sent /\ call # NoCall /\ run
          /\ run' = (sim.rxb # EndOfFile) /\ EndOfFile # -1
          /\ printed' = IF sim.rxb \in {-1, EndOfFile} THEN printed ELSE Append(printed, sim.rxb)
      BY <2>3, ReturnFacts DEF TxReturn, transmitter, EndOfFile
    <3>2. sim.rxb # -1
      <4>1. run \in BOOLEAN
        BY DEF Inv, TypeInv
      <4> QED BY <3>1, <4>1
    <3>3. sim.idle
      BY <2>3, <3>2, ReturnFacts
    <3>4. Len(printed) = OnLine - 2 /\ sim.rxb = sent[Len(printed) + 1]
      <4>1. Element = 0
        BY <2>3, <3>3, ReturnFacts
      <4>2. SimIdleInv
        BY <3>1, <3>3 DEF Inv, SimInv
      <4> QED BY <3>1, <3>2, <4>1, <4>2 DEF SimIdleInv
    <3>5. Len(printed) < Len(sent)
      <4>1. OnLine \in Int /\ Len(sent) \in Nat /\ OnLine <= Len(sent) /\ Len(printed) \in Nat
        BY SimTypes DEF Inv, OnLine
      <4> QED BY <3>4, <4>1
    <3>6. Simulated!Gets(sim.rxb)
      BY <3>1, <3>4, <3>5 DEF Simulated!Gets
    <3>7. CASE sim.rxb = EndOfFile
      <4>1. Simulated!Stop
        BY <3>1, <3>6, <3>7 DEF Simulated!Stop
      <4> QED BY <4>1 DEF Simulated!Next
    <3>8. CASE sim.rxb # EndOfFile
      <4>1. sim.rxb \in Bytes
        BY <3>4, <3>5 DEF Inv, TypeInv
      <4>2. printed' = Append(printed, sim.rxb) /\ run' = run
        <5>1. run \in BOOLEAN
          BY DEF Inv, TypeInv
        <5> QED BY <3>1, <3>2, <3>8, <5>1
      <4>3. Simulated!Show
        BY <3>1, <3>6, <3>8, <4>1, <4>2 DEF Simulated!Show
      <4> QED BY <4>3 DEF Simulated!Next
    <3> QED BY <3>7, <3>8
  <2> QED BY <2>1, <2>2, <2>3
<1> QED BY <1>1, <1>2, InvHolds, PTL DEF Spec, SimulatorShowsTheLine, Simulated!Spec

LEMMA TbWrites ==
  ASSUME Inv, TbSample, tb.bit_counter = 9
  PROVE  /\ finished' = (sent[Len(written) + 1] = EndOfFile)
         /\ written' = IF sent[Len(written) + 1] # EndOfFile
                       THEN Append(written, sent[Len(written) + 1]) ELSE written
<1> DEFINE c == sent[Len(written) + 1]
<1>1. TbReads(tb.bit_counter, c)
  BY TbSampleFacts
<1>2. StopBit = 9
  BY DEF StopBit, data_bits
<1>3. /\ c \in 0 .. 255 /\ uart_tx = Bit(c, tb.bit_counter)
      /\ tb.bit_counter > 0 =>
           tb.shifter \div 2 ^ (9 - tb.bit_counter) = c % 2 ^ (tb.bit_counter - 1)
  BY <1>1 DEF TbReads
<1>4. uart_tx = 1 /\ tb.shifter \div 2 ^ 0 = c % 2 ^ 8
  BY <1>3 DEF Bit
<1>5. tb.shifter \in 0 .. 255
  <2>1. tb \in TbType
    BY DEF Inv, TypeInv, TbType
  <2> QED BY <2>1 DEF TbType
<1>6. /\ finished' = (tb.shifter = EndOfFile)
      /\ written' = IF tb.shifter # EndOfFile THEN Append(written, tb.shifter) ELSE written
  BY <1>2, <1>4 DEF TbSample
<1> HIDE DEF c
<1>7. tb.shifter = c
  <2>1. tb.shifter \div 1 = c % 256
    BY <1>4, Powers
  <2>2. c % 256 = c
    BY <1>3, ByteDigits
  <2>3. tb.shifter \div 1 = tb.shifter
    BY <1>5, ByteDigits
  <2> QED BY <2>1, <2>2, <2>3
<1> QED BY <1>6, <1>7 DEF c

(* So does the testbench, within the stop bit.                             *)
THEOREM TestbenchShows == Spec => TestbenchShowsTheLine
<1>1. Init => Observed!Init
  BY DEF Init, Observed!Init
<1>2. Inv /\ [Next]_vars => [Observed!Next]_Observed!vars
  <2> SUFFICES ASSUME Inv, [Next]_vars, ~UNCHANGED <<sent, written, ~finished>>
               PROVE  Observed!Next
    BY DEF Observed!vars
  <2>1. UartTxChar \/ TbSample
    BY DEF Next, Receive, Uarttxr, SimIdle, SimCount, SimStart, SimBit, TbStart, TxReturn, vars,
           transmitter, testbench
  <2>2. CASE UartTxChar
    <3>1. PICK byte \in Bytes : sent' = Append(sent, byte)
      BY <2>2 DEF UartTxChar
    <3>2. written' = written /\ finished' = finished
      BY <2>2 DEF UartTxChar, testbench
    <3>3. Observed!Send(byte)
      BY <2>2, <3>1, <3>2, AcceptedLag DEF Observed!Send
    <3> QED BY <3>3 DEF Observed!Next
  <2>3. CASE TbSample
    <3> DEFINE c == sent[Len(written) + 1]
    <3>1. sent' = sent /\ ~finished
      BY <2>3 DEF TbSample, transmitter
    <3>2. tb.bit_counter = 9
      <4>1. tb.bit_counter = StopBit
        BY <2>3, <3>1 DEF TbSample
      <4> QED BY <4>1 DEF StopBit, data_bits
    <3>3. TbReads(tb.bit_counter, c)
      BY <2>3, TbSampleFacts
    <3>4. /\ finished' = (c = EndOfFile)
          /\ written' = IF c # EndOfFile THEN Append(written, c) ELSE written
      BY <2>3, <3>2, TbWrites
    <3>5. Len(written) < Len(sent) /\ c \in Bytes
      BY <3>3 DEF TbReads
    <3>6. Observed!Gets(c)
      BY <3>1, <3>5 DEF Observed!Gets
    <3>7. CASE c = EndOfFile
      <4>1. Observed!Gets(EndOfFile)
        BY <3>6, <3>7
      <4>2. Observed!Stop
        BY <3>1, <3>4, <3>7, <4>1 DEF Observed!Stop
      <4> QED BY <4>2 DEF Observed!Next
    <3>8. CASE c # EndOfFile
      <4>1. written' = Append(written, c) /\ ~finished'
        BY <3>4, <3>8
      <4>2. Observed!Show
        BY <3>1, <3>5, <3>6, <3>8, <4>1 DEF Observed!Show
      <4> QED BY <4>2 DEF Observed!Next
    <3> QED BY <3>7, <3>8
  <2> QED BY <2>1, <2>2, <2>3
<1> QED BY <1>1, <1>2, InvHolds, PTL DEF Spec, TestbenchShowsTheLine, Observed!Spec

=============================================================================
