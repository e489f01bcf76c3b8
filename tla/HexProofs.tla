----------------------------- MODULE HexProofs ------------------------------
(***************************************************************************)
(* Proofs about Intel HEX files: what one fault can do to a file, and what *)
(* is read back from one without a fault.                                  *)
(***************************************************************************)
EXTENDS ImageToolsProofs

(***************************************************************************)
(* Checksums                                                               *)
(***************************************************************************)
Octet == 0 .. ByteMod - 1
Token == {-1, -2} \cup Octet

LEMMA ByteModIs ==
  /\ ByteMod \in Nat /\ ByteMod >= 2 /\ ByteMod <= 256
  /\ BytesPerLine \in Nat /\ BytesPerLine >= 1 /\ BytesPerLine < ByteMod
BY HexAssumption DEF HexAssumption

(* A sum differs from one that is less than a byte away.                   *)
LEMMA RemaindersDiffer ==
  ASSUME NEW b \in Nat, b > 0, NEW s \in Int, NEW d \in Int, d # 0, -b < d, d < b
  PROVE  (s + d) % b # s % b
<1> SUFFICES ASSUME (s + d) % b = s % b PROVE FALSE
  OBVIOUS
<1> DEFINE p == s \div b  q == (s + d) \div b  r == s % b
<1>1. p \in Int /\ q \in Int /\ r \in Int
  OBVIOUS
<1>2. s = b * p + r
  OBVIOUS
<1>3. s + d = b * q + ((s + d) % b)
  OBVIOUS
<1>4. s + d = b * q + r
  BY <1>3
<1> HIDE DEF p, q, r
<1> DEFINE k == q - p
<1>5. k \in Int /\ b * k = b * q - b * p
  BY <1>1
<1>6. b * k = d
  BY <1>1, <1>2, <1>4, <1>5
<1> HIDE DEF k
<1>7. CASE k = 0
  BY <1>6, <1>7
<1>8. CASE k >= 1
  <2>1. b * (k - 1) >= 0
    BY <1>5, <1>8
  <2>2. b * (k - 1) = b * k - b
    BY <1>5
  <2> QED BY <2>1, <2>2, <1>6
<1>9. CASE k <= -1
  <2>1. b * (-1 - k) >= 0
    BY <1>5, <1>9
  <2>2. b * (-1 - k) = (-b) - b * k
    BY <1>5
  <2> QED BY <2>1, <2>2, <1>6
<1> QED BY <1>5, <1>7, <1>8, <1>9

(* The checksum of a sum.                                                  *)
Complement(s) == (ByteMod - (s % ByteMod)) % ByteMod

LEMMA ComplementIs ==
  ASSUME NEW s \in Int
  PROVE  /\ Complement(s) \in Octet
         /\ s % ByteMod = 0 => Complement(s) = 0
         /\ s % ByteMod # 0 => Complement(s) = ByteMod - (s % ByteMod)
<1> DEFINE b == ByteMod  r == s % b
<1>1. b \in Nat /\ b >= 2
  BY ByteModIs
<1> HIDE DEF b
<1>2. r \in Int /\ 0 <= r /\ r < b
  BY <1>1
<1> HIDE DEF r
<1>3. r = 0 => (b - r) % b = 0
  BY <1>1, <1>2
<1>4. r # 0 => (b - r) % b = b - r
  BY <1>1, <1>2
<1>5. (b - r) % b \in 0 .. b - 1
  BY <1>1, <1>2, <1>3, <1>4
<1> QED BY <1>3, <1>4, <1>5 DEF r, b, Complement, Octet

LEMMA ComplementsDiffer ==
  ASSUME NEW s \in Int, NEW t \in Int, s % ByteMod # t % ByteMod
  PROVE  Complement(s) # Complement(t)
<1> DEFINE b == ByteMod  r == s % b  q == t % b  u == Complement(s)  v == Complement(t)
<1>1. b \in Nat /\ b >= 2
  BY ByteModIs
<1>2. (r = 0 => u = 0) /\ (r # 0 => u = b - r) /\ (q = 0 => v = 0) /\ (q # 0 => v = b - q)
  BY ComplementIs
<1> HIDE DEF b
<1>3. r \in Int /\ 0 <= r /\ r < b /\ q \in Int /\ 0 <= q /\ q < b /\ r # q
  BY <1>1 DEF b
<1> HIDE DEF r, q, u, v
<1>4. u # v
  BY <1>1, <1>2, <1>3
<1> QED BY <1>4 DEF u, v

(* The sums of the first values of raw.                                    *)
Adds(h, raw) ==
  /\ h \in [0 .. Len(raw) -> Int] /\ h[0] = 0
  /\ \A i \in 1 .. Len(raw) : h[i] = h[i - 1] + raw[i]

LEMMA ChecksumAdds ==
  ASSUME NEW raw \in Seq(Octet)
  PROVE  \E h : Adds(h, raw) /\ Hex!Checksum(raw) = Complement(h[Len(raw)])
<1> DEFINE n == Len(raw)
           sum[i \in 0 .. n] == IF i = 0 THEN 0 ELSE sum[i - 1] + raw[i]
           F == [z \in Int \X (1 .. n) |-> z[1] + raw[z[2]]]
<1>1. Hex!Checksum(raw) = Complement(sum[n])
  BY Zenon DEF Hex!Checksum, Complement
<1>2. n \in Nat /\ \A i \in 1 .. n : raw[i] \in Int
  BY LenProperties, ByteModIs DEF Octet
<1> HIDE DEF n
<1>3. F \in [Int \X (1 .. n) -> Int]
  BY <1>2
<1>4. PICK f \in [0 .. n -> Int] : Iterates(f, n, 0, F)
  <2>1. 0 \in Int
    OBVIOUS
  <2> HIDE DEF F
  <2> QED BY <1>2, <1>3, <2>1, Iteration, Zenon
<1>5. f = [i \in 0 .. n |-> IF i = 0 THEN 0 ELSE f[i - 1] + raw[i]]
  <2>1. \A i \in 0 .. n : i # 0 => F[<<f[i - 1], i>>] = f[i - 1] + raw[i]
    <3> SUFFICES ASSUME NEW i \in 0 .. n, i # 0
                 PROVE  F[<<f[i - 1], i>>] = f[i - 1] + raw[i]
      OBVIOUS
    <3>1. i - 1 \in 0 .. n /\ i \in 1 .. n
      BY <1>2
    <3>2. f[i - 1] \in Int
      BY <1>4, <3>1
    <3> QED BY <3>1, <3>2
  <2>2. f = [i \in 0 .. n |-> IF i = 0 THEN 0 ELSE F[<<f[i - 1], i>>]]
    BY <1>4, Zenon DEF Iterates
  <2> HIDE DEF F
  <2> QED BY <2>1, <2>2
<1>6. sum = [i \in 0 .. n |-> IF i = 0 THEN 0 ELSE sum[i - 1] + raw[i]]
  BY <1>5
<1> HIDE DEF sum
<1>7. sum[0] = 0 /\ \A i \in 1 .. n : sum[i] = sum[i - 1] + raw[i]
  <2>1. \A i \in 0 .. n : sum[i] = IF i = 0 THEN 0 ELSE sum[i - 1] + raw[i]
    BY <1>6, Zenon
  <2> QED BY <1>2, <2>1
<1>8. \A i \in 0 .. n : sum[i] \in Int
  <2> DEFINE T == {i \in 0 .. n : sum[i] \in Int}
  <2>1. 0 \in T
    BY <1>2, <1>7
  <2>2. ASSUME NEW i \in 1 .. n, i - 1 \in T PROVE i \in T
    <3>1. sum[i - 1] \in Int /\ i \in 0 .. n /\ raw[i] \in Int
      BY <1>2, <2>2
    <3>2. sum[i] \in Int
      BY <1>7, <3>1
    <3> QED BY <3>1, <3>2
  <2> HIDE DEF T
  <2>3. \A i \in 0 .. n : i \in T
    BY <1>2, <2>1, <2>2, IndexInduction, Zenon
  <2> QED BY <2>3 DEF T
<1>9. sum = [i \in 0 .. n |-> sum[i]]
  BY <1>6
<1>10. sum \in [0 .. n -> Int]
  BY <1>8, <1>9
<1> QED BY <1>1, <1>7, <1>10, Zenon DEF n, Adds

(* One byte of a record changed is seen.                                   *)
LEMMA ChecksumsDiffer ==
  ASSUME NEW raw \in Seq(Octet), NEW new \in Seq(Octet), Len(raw) = Len(new),
         NEW p \in 1 .. Len(raw), raw[p] # new[p],
         \A i \in 1 .. Len(raw) : i # p => raw[i] = new[i]
  PROVE  Hex!Checksum(raw) # Hex!Checksum(new)
<1> DEFINE n == Len(raw)  d == new[p] - raw[p]
<1>1. PICK g : Adds(g, raw) /\ Hex!Checksum(raw) = Complement(g[n])
  BY ChecksumAdds, Zenon
<1>2. PICK h : Adds(h, new) /\ Hex!Checksum(new) = Complement(h[n])
  BY ChecksumAdds, Zenon
<1>3. /\ n \in Nat /\ p \in 1 .. n
      /\ \A i \in 1 .. n : raw[i] \in Octet /\ new[i] \in Octet
  BY LenProperties
<1>4. /\ \A i \in 0 .. n : g[i] \in Int /\ h[i] \in Int
      /\ g[0] = 0 /\ h[0] = 0
      /\ \A i \in 1 .. n : g[i] = g[i - 1] + raw[i] /\ h[i] = h[i - 1] + new[i]
  BY <1>1, <1>2, Zenon DEF Adds, n
<1>5. \A i \in 1 .. n : i # p => raw[i] = new[i]
  BY DEF n
<1> HIDE DEF n
<1>6. \A i \in 1 .. n : raw[i] \in Int /\ new[i] \in Int
  BY <1>3, ByteModIs DEF Octet
<1>7. d \in Int /\ d # 0 /\ -ByteMod < d /\ d < ByteMod /\ new[p] = raw[p] + d
  <2>1. raw[p] \in Octet /\ new[p] \in Octet /\ raw[p] # new[p]
    BY <1>3
  <2> QED BY <2>1, ByteModIs DEF Octet
<1> HIDE DEF d
<1> DEFINE T == {i \in 0 .. n : h[i] = g[i] + (IF i >= p THEN d ELSE 0)}
<1>8. 0 \in T
  BY <1>3, <1>4
<1>9. ASSUME NEW i \in 1 .. n, i - 1 \in T PROVE i \in T
  <2>1. i \in 0 .. n /\ i \in Int /\ p \in Int /\ d \in Int /\ i - 1 \in 0 .. n
    BY <1>3, <1>7
  <2>2. /\ h[i - 1] = g[i - 1] + (IF i - 1 >= p THEN d ELSE 0)
        /\ g[i] = g[i - 1] + raw[i] /\ h[i] = h[i - 1] + new[i]
        /\ g[i - 1] \in Int /\ raw[i] \in Int
    <3>1. g[i] = g[i - 1] + raw[i] /\ h[i] = h[i - 1] + new[i]
      BY <1>4, Zenon
    <3>2. g[i - 1] \in Int /\ raw[i] \in Int
      BY <1>4, <1>6, <2>1, Zenon
    <3> QED BY <1>9, <3>1, <3>2
  <2>3. h[i] = g[i] + (IF i >= p THEN d ELSE 0)
    <3> DEFINE a == g[i - 1]  x == raw[i]
    <3>1. CASE i = p
      <4>1. new[i] = x + d
        BY <1>7, <3>1
      <4>2. i >= p /\ ~(i - 1 >= p)
        BY <2>1, <3>1
      <4>3. h[i - 1] = a + 0
        BY <2>2, <4>2, Zenon
      <4>4. h[i] = (a + 0) + (x + d) /\ g[i] = a + x
        BY <2>2, <4>1, <4>3, Zenon
      <4>5. a \in Int /\ x \in Int
        BY <2>2, Zenon
      <4> HIDE DEF a, x
      <4>6. (a + 0) + (x + d) = (a + x) + d
        BY <2>1, <4>5
      <4> QED BY <4>2, <4>4, <4>6, Zenon
    <3>2. CASE i # p
      <4> DEFINE e == IF i >= p THEN d ELSE 0
      <4>1. new[i] = x
        BY <1>5, <3>2
      <4>2. (i >= p <=> i - 1 >= p) /\ e \in Int
        BY <2>1, <3>2
      <4>3. h[i - 1] = a + e
        BY <2>2, <4>2, Zenon
      <4>4. h[i] = (a + e) + x /\ g[i] = a + x
        BY <2>2, <4>1, <4>3, Zenon
      <4>5. a \in Int /\ x \in Int
        BY <2>2, Zenon
      <4> HIDE DEF a, x, e
      <4>6. (a + e) + x = (a + x) + e
        BY <4>2, <4>5
      <4> QED BY <4>4, <4>6, Zenon DEF e
    <3> QED BY <3>1, <3>2
  <2>4. i \in T
    BY <2>1, <2>3
  <2> QED BY <2>4
<1> HIDE DEF T
<1>10. \A i \in 0 .. n : i \in T
  BY <1>3, <1>8, <1>9, IndexInduction, Zenon
<1>11. n \in T /\ n >= p /\ n \in 0 .. n
  BY <1>3, <1>10
<1>12. h[n] = g[n] + d /\ g[n] \in Int /\ h[n] \in Int
  BY <1>4, <1>11 DEF T
<1>13. (g[n] + d) % ByteMod # g[n] % ByteMod
  <2>1. ByteMod \in Nat /\ ByteMod > 0
    BY ByteModIs
  <2> QED BY <1>7, <1>12, <2>1, RemaindersDiffer, Zenon
<1>14. g[n] % ByteMod # h[n] % ByteMod
  BY <1>12, <1>13
<1> QED BY <1>1, <1>2, <1>12, <1>14, ComplementsDiffer, Zenon

(* The sum over a record is a byte.                                        *)
LEMMA ChecksumIsByte ==
  ASSUME NEW raw \in Seq(Octet)
  PROVE  Hex!Checksum(raw) \in Octet
<1>1. PICK h : Adds(h, raw) /\ Hex!Checksum(raw) = Complement(h[Len(raw)])
  BY ChecksumAdds, Zenon
<1>2. Len(raw) \in 0 .. Len(raw)
  <2>1. Len(raw) \in Nat
    BY LenProperties, Zenon
  <2> QED BY <2>1
<1>3. h[Len(raw)] \in Int
  BY <1>1, <1>2 DEF Adds
<1> QED BY <1>1, <1>3, ComplementIs, Zenon

(***************************************************************************)
(* Pieces of a file                                                        *)
(***************************************************************************)
IsPiece(t, S, f, a, n) ==
  /\ t \in Seq(S) /\ Len(t) = n
  /\ \A k \in 1 .. n : t[k] = f[a + k]

LEMMA PieceOf ==
  ASSUME NEW S, NEW f, NEW a \in Int, NEW n \in Nat, NEW e \in Int, e = a + n,
         \A k \in a + 1 .. e : f[k] \in S
  PROVE  IsPiece(SubSeq(f, a + 1, e), S, f, a, n)
<1> DEFINE t == SubSeq(f, a + 1, e)
<1>1. /\ t \in Seq(S)
      /\ Len(t) = IF a + 1 <= e THEN e - (a + 1) + 1 ELSE 0
      /\ \A k \in 1 .. e - (a + 1) + 1 : t[k] = f[(a + 1) + k - 1]
  BY SubSeqProperties
<1> HIDE DEF t
<1>2. Len(t) = n
  BY <1>1
<1>3. ASSUME NEW k \in 1 .. n PROVE t[k] = f[a + k]
  <2>1. k \in 1 .. e - (a + 1) + 1 /\ (a + 1) + k - 1 = a + k
    OBVIOUS
  <2> QED BY <1>1, <2>1
<1> QED BY <1>1, <1>2, <1>3, Zenon DEF IsPiece, t

Alike(f, a, g, b, n) == \A k \in 1 .. n : f[a + k] = g[b + k]

(* Two pieces with the same values are the same sequence.                  *)
LEMMA SamePiece ==
  ASSUME NEW S, NEW s, NEW t, NEW f, NEW g, NEW a \in Int, NEW b \in Int, NEW n \in Nat,
         IsPiece(s, S, f, a, n), IsPiece(t, S, g, b, n), Alike(f, a, g, b, n)
  PROVE  s = t
<1>1. s \in Seq(S) /\ t \in Seq(S) /\ Len(s) = n /\ Len(t) = n
  BY Zenon DEF IsPiece
<1>2. \A k \in 1 .. n : s[k] = t[k]
  BY Zenon DEF IsPiece, Alike
<1> QED BY <1>1, <1>2, SeqEqual, Zenon

IsJoin(r, S, s, t) ==
  /\ r \in Seq(S) /\ Len(r) = Len(s) + Len(t)
  /\ \A k \in 1 .. Len(s) : r[k] = s[k]
  /\ \A k \in 1 .. Len(t) : r[Len(s) + k] = t[k]

LEMMA JoinedSeq ==
  ASSUME NEW S, NEW s \in Seq(S), NEW t \in Seq(S)
  PROVE  IsJoin(s \o t, S, s, t)
<1> DEFINE n == Len(s)  m == Len(t)  r == s \o t
<1>1. /\ r \in Seq(S) /\ Len(r) = n + m
      /\ \A i \in 1 .. n + m : r[i] = IF i <= n THEN s[i] ELSE t[i - n]
  BY ConcatProperties
<1>2. n \in Nat /\ m \in Nat
  BY LenProperties
<1> HIDE DEF n, m, r
<1>3. ASSUME NEW k \in 1 .. n PROVE r[k] = s[k]
  <2>1. k \in 1 .. n + m /\ k <= n
    BY <1>2
  <2> QED BY <1>1, <2>1
<1>4. ASSUME NEW k \in 1 .. m PROVE r[n + k] = t[k]
  <2>1. n + k \in 1 .. n + m /\ ~(n + k <= n) /\ (n + k) - n = k
    BY <1>2
  <2> QED BY <1>1, <2>1
<1> QED BY <1>1, <1>3, <1>4, Zenon DEF n, m, r, IsJoin

(***************************************************************************)
(* Records.  A record at place i of a file begins with a mark, its last    *)
(* byte is the checksum.                                                   *)
(***************************************************************************)
Stop(f, i) == i + 5 + f[i + 1]
At(f, i)   == f[i + 2] * ByteMod + f[i + 3]
Raw(f, i)  == SubSeq(f, i + 1, i + 4 + f[i + 1])

(* get_record finds nothing wrong with it.                                 *)
Readable(f, i) ==
  /\ i \in Nat /\ i >= 1 /\ f[i] = -1 /\ f[i + 1] \in Octet /\ Stop(f, i) <= Len(f)
  /\ \A j \in i + 1 .. Stop(f, i) : f[j] \in Octet
  /\ f[Stop(f, i)] = Hex!Checksum(Raw(f, i))

(* What it stores is what m has there.                                     *)
Faithful(m, f, i) ==
  f[i + 4] = 0 => \A k \in 0 .. f[i + 1] - 1 :
    /\ At(f, i) + k < Len(m.valid) /\ m.valid[(At(f, i) + k) + 1]
    /\ m.data[(At(f, i) + k) + 1] = f[(i + 5) + k]

LEMMA OctetIs == \A x \in Octet : x \in Nat /\ x < ByteMod /\ x # -1 /\ x # -2
BY ByteModIs DEF Octet

LEMMA SumOfProduct == \A a, b, c \in Nat : a * b + c \in Nat
OBVIOUS

LEMMA RecordParts ==
  ASSUME NEW f, Len(f) \in Nat, NEW i, Readable(f, i)
  PROVE  /\ i \in Nat /\ i >= 1 /\ f[i + 1] \in Nat /\ Stop(f, i) \in Nat /\ i + 5 <= Stop(f, i)
         /\ Stop(f, i) = i + 5 + f[i + 1] /\ Stop(f, i) <= Len(f)
         /\ f[i + 2] \in Octet /\ f[i + 3] \in Octet /\ f[i + 4] \in Octet /\ At(f, i) \in Nat
         /\ IsPiece(Raw(f, i), Octet, f, i, 4 + f[i + 1])
<1> DEFINE n == f[i + 1]
<1>1. /\ i \in Nat /\ i >= 1 /\ n \in Octet /\ i + 5 + n <= Len(f)
      /\ \A j \in i + 1 .. i + 5 + n : f[j] \in Octet
  BY Zenon DEF Readable, Stop
<1>2. n \in Nat
  BY <1>1, OctetIs
<1> HIDE DEF n
<1>3. f[i + 2] \in Octet /\ f[i + 3] \in Octet /\ f[i + 4] \in Octet
  BY <1>1, <1>2
<1>4. f[i + 2] * ByteMod + f[i + 3] \in Nat
  <2>1. f[i + 2] \in Nat /\ f[i + 3] \in Nat /\ ByteMod \in Nat
    BY <1>3, OctetIs, ByteModIs, Zenon
  <2> QED BY <2>1, SumOfProduct, Zenon
<1>5. IsPiece(SubSeq(f, i + 1, i + 4 + n), Octet, f, i, 4 + n)
  <2>1. /\ i + 4 + n = i + (4 + n) /\ 4 + n \in Nat /\ i \in Int /\ i + 4 + n \in Int
        /\ \A j \in i + 1 .. i + 4 + n : f[j] \in Octet
    BY <1>1, <1>2
  <2> HIDE DEF Octet
  <2> QED BY <2>1, PieceOf, Zenon
<1>6. /\ Stop(f, i) = i + 5 + n /\ At(f, i) = f[i + 2] * ByteMod + f[i + 3]
      /\ Raw(f, i) = SubSeq(f, i + 1, i + 4 + n)
  BY Zenon DEF Stop, At, Raw, n
<1>7. Stop(f, i) \in Nat /\ i + 5 <= Stop(f, i) /\ Stop(f, i) <= Len(f)
  <2>1. i + 5 + n \in Nat /\ i + 5 <= i + 5 + n
    BY <1>1, <1>2
  <2> QED BY <1>1, <1>6, <2>1
<1> QED BY <1>1, <1>2, <1>3, <1>4, <1>5, <1>6, <1>7, Zenon DEF n

(* The same record at another place.                                       *)
SameAs(g, j, f, i) ==
  /\ Readable(g, j) /\ Stop(g, j) - j = Stop(f, i) - i
  /\ g[j + 1] = f[i + 1] /\ g[j + 4] = f[i + 4] /\ At(g, j) = At(f, i)
  /\ \A m : Faithful(m, f, i) => Faithful(m, g, j)

LEMMA SameRecord ==
  ASSUME NEW f, Len(f) \in Nat, NEW g, Len(g) \in Nat, NEW i, NEW j, NEW d \in Int,
         Readable(f, i), j = i + d, j >= 1, Stop(f, i) + d <= Len(g),
         \A k \in i .. Stop(f, i) : g[k + d] = f[k]
  PROVE  SameAs(g, j, f, i)
<1> DEFINE n == f[i + 1]  e == Stop(f, i)
<1>1. /\ i \in Nat /\ i >= 1 /\ n \in Nat /\ e = i + 5 + n /\ e <= Len(f) /\ At(f, i) \in Nat
      /\ IsPiece(Raw(f, i), Octet, f, i, 4 + n)
  BY RecordParts, Zenon
<1>2. /\ f[i] = -1 /\ n \in Octet /\ f[e] = Hex!Checksum(Raw(f, i))
      /\ \A k \in i + 1 .. e : f[k] \in Octet
  BY Zenon DEF Readable
<1>3. /\ j = i + d /\ j >= 1 /\ e + d <= Len(g) /\ j \in Nat /\ e \in Nat
      /\ \A k \in i .. e : g[k + d] = f[k]
  BY <1>1
<1> HIDE DEF n, e
<1>4. /\ g[j] = f[i] /\ g[j + 1] = f[i + 1] /\ g[j + 2] = f[i + 2] /\ g[j + 3] = f[i + 3]
      /\ g[j + 4] = f[i + 4] /\ g[e + d] = f[e]
  <2>1. ASSUME NEW k \in 0 .. 4 PROVE g[j + k] = f[i + k]
    <3>1. i + k \in i .. e /\ (i + k) + d = j + k
      BY <1>1, <1>3
    <3> QED BY <1>3, <3>1
  <2>2. j + 0 = j /\ i + 0 = i
    BY <1>1, <1>3
  <2>3. 0 \in 0 .. 4 /\ 1 \in 0 .. 4 /\ 2 \in 0 .. 4 /\ 3 \in 0 .. 4 /\ 4 \in 0 .. 4
    OBVIOUS
  <2>4. /\ g[j + 0] = f[i + 0] /\ g[j + 1] = f[i + 1] /\ g[j + 2] = f[i + 2]
        /\ g[j + 3] = f[i + 3] /\ g[j + 4] = f[i + 4]
    BY <2>1, <2>3, Zenon
  <2>5. g[e + d] = f[e]
    <3>1. e \in i .. e
      BY <1>1, <1>3
    <3> QED BY <1>3, <3>1
  <2> QED BY <2>2, <2>4, <2>5
<1>5. g[j + 1] = n /\ Stop(g, j) = e + d /\ Stop(g, j) - j = e - i
  <2>1. g[j + 1] = n
    BY <1>4 DEF n
  <2> QED BY <1>1, <1>3, <2>1 DEF Stop
<1>6. At(g, j) = At(f, i)
  BY <1>4, Zenon DEF At
<1>7. ASSUME NEW k \in j + 1 .. e + d PROVE g[k] \in Octet
  <2>1. k - d \in i + 1 .. e /\ k - d \in i .. e /\ (k - d) + d = k
    BY <1>1, <1>3
  <2> QED BY <1>2, <1>3, <2>1
<1>8. Raw(g, j) = Raw(f, i)
  <2>1. IsPiece(SubSeq(g, j + 1, j + 4 + n), Octet, g, j, 4 + n)
    <3>1. /\ j + 4 + n = j + (4 + n) /\ 4 + n \in Nat /\ j \in Int /\ j + 4 + n \in Int
          /\ \A k \in j + 1 .. j + 4 + n : k \in j + 1 .. e + d
      BY <1>1, <1>3
    <3>2. \A k \in j + 1 .. j + 4 + n : g[k] \in Octet
      BY <3>1, <1>7
    <3> QED BY <3>1, <3>2, PieceOf, Zenon
  <2>2. Raw(g, j) = SubSeq(g, j + 1, j + 4 + n)
    BY <1>5, Zenon DEF Raw
  <2>3. Alike(f, i, g, j, 4 + n)
    <3>1. ASSUME NEW k \in 1 .. 4 + n PROVE f[i + k] = g[j + k]
      <4>1. i + k \in i .. e /\ (i + k) + d = j + k
        BY <1>1, <1>3
      <4> QED BY <1>3, <4>1
    <3> QED BY <3>1, Zenon DEF Alike
  <2>4. i \in Int /\ j \in Int /\ 4 + n \in Nat
    BY <1>1, <1>3
  <2>5. IsPiece(Raw(g, j), Octet, g, j, 4 + n) /\ IsPiece(Raw(f, i), Octet, f, i, 4 + n)
    BY <1>1, <2>1, <2>2
  <2>6. Raw(f, i) = Raw(g, j)
    BY <2>3, <2>4, <2>5, SamePiece, Zenon
  <2> QED BY <2>6
<1>9. Readable(g, j)
  <2>1. g[j] = -1 /\ g[j + 1] \in Octet /\ g[Stop(g, j)] = Hex!Checksum(Raw(g, j))
    BY <1>2, <1>4, <1>5, <1>8 DEF n
  <2> QED BY <1>3, <1>5, <1>7, <2>1, Zenon DEF Readable
<1>10. ASSUME NEW m, Faithful(m, f, i) PROVE Faithful(m, g, j)
  <2> SUFFICES ASSUME g[j + 4] = 0, NEW k \in 0 .. g[j + 1] - 1
               PROVE  /\ At(g, j) + k < Len(m.valid) /\ m.valid[(At(g, j) + k) + 1]
                      /\ m.data[(At(g, j) + k) + 1] = g[(j + 5) + k]
    BY Zenon DEF Faithful
  <2>1. f[i + 4] = 0 /\ k \in 0 .. f[i + 1] - 1
    BY <1>4, Zenon
  <2>2. /\ At(f, i) + k < Len(m.valid) /\ m.valid[(At(f, i) + k) + 1]
        /\ m.data[(At(f, i) + k) + 1] = f[(i + 5) + k]
    BY <1>10, <2>1, Zenon DEF Faithful
  <2>3. g[(j + 5) + k] = f[(i + 5) + k]
    <3>1. k \in 0 .. n - 1
      BY <2>1, Zenon DEF n
    <3>2. (i + 5) + k \in i .. e /\ ((i + 5) + k) + d = (j + 5) + k
      BY <1>1, <1>3, <3>1
    <3>3. g[((i + 5) + k) + d] = f[(i + 5) + k]
      BY <1>3, <3>2, Zenon
    <3> QED BY <3>2, <3>3
  <2> QED BY <1>6, <2>2, <2>3, Zenon
<1>11. Stop(g, j) - j = Stop(f, i) - i
  BY <1>5, Zenon DEF e
<1> QED BY <1>4, <1>6, <1>9, <1>10, <1>11, Zenon DEF SameAs

(***************************************************************************)
(* Files of whole lines: every mark begins a record without a fault, and   *)
(* the next line begins behind it.                                         *)
(***************************************************************************)
Boundary(f, b) == b \in Nat /\ b >= 1 /\ b <= Len(f) + 1 /\ (b <= Len(f) => f[b] = -1)

GoodLine(m, f, i) ==
  /\ Readable(f, i) /\ f[i + 4] \in {0, 1} /\ Faithful(m, f, i)
  /\ Boundary(f, Stop(f, i) + 1)

AllLines(m, f) ==
  /\ f \in Seq(Token) /\ Boundary(f, 1)
  /\ \A i \in 1 .. Len(f) : f[i] = -1 => GoodLine(m, f, i)

(* No record that can be read is false.                                    *)
Fine(m, f) == \A i : Readable(f, i) => Faithful(m, f, i)

LEMMA MovedLine ==
  ASSUME NEW m, NEW f, NEW g, NEW i, NEW j,
         GoodLine(m, f, i), SameAs(g, j, f, i), Boundary(g, Stop(g, j) + 1)
  PROVE  GoodLine(m, g, j)
BY Zenon DEF GoodLine, SameAs

LEMMA WholeLinesAreFine ==
  ASSUME NEW m, NEW f, AllLines(m, f)
  PROVE  Fine(m, f)
<1> SUFFICES ASSUME NEW i, Readable(f, i) PROVE Faithful(m, f, i)
  BY Zenon DEF Fine
<1>1. f \in Seq(Token)
  BY Zenon DEF AllLines
<1>2. Len(f) \in Nat
  BY <1>1, LenProperties, Zenon
<1>3. f[i] = -1
  BY Zenon DEF Readable
<1>4. i \in 1 .. Len(f)
  <2>1. i \in Nat /\ i >= 1 /\ i + 5 <= Stop(f, i) /\ Stop(f, i) <= Len(f) /\ Stop(f, i) \in Nat
    BY <1>2, RecordParts, Zenon
  <2> QED BY <2>1, <1>2
<1> QED BY <1>3, <1>4, Zenon DEF AllLines, GoodLine

(* The lines from one boundary to another.                                 *)
LEMMA LinesBetween ==
  ASSUME NEW m, NEW f, AllLines(m, f), NEW b, NEW c, Boundary(f, b), Boundary(f, c), b <= c,
         NEW e, e = c - 1
  PROVE  AllLines(m, SubSeq(f, b, e)) /\ Len(SubSeq(f, b, e)) = c - b
<1> DEFINE z == Len(f)  g == SubSeq(f, b, e)  a == b - 1  n == c - b
<1>1. f \in Seq(Token)
  BY Zenon DEF AllLines
<1>2. z \in Nat /\ \A k \in 1 .. z : f[k] \in Token
  BY <1>1, LenProperties
<1>3. /\ b \in Nat /\ b >= 1 /\ c \in Nat /\ c >= 1 /\ c <= z + 1
      /\ (b <= z => f[b] = -1) /\ (c <= z => f[c] = -1)
  BY DEF Boundary
<1>4. b <= c
  OBVIOUS
<1> HIDE DEF z
<1>5. a \in Int /\ n \in Nat /\ e = a + n /\ a + 1 = b /\ a >= 0 /\ e <= z /\ e \in Int
  BY <1>2, <1>3, <1>4
<1> HIDE DEF a, n
<1>6. IsPiece(SubSeq(f, a + 1, e), Token, f, a, n)
  <2>1. \A k \in a + 1 .. e : f[k] \in Token
    BY <1>2, <1>5
  <2> QED BY <1>5, <2>1, PieceOf, Zenon
<1>7. g \in Seq(Token) /\ Len(g) = n /\ \A k \in 1 .. n : g[k] = f[a + k]
  BY <1>5, <1>6, Zenon DEF IsPiece
<1> HIDE DEF g
<1>8. Boundary(g, 1)
  <2>1. ASSUME 1 <= Len(g) PROVE g[1] = -1
    <3>1. 1 \in 1 .. n /\ b <= z
      BY <1>2, <1>3, <1>5, <1>7, <2>1
    <3> QED BY <1>3, <1>5, <1>7, <3>1
  <2> QED BY <2>1, <1>5, <1>7 DEF Boundary
<1>9. ASSUME NEW i \in 1 .. n, g[i] = -1 PROVE GoodLine(m, g, i)
  <2> DEFINE j == a + i  s == Stop(f, j)
  <2>1. j \in 1 .. z /\ f[j] = -1 /\ j \in Nat
    BY <1>2, <1>5, <1>7, <1>9
  <2>2. GoodLine(m, f, j)
    BY <2>1, Zenon DEF AllLines, z
  <2>3. Readable(f, j) /\ Boundary(f, s + 1)
    BY <2>2, Zenon DEF GoodLine
  <2>4. s \in Nat /\ j + 5 <= s /\ s <= z
    BY <1>2, <2>3, RecordParts, Zenon DEF z
  <2>5. \A k \in j + 1 .. s : f[k] # -1
    BY <2>3, OctetIs, Zenon DEF Readable
  <2>6. s + 1 <= z => f[s + 1] = -1
    BY <2>3, Zenon DEF Boundary, z
  <2> HIDE DEF s
  <2>7. s < c
    <3> SUFFICES ASSUME c <= s PROVE FALSE
      BY <1>3, <2>4
    <3>1. c <= z /\ c \in j + 1 .. s
      BY <1>2, <1>3, <1>5, <2>1, <2>4
    <3> QED BY <1>3, <2>5, <3>1
  <2>8. SameAs(g, i, f, j)
    <3>1. -a \in Int /\ i = j + (-a) /\ i >= 1 /\ s + (-a) <= Len(g) /\ Len(g) \in Nat
      BY <1>3, <1>5, <1>7, <2>1, <2>4, <2>7
    <3>2. ASSUME NEW k \in j .. s PROVE g[k + (-a)] = f[k]
      <4>1. k + (-a) \in 1 .. n /\ a + (k + (-a)) = k
        BY <1>3, <1>5, <1>7, <2>1, <2>4, <2>7
      <4> QED BY <1>7, <4>1
    <3> QED BY <1>2, <2>3, <3>1, <3>2, SameRecord, Zenon DEF s, z
  <2>9. Stop(g, i) \in Nat /\ Stop(g, i) = s - a
    <3>1. Stop(g, i) - i = Stop(f, j) - j /\ Readable(g, i)
      BY <2>8, Zenon DEF SameAs
    <3>2. Stop(g, i) \in Nat
      <4>1. Len(g) \in Nat
        BY <1>5, <1>7
      <4> QED BY <3>1, <4>1, RecordParts, Zenon
    <3> QED BY <3>1, <3>2, <2>1, <2>4, <1>5 DEF s
  <2>10. Boundary(g, Stop(g, i) + 1)
    <3> DEFINE t == Stop(g, i)
    <3>1. t + 1 \in Nat /\ t + 1 >= 1 /\ t + 1 <= n + 1
      BY <1>3, <1>5, <2>4, <2>7, <2>9
    <3>2. ASSUME t + 1 <= n PROVE g[t + 1] = -1
      <4>1. t + 1 \in 1 .. n /\ a + (t + 1) = s + 1 /\ s + 1 <= z
        BY <1>2, <1>3, <1>5, <2>4, <2>9, <3>1, <3>2
      <4> QED BY <1>7, <2>6, <4>1
    <3> HIDE DEF t
    <3> QED BY <1>7, <3>1, <3>2, Zenon DEF Boundary, t
  <2> QED BY <2>2, <2>8, <2>10, MovedLine, Zenon
<1>10. AllLines(m, g)
  BY <1>7, <1>8, <1>9, Zenon DEF AllLines
<1> QED BY <1>7, <1>10, Zenon DEF g, n

(* Lines behind lines.                                                     *)
LEMMA LinesJoined ==
  ASSUME NEW m, NEW f, NEW g, AllLines(m, f), AllLines(m, g)
  PROVE  AllLines(m, f \o g)
<1> DEFINE y == Len(f)  z == Len(g)  h == f \o g
<1>1. f \in Seq(Token) /\ g \in Seq(Token)
  BY Zenon DEF AllLines
<1>2. y \in Nat /\ z \in Nat
  BY <1>1, LenProperties
<1>3. /\ h \in Seq(Token) /\ Len(h) = y + z
      /\ \A k \in 1 .. y : h[k] = f[k]
      /\ \A k \in 1 .. z : h[y + k] = g[k]
  <2>1. IsJoin(f \o g, Token, f, g)
    BY <1>1, JoinedSeq, Zenon
  <2> QED BY <2>1, Zenon DEF IsJoin
<1>4. (1 <= y => f[1] = -1) /\ (1 <= z => g[1] = -1)
  BY Zenon DEF AllLines, Boundary
<1>5. /\ \A k \in 1 .. y : f[k] = -1 => GoodLine(m, f, k)
      /\ \A k \in 1 .. z : g[k] = -1 => GoodLine(m, g, k)
  BY Zenon DEF AllLines
<1> HIDE DEF h
<1>6. ASSUME NEW s \in Nat, s >= 1, s <= y + 1, s <= y => f[s] = -1
      PROVE  Boundary(h, s)
  <2>1. CASE s <= y
    <3>1. s \in 1 .. y /\ s <= y + z + 1
      BY <1>2, <1>6, <2>1
    <3> QED BY <1>3, <1>6, <2>1, <3>1, Zenon DEF Boundary
  <2>2. CASE ~(s <= y)
    <3>1. s = y + 1 /\ s <= y + z + 1
      BY <1>2, <1>6, <2>2
    <3>2. ASSUME s <= y + z PROVE h[s] = -1
      <4>1. 1 <= z /\ 1 \in 1 .. z
        BY <1>2, <3>1, <3>2
      <4> QED BY <1>3, <1>4, <3>1, <4>1
    <3> QED BY <1>3, <1>6, <3>1, <3>2, Zenon DEF Boundary
  <2> QED BY <2>1, <2>2
<1>7. ASSUME NEW s \in Nat, s >= 1, s <= z + 1, s <= z => g[s] = -1
      PROVE  Boundary(h, y + s)
  <2>1. y + s \in Nat /\ y + s >= 1 /\ y + s <= y + z + 1
    BY <1>2, <1>7
  <2>2. ASSUME y + s <= y + z PROVE h[y + s] = -1
    <3>1. s \in 1 .. z /\ s <= z
      BY <1>2, <1>7, <2>2
    <3> QED BY <1>3, <1>7, <3>1
  <2> QED BY <1>3, <2>1, <2>2, Zenon DEF Boundary
<1>8. Boundary(h, 1)
  <2>1. 1 \in Nat /\ 1 >= 1 /\ 1 <= y + 1
    BY <1>2
  <2> QED BY <1>4, <1>6, <2>1
<1>9. ASSUME NEW i \in 1 .. y, f[i] = -1 PROVE GoodLine(m, h, i)
  <2> DEFINE s == Stop(f, i)
  <2>1. GoodLine(m, f, i)
    BY <1>5, <1>9
  <2>2. Readable(f, i) /\ Boundary(f, s + 1)
    BY <2>1, Zenon DEF GoodLine
  <2>3. s \in Nat /\ i + 5 <= s /\ s <= y /\ i \in Nat /\ i >= 1
    BY <1>2, <2>2, RecordParts, Zenon
  <2>4. s + 1 <= y => f[s + 1] = -1
    BY <2>2, Zenon DEF Boundary
  <2> HIDE DEF s
  <2>5. SameAs(h, i, f, i)
    <3>1. 0 \in Int /\ i = i + 0 /\ i >= 1 /\ s + 0 <= Len(h) /\ Len(h) \in Nat
      BY <1>2, <1>3, <2>3
    <3>2. ASSUME NEW k \in i .. s PROVE h[k + 0] = f[k]
      <4>1. k + 0 = k /\ k \in 1 .. y
        BY <1>2, <2>3
      <4> QED BY <1>3, <4>1
    <3> QED BY <1>2, <2>2, <3>1, <3>2, SameRecord, Zenon DEF s
  <2>6. Stop(h, i) = s
    <3>1. Stop(h, i) - i = Stop(f, i) - i /\ Readable(h, i)
      BY <2>5, Zenon DEF SameAs
    <3>2. Stop(h, i) \in Nat
      <4>1. Len(h) \in Nat
        BY <1>2, <1>3
      <4> QED BY <3>1, <4>1, RecordParts, Zenon
    <3> QED BY <3>1, <3>2, <2>3 DEF s
  <2>7. Boundary(h, Stop(h, i) + 1)
    <3>1. s + 1 \in Nat /\ s + 1 >= 1 /\ s + 1 <= y + 1
      BY <1>2, <2>3
    <3>2. Boundary(h, s + 1)
      BY <1>6, <2>4, <3>1
    <3> QED BY <2>6, <3>2
  <2> QED BY <2>1, <2>5, <2>7, MovedLine, Zenon
<1>10. ASSUME NEW i \in 1 .. z, g[i] = -1 PROVE GoodLine(m, h, y + i)
  <2> DEFINE s == Stop(g, i)  j == y + i
  <2>1. GoodLine(m, g, i)
    BY <1>5, <1>10
  <2>2. Readable(g, i) /\ Boundary(g, s + 1)
    BY <2>1, Zenon DEF GoodLine
  <2>3. s \in Nat /\ i + 5 <= s /\ s <= z /\ i \in Nat /\ i >= 1
    BY <1>2, <2>2, RecordParts, Zenon
  <2>4. s + 1 <= z => g[s + 1] = -1
    BY <2>2, Zenon DEF Boundary
  <2>5. j \in Nat /\ j = i + y /\ j >= 1
    BY <1>2, <2>3
  <2> HIDE DEF s, j
  <2>6. SameAs(h, j, g, i)
    <3>1. y \in Int /\ j >= 1 /\ s + y <= Len(h) /\ Len(h) \in Nat
      BY <1>2, <1>3, <2>3, <2>5
    <3>2. ASSUME NEW k \in i .. s PROVE h[k + y] = g[k]
      <4>1. k + y = y + k /\ k \in 1 .. z
        BY <1>2, <2>3
      <4> QED BY <1>3, <4>1
    <3> QED BY <1>2, <2>2, <2>5, <3>1, <3>2, SameRecord, Zenon DEF s
  <2>7. Stop(h, j) = y + s
    <3>1. Stop(h, j) - j = Stop(g, i) - i /\ Readable(h, j)
      BY <2>6, Zenon DEF SameAs
    <3>2. Stop(h, j) \in Nat
      <4>1. Len(h) \in Nat
        BY <1>2, <1>3
      <4> QED BY <3>1, <4>1, RecordParts, Zenon
    <3> QED BY <3>1, <3>2, <2>3, <2>5, <1>2 DEF s
  <2>8. Boundary(h, Stop(h, j) + 1)
    <3>1. s + 1 \in Nat /\ s + 1 >= 1 /\ s + 1 <= z + 1 /\ y + (s + 1) = (y + s) + 1
      BY <1>2, <2>3
    <3>2. Boundary(h, y + (s + 1))
      BY <1>7, <2>4, <3>1
    <3> QED BY <2>7, <3>1, <3>2
  <2>9. GoodLine(m, h, j)
    BY <2>1, <2>6, <2>8, MovedLine, Zenon
  <2> QED BY <2>9 DEF j
<1>11. ASSUME NEW i \in 1 .. y + z, h[i] = -1 PROVE GoodLine(m, h, i)
  <2>1. CASE i <= y
    <3>1. i \in 1 .. y
      BY <2>1
    <3> QED BY <1>3, <1>9, <1>11, <3>1
  <2>2. CASE ~(i <= y)
    <3> DEFINE k == i - y
    <3>1. k \in 1 .. z /\ y + k = i
      BY <1>2, <2>2
    <3> HIDE DEF k
    <3> QED BY <1>3, <1>10, <1>11, <3>1
  <2> QED BY <2>1, <2>2
<1> QED BY <1>3, <1>8, <1>11, Zenon DEF AllLines, h

(***************************************************************************)
(* One record                                                              *)
(***************************************************************************)
LEMMA TwoDigits ==
  ASSUME NEW b \in Nat, b > 0, NEW a \in Nat, a < b * b
  PROVE  /\ a \div b \in 0 .. b - 1 /\ a % b \in 0 .. b - 1
         /\ (a \div b) * b + (a % b) = a
<1> DEFINE q == a \div b  r == a % b
<1>1. q \in Nat /\ r \in 0 .. b - 1 /\ a = b * q + r
  OBVIOUS
<1> HIDE DEF q, r
<1>2. q * b = b * q
  BY <1>1
<1>3. q * b + r = a
  BY <1>1, <1>2
<1>4. q < b
  <2> SUFFICES ASSUME q >= b PROVE FALSE
    BY <1>1
  <2> DEFINE d == q - b
  <2>1. d \in Nat /\ q = b + d
    BY <1>1
  <2> HIDE DEF d
  <2>2. b * q = b * b + b * d /\ b * d \in Nat
    BY <2>1
  <2> DEFINE s == b * b  p == b * q  u == b * d
  <2>3. s \in Nat /\ p = s + u /\ u >= 0 /\ p <= a /\ a < s /\ p \in Nat /\ u \in Nat
    BY <1>1, <2>2
  <2> HIDE DEF s, p, u
  <2> QED BY <2>3
<1>5. q \in 0 .. b - 1
  BY <1>1, <1>4
<1> QED BY <1>1, <1>3, <1>5 DEF q, r

IsRecord(f, a, t, n) ==
  /\ f \in Seq(Token) /\ n \in Nat /\ Len(f) = 6 + n
  /\ f[1] = -1 /\ f[2] = n /\ f[5] = t /\ At(f, 1) = a /\ Stop(f, 1) = Len(f)
  /\ \A i \in 1 .. Len(f) : f[i] = -1 => i = 1

(* m has the bytes of d at a.                                              *)
Given(m, a, d) ==
  \A k \in 0 .. Len(d) - 1 :
    a + k < Len(m.valid) /\ m.valid[(a + k) + 1] /\ m.data[(a + k) + 1] = d[k + 1]

LEMMA OneRecord ==
  ASSUME NEW m, NEW a \in Nat, a < ByteMod * ByteMod, NEW t \in {0, 1}, NEW d \in Seq(Octet),
         Len(d) \in Octet, t = 0 => Given(m, a, d)
  PROVE  AllLines(m, Hex!Record(a, t, d)) /\ IsRecord(Hex!Record(a, t, d), a, t, Len(d))
<1> DEFINE n == Len(d)  q == a \div ByteMod  r == a % ByteMod
           head == <<n, q, r, t>>  raw == head \o d  c == Hex!Checksum(raw)
           most == <<-1>> \o raw  f == most \o <<c>>
<1>1. ByteMod \in Nat /\ ByteMod > 0 /\ ByteMod >= 2 /\ 0 \in Octet /\ 1 \in Octet
  BY ByteModIs DEF Octet
<1>2. q \in Octet /\ r \in Octet /\ q * ByteMod + r = a
  BY <1>1, TwoDigits, Zenon DEF Octet
<1>3. n \in Octet /\ n \in Nat /\ t \in Octet
  BY <1>1, OctetIs
<1>4. Hex!Record(a, t, d) = f
  BY Zenon DEF Hex!Record, Hex!Mark
<1> HIDE DEF q, r, n
<1>5. /\ head \in Seq(Octet) /\ Len(head) = 4
      /\ head[1] = n /\ head[2] = q /\ head[3] = r /\ head[4] = t
  <2> HIDE DEF Octet
  <2> QED BY <1>2, <1>3
<1> HIDE DEF head
<1>6. /\ raw \in Seq(Octet) /\ Len(raw) = 4 + n
      /\ \A k \in 1 .. 4 : raw[k] = head[k]
      /\ \A k \in 1 .. n : raw[4 + k] = d[k]
  <2>1. IsJoin(raw, Octet, head, d)
    BY <1>5, JoinedSeq, Zenon
  <2> QED BY <1>5, <2>1, Zenon DEF IsJoin, n
<1> HIDE DEF raw
<1>7. c \in Octet
  BY <1>6, ChecksumIsByte, Zenon
<1>8. <<-1>> \in Seq(Token) /\ Len(<<-1>>) = 1 /\ <<-1>>[1] = -1
  BY DEF Token
<1>9. <<c>> \in Seq(Token) /\ Len(<<c>>) = 1 /\ <<c>>[1] = c
  <2> HIDE DEF c
  <2> QED BY <1>7 DEF Token
<1>10. raw \in Seq(Token)
  <2>1. Octet \subseteq Token
    BY DEF Token
  <2> QED BY <1>6, <2>1, SeqMonotonic, Zenon
<1> HIDE DEF c
<1>11. /\ most \in Seq(Token) /\ Len(most) = 1 + Len(raw)
       /\ \A k \in 1 .. 1 : most[k] = <<-1>>[k]
       /\ \A k \in 1 .. Len(raw) : most[1 + k] = raw[k]
  <2>1. IsJoin(most, Token, <<-1>>, raw)
    BY <1>8, <1>10, JoinedSeq, Zenon
  <2> QED BY <1>8, <2>1, Zenon DEF IsJoin
<1> HIDE DEF most
<1>12. /\ f \in Seq(Token) /\ Len(f) = Len(most) + 1
       /\ \A k \in 1 .. Len(most) : f[k] = most[k]
       /\ \A k \in 1 .. 1 : f[Len(most) + k] = <<c>>[k]
  <2>1. IsJoin(f, Token, most, <<c>>)
    BY <1>9, <1>11, JoinedSeq, Zenon
  <2> QED BY <1>9, <2>1, Zenon DEF IsJoin
<1> HIDE DEF f
<1>13. Len(most) = 5 + n /\ Len(f) = 6 + n
  BY <1>3, <1>6, <1>11, <1>12
<1>14. f[1] = -1
  <2>1. 1 \in 1 .. Len(most) /\ 1 \in 1 .. 1
    BY <1>3, <1>13
  <2> QED BY <1>8, <1>11, <1>12, <2>1
<1>15. ASSUME NEW k \in 1 .. 4 + n PROVE f[1 + k] = raw[k]
  <2>1. 1 + k \in 1 .. Len(most) /\ k \in 1 .. Len(raw)
    BY <1>3, <1>6, <1>13
  <2> QED BY <1>11, <1>12, <2>1
<1>16. f[6 + n] = c
  <2>1. 1 \in 1 .. 1 /\ Len(most) + 1 = 6 + n
    BY <1>3, <1>13
  <2>2. f[Len(most) + 1] = <<c>>[1]
    BY <1>12, <2>1, Zenon
  <2> QED BY <1>9, <2>1, <2>2
<1>17. f[2] = n /\ f[3] = q /\ f[4] = r /\ f[5] = t
  <2>1. \A k \in 1 .. 4 : f[1 + k] = head[k]
    <3> TAKE k \in 1 .. 4
    <3>1. k \in 1 .. 4 + n
      BY <1>3
    <3> QED BY <1>6, <1>15, <3>1
  <2>2. f[1 + 1] = head[1] /\ f[1 + 2] = head[2] /\ f[1 + 3] = head[3] /\ f[1 + 4] = head[4]
    BY <2>1
  <2> QED BY <1>5, <2>2
<1>18. At(f, 1) = a
  <2>1. At(f, 1) = f[3] * ByteMod + f[4]
    BY DEF At
  <2> QED BY <1>2, <1>17, <2>1
<1>19. Stop(f, 1) = 6 + n
  <2>1. f[1 + 1] = n
    BY <1>17
  <2> QED BY <1>3, <2>1 DEF Stop
<1>20. \A j \in 1 + 1 .. 6 + n : f[j] \in Octet
  <2> TAKE j \in 1 + 1 .. 6 + n
  <2>1. CASE j = 6 + n
    BY <1>7, <1>16, <2>1
  <2>2. CASE j # 6 + n
    <3> DEFINE k == j - 1
    <3>1. k \in 1 .. 4 + n /\ 1 + k = j /\ k \in 1 .. Len(raw)
      BY <1>3, <1>6, <2>2
    <3> HIDE DEF k
    <3>2. raw[k] \in Octet
      BY <1>6, <3>1, ElementOfSeq, Zenon
    <3> QED BY <1>15, <3>1, <3>2
  <2> QED BY <2>1, <2>2
<1>21. Raw(f, 1) = raw
  <2>1. IsPiece(raw, Octet, f, 1, 4 + n)
    BY <1>6, <1>15, Zenon DEF IsPiece
  <2>2. IsPiece(SubSeq(f, 1 + 1, 1 + 4 + n), Octet, f, 1, 4 + n)
    <3>1. /\ 1 + 4 + n = 1 + (4 + n) /\ 4 + n \in Nat /\ 1 \in Int /\ 1 + 4 + n \in Int
          /\ \A j \in 1 + 1 .. 1 + 4 + n : j \in 1 + 1 .. 6 + n
      BY <1>3
    <3>2. \A j \in 1 + 1 .. 1 + 4 + n : f[j] \in Octet
      BY <1>20, <3>1
    <3> QED BY <3>1, <3>2, PieceOf, Zenon
  <2>3. f[1 + 1] = n
    BY <1>17
  <2>4. IsPiece(Raw(f, 1), Octet, f, 1, 4 + n)
    BY <2>2, <2>3, Zenon DEF Raw
  <2>5. Alike(f, 1, f, 1, 4 + n) /\ 1 \in Int /\ 4 + n \in Nat
    BY <1>3 DEF Alike
  <2> QED BY <2>1, <2>4, <2>5, SamePiece, Zenon
<1>22. Readable(f, 1)
  <2>1. /\ 1 \in Nat /\ 1 >= 1 /\ f[1 + 1] \in Octet /\ Stop(f, 1) <= Len(f)
    BY <1>3, <1>13, <1>17, <1>19
  <2> QED BY <1>14, <1>16, <1>19, <1>20, <1>21, <2>1, Zenon DEF Readable, c
<1>23. Faithful(m, f, 1)
  <2> SUFFICES ASSUME f[1 + 4] = 0, NEW k \in 0 .. f[1 + 1] - 1
               PROVE  /\ At(f, 1) + k < Len(m.valid) /\ m.valid[(At(f, 1) + k) + 1]
                      /\ m.data[(At(f, 1) + k) + 1] = f[(1 + 5) + k]
    BY Zenon DEF Faithful
  <2>1. t = 0 /\ k \in 0 .. n - 1
    BY <1>17
  <2>2. a + k < Len(m.valid) /\ m.valid[(a + k) + 1] /\ m.data[(a + k) + 1] = d[k + 1]
    BY <2>1, Zenon DEF Given, n
  <2>3. f[(1 + 5) + k] = d[k + 1]
    <3>1. /\ k + 1 \in 1 .. n /\ 4 + (k + 1) \in 1 .. 4 + n
          /\ 1 + (4 + (k + 1)) = (1 + 5) + k
      BY <1>3, <2>1
    <3> QED BY <1>6, <1>15, <3>1
  <2> QED BY <1>18, <2>2, <2>3, Zenon
<1>24. Boundary(f, Stop(f, 1) + 1) /\ Boundary(f, 1)
  BY <1>3, <1>13, <1>14, <1>19 DEF Boundary
<1>25. \A i \in 1 .. Len(f) : f[i] = -1 => i = 1
  <2> SUFFICES ASSUME NEW i \in 1 .. Len(f), f[i] = -1, i # 1 PROVE FALSE
    OBVIOUS
  <2>1. i \in 1 + 1 .. 6 + n
    BY <1>3, <1>13
  <2> QED BY <1>20, <2>1, OctetIs
<1>26. GoodLine(m, f, 1)
  <2>1. f[1 + 4] \in {0, 1}
    BY <1>17
  <2> QED BY <1>22, <1>23, <1>24, <2>1, Zenon DEF GoodLine
<1>27. AllLines(m, f)
  BY <1>12, <1>24, <1>25, <1>26, Zenon DEF AllLines
<1>28. IsRecord(f, a, t, n)
  <2>1. Stop(f, 1) = Len(f)
    BY <1>13, <1>19
  <2> QED BY <1>3, <1>12, <1>13, <1>14, <1>17, <1>18, <1>25, <2>1, Zenon DEF IsRecord
<1> QED BY <1>4, <1>27, <1>28, Zenon DEF n

(***************************************************************************)
(* What one fault leaves of a file                                         *)
(***************************************************************************)
(* A record of g that f has too is as true there as here.                  *)
LEMMA FoundAgain ==
  ASSUME NEW m, NEW f, Len(f) \in Nat, NEW g, Len(g) \in Nat, Fine(m, f), NEW i,
         Readable(g, i), Stop(g, i) <= Len(f), \A k \in i .. Stop(g, i) : f[k] = g[k]
  PROVE  Faithful(m, g, i)
<1> DEFINE s == Stop(g, i)
<1>1. i \in Nat /\ i >= 1 /\ s \in Nat /\ s <= Len(f) /\ s <= Len(g) /\ i <= s
  <2>1. i \in Nat /\ i >= 1 /\ i + 5 <= s /\ s <= Len(g) /\ s \in Nat
    BY RecordParts, Zenon
  <2> HIDE DEF s
  <2>2. i <= s
    BY <2>1
  <2> QED BY <2>1, <2>2 DEF s
<1>2. \A k \in i .. s : k + 0 = k /\ f[k + 0] = g[k]
  <2> TAKE k \in i .. s
  <2>1. k + 0 = k
    BY <1>1
  <2> QED BY <2>1
<1>3. 0 \in Int /\ i = i + 0 /\ s + 0 <= Len(f)
  <2> HIDE DEF s
  <2> QED BY <1>1
<1>4. SameAs(f, i, g, i)
  BY <1>1, <1>2, <1>3, SameRecord, Zenon
<1>5. Readable(f, i) /\ Stop(f, i) - i = s - i
  BY <1>4, Zenon DEF SameAs
<1>6. Stop(f, i) = s
  <2>1. Stop(f, i) \in Nat
    BY <1>5, RecordParts, Zenon
  <2> HIDE DEF s
  <2> QED BY <1>1, <1>5, <2>1
<1>7. Faithful(m, f, i)
  BY <1>5, Zenon DEF Fine
<1>8. SameAs(g, i, f, i)
  <2>1. \A k \in i .. Stop(f, i) : g[k + 0] = f[k]
    <3> TAKE k \in i .. Stop(f, i)
    <3>1. k \in i .. s /\ k + 0 = k
      BY <1>1, <1>6
    <3> QED BY <1>2, <3>1
  <2>2. Stop(f, i) + 0 <= Len(g)
    <3> HIDE DEF s
    <3> QED BY <1>1, <1>6
  <2> QED BY <1>1, <1>3, <1>5, <2>1, <2>2, SameRecord, Zenon
<1> QED BY <1>7, <1>8, Zenon DEF SameAs

LEMMA CutFine ==
  ASSUME NEW m, NEW f \in Seq(Token), Fine(m, f), NEW n \in Nat, n <= Len(f)
  PROVE  SubSeq(f, 1, n) \in Seq(Token) /\ Fine(m, SubSeq(f, 1, n))
<1> DEFINE g == SubSeq(f, 1, n)
<1>1. Len(f) \in Nat /\ \A k \in 1 .. Len(f) : f[k] \in Token
  BY LenProperties
<1>2. g \in Seq(Token) /\ Len(g) = n /\ \A k \in 1 .. n : g[k] = f[k]
  <2>1. \A k \in 0 + 1 .. n : f[k] \in Token
    BY <1>1
  <2>2. 0 \in Int /\ n = 0 + n /\ n \in Int
    OBVIOUS
  <2>3. IsPiece(SubSeq(f, 0 + 1, n), Token, f, 0, n)
    BY <2>1, <2>2, PieceOf, Zenon
  <2>4. \A k \in 1 .. n : 0 + k = k
    OBVIOUS
  <2>5. 0 + 1 = 1
    OBVIOUS
  <2>6. IsPiece(g, Token, f, 0, n)
    BY <2>3, <2>5
  <2> HIDE DEF g
  <2> QED BY <2>4, <2>6 DEF IsPiece
<1> HIDE DEF g
<1>3. ASSUME NEW i, Readable(g, i) PROVE Faithful(m, g, i)
  <2> DEFINE s == Stop(g, i)
  <2>1. Len(g) \in Nat
    BY <1>2
  <2>2. i \in Nat /\ i >= 1 /\ s \in Nat /\ s <= Len(g)
    BY <1>3, <2>1, RecordParts, Zenon
  <2> HIDE DEF s
  <2>3. s <= Len(f) /\ \A k \in i .. s : f[k] = g[k]
    <3>1. \A k \in i .. s : k \in 1 .. n
      BY <1>2, <2>2
    <3> QED BY <1>1, <1>2, <2>2, <3>1
  <2> QED BY <1>1, <1>3, <2>1, <2>3, FoundAgain, Zenon DEF s
<1> QED BY <1>2, <1>3, Zenon DEF Fine, g

Replaced(g, S, f, p, e) ==
  /\ g \in Seq(S) /\ Len(g) = Len(f) /\ g[p] = e
  /\ \A k \in 1 .. Len(f) : k # p => g[k] = f[k]

LEMMA ReplacedSeq ==
  ASSUME NEW S, NEW f \in Seq(S), NEW p \in 1 .. Len(f), NEW e \in S
  PROVE  Replaced([f EXCEPT ![p] = e], S, f, p, e)
<1> DEFINE g == [f EXCEPT ![p] = e]
<1>1. /\ g \in Seq(S) /\ Len(g) = Len(f)
      /\ \A k \in 1 .. Len(f) : g[k] = IF k = p THEN e ELSE f[k]
  BY ExceptSeq
<1> HIDE DEF g
<1>2. g[p] = e /\ \A k \in 1 .. Len(f) : k # p => g[k] = f[k]
  BY <1>1
<1> QED BY <1>1, <1>2, Zenon DEF Replaced, g

(* A place that is no byte is in no record.                                *)
LEMMA GarbledFine ==
  ASSUME NEW m, NEW f \in Seq(Token), Fine(m, f), NEW p \in 1 .. Len(f)
  PROVE  [f EXCEPT ![p] = -2] \in Seq(Token) /\ Fine(m, [f EXCEPT ![p] = -2])
<1> DEFINE g == [f EXCEPT ![p] = -2]
<1>1. Len(f) \in Nat
  BY LenProperties
<1>2. /\ g \in Seq(Token) /\ Len(g) = Len(f) /\ g[p] = -2
      /\ \A k \in 1 .. Len(f) : k # p => g[k] = f[k]
  <2>1. -2 \in Token
    BY DEF Token
  <2>2. Replaced(g, Token, f, p, -2)
    BY <2>1, ReplacedSeq, Zenon
  <2> QED BY <2>2 DEF Replaced
<1> HIDE DEF g
<1>3. ASSUME NEW i, Readable(g, i) PROVE Faithful(m, g, i)
  <2> DEFINE s == Stop(g, i)
  <2>1. Len(g) \in Nat
    BY <1>1, <1>2
  <2>2. i \in Nat /\ i >= 1 /\ s \in Nat /\ s <= Len(g)
    BY <1>3, <2>1, RecordParts, Zenon
  <2>3. g[i] = -1 /\ \A j \in i + 1 .. s : g[j] \in Octet
    BY <1>3, Zenon DEF Readable
  <2> HIDE DEF s
  <2>4. p \notin i .. s
    <3> SUFFICES ASSUME p \in i .. s PROVE FALSE
      OBVIOUS
    <3>1. CASE p = i
      BY <1>2, <2>3, <3>1
    <3>2. CASE p # i
      <4>1. p \in i + 1 .. s
        BY <2>2, <3>2
      <4> QED BY <1>2, <2>3, <4>1, OctetIs
    <3> QED BY <3>1, <3>2
  <2>5. s <= Len(f) /\ \A k \in i .. s : f[k] = g[k]
    <3>1. \A k \in i .. s : k \in 1 .. Len(f) /\ k # p
      BY <1>1, <1>2, <2>2, <2>4
    <3> QED BY <1>2, <2>2, <3>1
  <2> QED BY <1>1, <1>3, <2>1, <2>5, FoundAgain, Zenon DEF s
<1> QED BY <1>2, <1>3, Zenon DEF Fine, g

(* A byte that is another one is found out by the checksum, or it is the   *)
(* length: a longer record runs into the next mark, a shorter one is the   *)
(* beginning of what was written.                                          *)
LEMMA ChangedFine ==
  ASSUME NEW m, NEW f, AllLines(m, f), NEW p \in 1 .. Len(f), f[p] \in Octet,
         NEW b \in Octet, f[p] # b
  PROVE  [f EXCEPT ![p] = b] \in Seq(Token) /\ Fine(m, [f EXCEPT ![p] = b])
<1> DEFINE g == [f EXCEPT ![p] = b]
<1>1. f \in Seq(Token) /\ \A i \in 1 .. Len(f) : f[i] = -1 => GoodLine(m, f, i)
  BY Zenon DEF AllLines
<1>2. Len(f) \in Nat
  BY <1>1, LenProperties, Zenon
<1>3. /\ g \in Seq(Token) /\ Len(g) = Len(f) /\ g[p] = b
      /\ \A k \in 1 .. Len(f) : k # p => g[k] = f[k]
  <2>1. b \in Token
    BY DEF Token
  <2>2. Replaced(g, Token, f, p, b)
    BY <1>1, <2>1, ReplacedSeq, Zenon
  <2> QED BY <2>2, Zenon DEF Replaced
<1> HIDE DEF g
<1>4. ASSUME NEW i, Readable(g, i) PROVE Faithful(m, g, i)
  <2> DEFINE s == Stop(g, i)  n == g[i + 1]
  <2>1. Len(g) \in Nat
    BY <1>2, <1>3
  <2>2. /\ i \in Nat /\ i >= 1 /\ n \in Nat /\ s \in Nat /\ s = i + 5 + n /\ s <= Len(g)
        /\ IsPiece(Raw(g, i), Octet, g, i, 4 + n)
    BY <1>4, <2>1, RecordParts, Zenon
  <2>3. g[i] = -1 /\ g[s] = Hex!Checksum(Raw(g, i)) /\ \A j \in i + 1 .. s : g[j] \in Octet
    BY <1>4, Zenon DEF Readable
  <2> HIDE DEF s, n
  <2>4. CASE p \notin i .. s
    <3>1. s <= Len(f) /\ \A k \in i .. s : f[k] = g[k]
      <4>1. \A k \in i .. s : k \in 1 .. Len(f) /\ k # p
        BY <1>2, <1>3, <2>2, <2>4
      <4> QED BY <1>3, <2>2, <4>1
    <3>2. Fine(m, f)
      BY WholeLinesAreFine, Zenon
    <3> QED BY <1>2, <1>4, <2>1, <3>1, <3>2, FoundAgain, Zenon DEF s
  <2>5. CASE p \in i .. s
    <3> DEFINE t == Stop(f, i)  l == f[i + 1]
    <3>1. p # i /\ i \in 1 .. Len(f)
      <4>1. b # -1
        BY OctetIs
      <4> QED BY <1>2, <1>3, <2>2, <2>3, <4>1
    <3>2. f[i] = -1
      BY <1>3, <2>3, <3>1
    <3>3. GoodLine(m, f, i)
      BY <1>1, <3>1, <3>2
    <3>4. Readable(f, i) /\ Faithful(m, f, i) /\ Boundary(f, t + 1)
      BY <3>3, Zenon DEF GoodLine
    <3>5. /\ l \in Nat /\ t \in Nat /\ t = i + 5 + l /\ t <= Len(f)
          /\ IsPiece(Raw(f, i), Octet, f, i, 4 + l)
      BY <1>2, <3>4, RecordParts, Zenon
    <3>6. f[t] = Hex!Checksum(Raw(f, i)) /\ (t + 1 <= Len(f) => f[t + 1] = -1)
      BY <3>4, Zenon DEF Readable, Boundary
    <3>7. CASE p = i + 1
      <4>1. n = b
        BY <1>3, <3>7 DEF n
      <4>2. n <= l
        <5> SUFFICES ASSUME n > l PROVE FALSE
          <6> HIDE DEF l
          <6> QED BY <2>2, <3>5
        <5>1. t + 1 \in i + 1 .. s /\ t + 1 \in 1 .. Len(f) /\ t + 1 # p /\ t + 1 <= Len(f)
          <6> HIDE DEF t, l
          <6> QED BY <1>2, <1>3, <2>2, <3>5, <3>7
        <5>2. g[t + 1] \in Octet /\ g[t + 1] = f[t + 1] /\ f[t + 1] = -1
          BY <1>3, <2>3, <3>6, <5>1, Zenon
        <5> QED BY <5>2, OctetIs
      <4>3. g[i + 2] = f[i + 2] /\ g[i + 3] = f[i + 3] /\ g[i + 4] = f[i + 4]
        <5> HIDE DEF t, l
        <5>1. /\ i + 2 \in 1 .. Len(f) /\ i + 3 \in 1 .. Len(f) /\ i + 4 \in 1 .. Len(f)
              /\ i + 2 # p /\ i + 3 # p /\ i + 4 # p
          BY <1>2, <2>2, <3>5, <3>7
        <5> QED BY <1>3, <5>1, Zenon
      <4>4. At(g, i) = At(f, i)
        BY <4>3, Zenon DEF At
      <4> SUFFICES ASSUME g[i + 4] = 0, NEW k \in 0 .. g[i + 1] - 1
                   PROVE  /\ At(g, i) + k < Len(m.valid) /\ m.valid[(At(g, i) + k) + 1]
                          /\ m.data[(At(g, i) + k) + 1] = g[(i + 5) + k]
        BY Zenon DEF Faithful
      <4>5. k \in 0 .. n - 1
        BY DEF n
      <4>6. k \in 0 .. l - 1 /\ (i + 5) + k \in 1 .. Len(f) /\ (i + 5) + k # p
        <5> HIDE DEF t, l
        <5> QED BY <1>2, <2>2, <3>5, <3>7, <4>2, <4>5
      <4>7. /\ At(f, i) + k < Len(m.valid) /\ m.valid[(At(f, i) + k) + 1]
            /\ m.data[(At(f, i) + k) + 1] = f[(i + 5) + k]
        BY <3>4, <4>3, <4>6, Zenon DEF Faithful
      <4>8. g[(i + 5) + k] = f[(i + 5) + k]
        BY <1>3, <4>6, Zenon
      <4> QED BY <4>4, <4>7, <4>8, Zenon
    <3>8. CASE p # i + 1
      <4>1. i + 1 \in 1 .. Len(f)
        <5> HIDE DEF t, l
        <5> QED BY <1>2, <2>2, <3>5
      <4>2. n = l
        BY <1>3, <3>8, <4>1 DEF n
      <4> HIDE DEF t, l
      <4>3. t = s /\ IsPiece(Raw(f, i), Octet, f, i, 4 + n)
        BY <2>2, <3>5, <4>2
      <4>4. CASE p = s
        <5>1. Alike(f, i, g, i, 4 + n)
          <6>1. ASSUME NEW k \in 1 .. 4 + n PROVE f[i + k] = g[i + k]
            <7>1. i + k \in 1 .. Len(f) /\ i + k # p
              BY <1>2, <1>3, <2>2, <4>4
            <7> QED BY <1>3, <7>1
          <6> QED BY <6>1, Zenon DEF Alike
        <5>2. i \in Int /\ 4 + n \in Nat
          BY <2>2
        <5>3. Raw(f, i) = Raw(g, i)
          BY <2>2, <4>3, <5>1, <5>2, SamePiece, Zenon
        <5>4. f[s] = g[s]
          BY <2>3, <3>6, <4>3, <5>3
        <5> QED BY <1>3, <4>4, <5>4
      <4>5. CASE p # s
        <5> DEFINE x == Raw(f, i)  y == Raw(g, i)  k == p - i
        <5>1. /\ x \in Seq(Octet) /\ y \in Seq(Octet) /\ Len(x) = 4 + n /\ Len(y) = 4 + n
              /\ \A j \in 1 .. 4 + n : x[j] = f[i + j] /\ y[j] = g[i + j]
          BY <2>2, <4>3, Zenon DEF IsPiece
        <5>2. k \in 1 .. 4 + n /\ i + k = p
          BY <1>2, <2>2, <2>5, <3>1, <4>5
        <5> HIDE DEF x, y, k
        <5>3. x[k] # y[k]
          BY <1>3, <5>1, <5>2
        <5>4. \A j \in 1 .. 4 + n : j # k => x[j] = y[j]
          <6> TAKE j \in 1 .. 4 + n
          <6>1. ASSUME j # k PROVE f[i + j] = g[i + j]
            <7>1. i + j \in 1 .. Len(f) /\ i + j # p
              BY <1>2, <1>3, <2>2, <5>2, <6>1
            <7> QED BY <1>3, <7>1
          <6> QED BY <5>1, <6>1
        <5>5. Hex!Checksum(x) # Hex!Checksum(y)
          <6>1. Len(x) = Len(y) /\ k \in 1 .. Len(x) /\ \A j \in 1 .. Len(x) : j # k => x[j] = y[j]
            BY <5>1, <5>2, <5>4
          <6> QED BY <5>1, <5>3, <6>1, ChecksumsDiffer, Zenon
        <5>6. s \in 1 .. Len(f)
          BY <1>2, <1>3, <2>2
        <5>7. f[s] = g[s]
          BY <1>3, <4>5, <5>6
        <5> QED BY <2>3, <3>6, <4>3, <5>5, <5>7 DEF x, y
      <4> QED BY <4>4, <4>5
    <3> QED BY <3>7, <3>8
  <2> QED BY <2>4, <2>5
<1> QED BY <1>3, <1>4, Zenon DEF Fine, g

(***************************************************************************)
(* The operators of ByteMemory have a name in each instance.               *)
(***************************************************************************)
LEMMA HexMin == \A S : Hex!Min(S) = Ops!Min(S)
BY Zenon DEF Hex!Min, Ops!Min

LEMMA HexMax == \A S : Hex!Max(S) = Ops!Max(S)
BY Zenon DEF Hex!Max, Ops!Max

LEMMA HexSlice == \A s, i, j : Hex!Slice(s, i, j) = Ops!Slice(s, i, j)
BY HexMin, Zenon DEF Hex!Slice, Ops!Slice

LEMMA HexSplice == \A s, i, j, new : Hex!Splice(s, i, j, new) = Ops!Splice(s, i, j, new)
BY HexMin, HexMax, Zenon DEF Hex!Splice, Ops!Splice

LEMMA HexDone ==
  /\ \A e, m : Hex!Raise(e, m) = Ops!Raise(e, m)
  /\ \A m : Hex!Done(m) = Ops!Done(m)
BY Zenon DEF Hex!Raise, Ops!Raise, Hex!Done, Ops!Done

LEMMA HexFilled == \A n, v : Hex!Filled(n, v) = Ops!Filled(n, v)
BY Zenon DEF Hex!Filled, Ops!Filled

LEMMA HexSetSlice == \A m, i, j, new : Hex!SetSlice(m, i, j, new) = Ops!SetSlice(m, i, j, new)
<1>1. \A m, i, j : Hex!SliceHas(m, i, j, TRUE) = Ops!SliceHas(m, i, j, TRUE)
  BY HexSlice, Zenon DEF Hex!SliceHas, Ops!SliceHas
<1>2. \A i, j : Hex!SliceLen(i, j) = Ops!SliceLen(i, j)
  BY HexMax, Zenon DEF Hex!SliceLen, Ops!SliceLen
<1> QED BY <1>1, <1>2, HexDone, HexFilled, HexSplice, ZenonT(40) DEF Hex!SetSlice, Ops!SetSlice

LEMMA HexFind ==
  /\ \A m, v, from : Hex!Find(m, v, from) = Ops!Find(m, v, from)
  /\ \A m, v : Hex!RFind(m, v) = Ops!RFind(m, v)
BY HexMin, HexMax, Zenon DEF Hex!Find, Ops!Find, Hex!RFind, Ops!RFind

LEMMA HexNextValidRange ==
  \A m, first : Hex!NextValidRange(m, first) = Ops!NextValidRange(m, first)
BY HexFind, Zenon DEF Hex!NextValidRange, Ops!NextValidRange

LEMMA HexTruncate == \A m : Hex!Truncate(m) = Ops!Truncate(m)
<1>1. \A m, last : Hex!TruncateTo(m, last) = Ops!TruncateTo(m, last)
  BY HexDone, HexSlice, Zenon DEF Hex!TruncateTo, Ops!TruncateTo
<1> QED BY <1>1, HexDone, HexFind, Zenon DEF Hex!Truncate, Ops!Truncate

LEMMA HexMemory == \A size, once : Hex!Memory(size, once) = Ops!Memory(size, once)
BY HexFilled, Zenon DEF Hex!Memory, Ops!Memory

(***************************************************************************)
(* A line lost, repeated or exchanged with the next leaves whole lines.    *)
(***************************************************************************)
LEMMA LineEndIs ==
  ASSUME file \in Seq(Token), NEW i \in 1 .. Len(file)
  PROVE  /\ Hex!LineEnd(i) \in Nat /\ i <= Hex!LineEnd(i) /\ Hex!LineEnd(i) <= Len(file)
         /\ Boundary(file, Hex!LineEnd(i) + 1)
<1> DEFINE z == Len(file)  T == {j \in Hex!Marks : j > i}  e == Hex!LineEnd(i)
<1>1. z \in Nat /\ i \in 1 .. z
  BY LenProperties
<1>2. /\ (\E j \in Hex!Marks : j > i) => e = Hex!Min(T) - 1
      /\ ~(\E j \in Hex!Marks : j > i) => e = z
  BY Zenon DEF Hex!LineEnd
<1>3. \A j : j \in Hex!Marks <=> j \in 1 .. z /\ file[j] = -1
  BY Zenon DEF Hex!Marks, Hex!Mark
<1>4. T \subseteq Nat
  BY <1>3
<1> HIDE DEF e
<1>5. CASE \E j \in Hex!Marks : j > i
  <2> DEFINE k == Hex!Min(T)
  <2>1. T # {}
    BY <1>5
  <2>2. k \in T
    BY <1>4, <2>1, HexMin, MinOfSet, Zenon
  <2> HIDE DEF k
  <2>3. k \in 1 .. z /\ file[k] = -1 /\ k > i /\ e = k - 1
    BY <1>2, <1>3, <1>5, <2>2, Zenon DEF k
  <2> HIDE DEF T, z
  <2>4. e \in Nat /\ i <= e /\ e <= z /\ e + 1 = k /\ k \in Nat /\ k >= 1 /\ k <= z + 1
    BY <1>1, <2>3
  <2> QED BY <2>3, <2>4, Zenon DEF z, e, Boundary
<1>6. CASE ~(\E j \in Hex!Marks : j > i)
  <2>1. e = z
    BY <1>2, <1>6
  <2> HIDE DEF z
  <2>2. e \in Nat /\ i <= e /\ e <= z /\ e + 1 \in Nat /\ e + 1 >= 1 /\ e + 1 <= z + 1 /\ ~(e + 1 <= z)
    BY <1>1, <2>1
  <2> QED BY <2>2, Zenon DEF z, e, Boundary
<1> QED BY <1>5, <1>6

(* Places of a file where a line begins or ends.                           *)
LEMMA Edges ==
  ASSUME NEW m, AllLines(m, file), NEW i \in Hex!Marks
  PROVE  /\ i \in 1 .. Len(file) /\ i \in Nat /\ Len(file) \in Nat
         /\ Boundary(file, 1) /\ Boundary(file, i) /\ Boundary(file, Len(file) + 1)
<1>1. file \in Seq(Token) /\ Boundary(file, 1)
  BY Zenon DEF AllLines
<1>2. Len(file) \in Nat
  BY <1>1, LenProperties, Zenon
<1>3. i \in 1 .. Len(file) /\ file[i] = -1
  BY Zenon DEF Hex!Marks, Hex!Mark
<1>4. Boundary(file, i) /\ Boundary(file, Len(file) + 1)
  BY <1>2, <1>3 DEF Boundary
<1> QED BY <1>1, <1>2, <1>3, <1>4

LEMMA LinesMoved ==
  ASSUME NEW m, AllLines(m, file), NEW i \in Hex!Marks, NEW e, e = Hex!LineEnd(i)
  PROVE  /\ AllLines(m, SubSeq(file, 1, i - 1)) /\ AllLines(m, SubSeq(file, 1, e))
         /\ AllLines(m, SubSeq(file, i, e))
         /\ AllLines(m, SubSeq(file, e + 1, Len(file))) /\ AllLines(m, SubSeq(file, i, Len(file)))
<1> DEFINE z == Len(file)
<1>1. /\ i \in 1 .. z /\ i \in Nat /\ z \in Nat
      /\ Boundary(file, 1) /\ Boundary(file, i) /\ Boundary(file, z + 1)
  BY Edges, Zenon
<1>2. file \in Seq(Token)
  BY Zenon DEF AllLines
<1>3. e \in Nat /\ i <= e /\ e <= z /\ Boundary(file, e + 1)
  BY <1>1, <1>2, LineEndIs, Zenon
<1> HIDE DEF z
<1>4. /\ e = (e + 1) - 1 /\ z = (z + 1) - 1
      /\ 1 <= i /\ 1 <= e + 1 /\ i <= e + 1 /\ e + 1 <= z + 1 /\ i <= z + 1
  BY <1>1, <1>3
<1>5. AllLines(m, SubSeq(file, 1, i - 1)) /\ AllLines(m, SubSeq(file, 1, e))
  BY <1>1, <1>3, <1>4, LinesBetween, Zenon
<1>6. AllLines(m, SubSeq(file, i, e)) /\ AllLines(m, SubSeq(file, e + 1, z))
  BY <1>1, <1>3, <1>4, LinesBetween, Zenon
<1>7. AllLines(m, SubSeq(file, i, z))
  BY <1>1, <1>3, <1>4, LinesBetween, Zenon
<1> QED BY <1>5, <1>6, <1>7, Zenon DEF z

(* One fault leaves a file of which no record that can be read is false.   *)
LEMMA DamageFine ==
  ASSUME AllLines(mem, file), Hex!Damage
  PROVE  file' \in Seq(Token) /\ Fine(mem, file')
<1>1. file \in Seq(Token) /\ Fine(mem, file)
  BY WholeLinesAreFine, Zenon DEF AllLines
<1>2. Len(file) \in Nat
  BY <1>1, LenProperties, Zenon
<1>3. ASSUME NEW n \in 0 .. Len(file) - 1, file' = SubSeq(file, 1, n)
      PROVE  file' \in Seq(Token) /\ Fine(mem, file')
  <2>1. n \in Nat /\ n <= Len(file)
    BY <1>2
  <2> QED BY <1>1, <1>3, <2>1, CutFine, Zenon
<1>4. ASSUME NEW i \in 1 .. Len(file), NEW b \in 0 .. ByteMod - 1, file[i] >= 0, file[i] # b,
             file' = [file EXCEPT ![i] = b]
      PROVE  file' \in Seq(Token) /\ Fine(mem, file')
  <2>1. b \in Octet
    BY Zenon DEF Octet
  <2>2. file[i] \in Octet
    <3>1. file[i] \in Token
      BY <1>1, ElementOfSeq, Zenon
    <3> QED BY <1>4, <3>1 DEF Token
  <2> QED BY <1>4, <2>1, <2>2, ChangedFine, Zenon
<1>5. ASSUME NEW i \in 1 .. Len(file), file' = [file EXCEPT ![i] = -2]
      PROVE  file' \in Seq(Token) /\ Fine(mem, file')
  BY <1>1, <1>5, GarbledFine, Zenon
<1>6. ASSUME AllLines(mem, file') PROVE file' \in Seq(Token) /\ Fine(mem, file')
  BY <1>6, WholeLinesAreFine, Zenon DEF AllLines
<1>7. ASSUME NEW i \in Hex!Marks,
             file' = SubSeq(file, 1, i - 1) \o SubSeq(file, Hex!LineEnd(i) + 1, Len(file))
      PROVE  AllLines(mem, file')
  BY <1>7, LinesMoved, LinesJoined, Zenon
<1>8. ASSUME NEW i \in Hex!Marks,
             file' = SubSeq(file, 1, Hex!LineEnd(i)) \o SubSeq(file, i, Len(file))
      PROVE  AllLines(mem, file')
  BY <1>8, LinesMoved, LinesJoined, Zenon
<1>9. ASSUME NEW i \in Hex!Marks, Hex!LineEnd(i) < Len(file), NEW j, j = Hex!LineEnd(i) + 1,
             file' = SubSeq(file, 1, i - 1) \o Hex!Line(j) \o Hex!Line(i)
                       \o SubSeq(file, Hex!LineEnd(j) + 1, Len(file))
      PROVE  AllLines(mem, file')
  <2>1. i \in 1 .. Len(file)
    BY Edges, Zenon
  <2>2. Hex!LineEnd(i) \in Nat /\ Boundary(file, j)
    BY <1>1, <1>9, <2>1, LineEndIs, Zenon
  <2>3. j \in 1 .. Len(file) /\ j <= Len(file)
    BY <1>2, <1>9, <2>2
  <2>4. j \in Hex!Marks
    BY <2>2, <2>3, Zenon DEF Boundary, Hex!Marks, Hex!Mark
  <2>5. AllLines(mem, SubSeq(file, 1, i - 1)) /\ AllLines(mem, Hex!Line(i))
    BY LinesMoved, Zenon DEF Hex!Line
  <2>6. AllLines(mem, Hex!Line(j)) /\ AllLines(mem, SubSeq(file, Hex!LineEnd(j) + 1, Len(file)))
    BY <2>4, LinesMoved, Zenon DEF Hex!Line
  <2>7. AllLines(mem, SubSeq(file, 1, i - 1) \o Hex!Line(j))
    BY <2>5, <2>6, LinesJoined, Zenon
  <2>8. AllLines(mem, (SubSeq(file, 1, i - 1) \o Hex!Line(j)) \o Hex!Line(i))
    BY <2>5, <2>7, LinesJoined, Zenon
  <2> QED BY <1>9, <2>6, <2>8, LinesJoined, Zenon
<1> QED BY <1>3, <1>4, <1>5, <1>6, <1>7, <1>8, <1>9, Zenon
     DEF Hex!Damage, Hex!Garbage

(***************************************************************************)
(* The ranges that are written                                             *)
(***************************************************************************)
FirstAt(m, v, from, k) ==
  \/ k = -1 /\ \A i \in from .. Len(m.valid) - 1 : ~(m.valid[i + 1] = v)
  \/ /\ k \in from .. Len(m.valid) - 1 /\ m.valid[k + 1] = v
     /\ \A i \in from .. k - 1 : ~(m.valid[i + 1] = v)

LEMMA FindsFirst ==
  ASSUME NEW m, IsMemory(m), NEW v, NEW from \in Nat
  PROVE  FirstAt(m, v, from, Ops!Find(m, v, from))
<1> DEFINE n == Len(m.valid)  T == {i \in from .. n - 1 : m.valid[i + 1] = v}
           k == Ops!Find(m, v, from)
<1>1. n \in Nat
  BY MemoryParts
<1>2. /\ T = {} => k = -1
      /\ T # {} => k = Ops!Min(T) /\ Ops!Min(T) \in T /\ \A y \in T : Ops!Min(T) <= y
  <2>1. \A i \in T : i \in from .. n - 1 /\ m.valid[i + 1] = v
    OBVIOUS
  <2>2. \A i \in from .. n - 1 : m.valid[i + 1] = v => i \in T
    OBVIOUS
  <2> HIDE DEF T
  <2> QED BY <2>1, <2>2, FindIs, Zenon
<1> HIDE DEF k
<1>3. CASE T = {}
  <2>1. \A i \in from .. n - 1 : ~(m.valid[i + 1] = v)
    BY <1>3, Zenon
  <2> QED BY <1>2, <1>3, <2>1, Zenon DEF FirstAt, k
<1>4. CASE T # {}
  <2>1. k \in T /\ \A y \in T : k <= y
    BY <1>2, <1>4, Zenon
  <2>2. k \in from .. n - 1 /\ m.valid[k + 1] = v
    BY <2>1, Zenon
  <2>3. ASSUME NEW i \in from .. k - 1 PROVE ~(m.valid[i + 1] = v)
    <3>1. i \in from .. n - 1 /\ ~(k <= i)
      BY <1>1, <2>2
    <3>2. i \notin T
      <4> HIDE DEF T
      <4> QED BY <2>1, <3>1
    <3> QED BY <3>1, <3>2, Zenon
  <2> QED BY <2>2, <2>3, Zenon DEF FirstAt, k
<1> QED BY <1>3, <1>4

(* What next_valid_range answers.  Only of a memory whose last byte is     *)
(* valid it may be an empty range, the last byte's place.                  *)
RangeFrom(m, first, r) ==
  \/ r.exc = "Uninitialized" /\ \A a \in first .. Len(m.valid) - 1 : ~m.valid[a + 1]
  \/ /\ r.exc = "ok" /\ r.start \in Nat /\ r.stop \in Nat
     /\ first <= r.start /\ r.start <= r.stop /\ r.stop <= Len(m.valid)
     /\ r.start < Len(m.valid)
     /\ \A a \in r.start .. r.stop - 1 : m.valid[a + 1]
     /\ \A a \in first .. r.start - 1 : ~m.valid[a + 1]
     /\ r.start < r.stop \/ m.valid[Len(m.valid)]

LEMMA RangeIs ==
  ASSUME NEW m, IsMemory(m), m.size = Len(m.valid), NEW first \in Nat
  PROVE  RangeFrom(m, first, Hex!NextValidRange(m, first))
<1> DEFINE n == Len(m.valid)  r == Hex!NextValidRange(m, first)
           begin == Ops!Find(m, TRUE, first)
           end == Ops!Find(m, FALSE, begin + 1)
<1>1. n \in Nat /\ m.valid \in [1 .. n -> BOOLEAN]
  BY MemoryParts
<1>2. \A i \in 0 .. n - 1 : m.valid[i + 1] \in BOOLEAN
  BY <1>1
<1>3. /\ begin < 0 => r = [exc |-> "Uninitialized"]
      /\ ~(begin < 0) => r = [exc |-> "ok", start |-> begin,
                              stop |-> IF end < 0 THEN n - 1 ELSE end]
  <2>1. m.size = n
    OBVIOUS
  <2> HIDE DEF n
  <2> QED BY <2>1, HexNextValidRange, Zenon DEF Ops!NextValidRange
<1>4. FirstAt(m, TRUE, first, begin)
  <2> DEFINE v == TRUE
  <2>1. begin = Ops!Find(m, v, first)
    OBVIOUS
  <2> HIDE DEF v, begin
  <2>2. FirstAt(m, v, first, begin)
    BY <2>1, FindsFirst, Zenon
  <2> QED BY <2>2 DEF v
<1> DEFINE k == begin
<1>5. \/ k = -1 /\ \A i \in first .. n - 1 : ~(m.valid[i + 1] = TRUE)
      \/ /\ k \in first .. n - 1 /\ m.valid[k + 1] = TRUE
         /\ \A i \in first .. k - 1 : ~(m.valid[i + 1] = TRUE)
  BY <1>4, Zenon DEF FirstAt
<1>6. CASE k = -1 /\ \A i \in first .. n - 1 : ~(m.valid[i + 1] = TRUE)
  <2>1. r = [exc |-> "Uninitialized"]
    <3> HIDE DEF r
    <3>1. k < 0
      <4> HIDE DEF k, begin
      <4> QED BY <1>6
    <3> QED BY <1>3, <3>1, Zenon
  <2> HIDE DEF r
  <2>2. r.exc = "Uninitialized"
    BY <2>1
  <2>3. \A a \in first .. n - 1 : ~m.valid[a + 1]
    BY <1>6, Zenon
  <2> QED BY <2>2, <2>3, Zenon DEF RangeFrom, r
<1>7. CASE /\ k \in first .. n - 1 /\ m.valid[k + 1] = TRUE
           /\ \A i \in first .. k - 1 : ~(m.valid[i + 1] = TRUE)
  <2> DEFINE e == end
  <2>1. FirstAt(m, FALSE, k + 1, e)
    <3>1. k + 1 \in Nat
      <4> HIDE DEF begin
      <4> QED BY <1>1, <1>7
    <3> DEFINE v == FALSE
    <3>2. e = Ops!Find(m, v, k + 1)
      OBVIOUS
    <3> HIDE DEF v, e, k, begin
    <3>3. FirstAt(m, v, k + 1, e)
      BY <3>1, <3>2, FindsFirst, Zenon
    <3> QED BY <3>3 DEF v
  <2>2. \/ e = -1 /\ \A i \in k + 1 .. n - 1 : ~(m.valid[i + 1] = FALSE)
        \/ /\ e \in k + 1 .. n - 1 /\ m.valid[e + 1] = FALSE
           /\ \A i \in k + 1 .. e - 1 : ~(m.valid[i + 1] = FALSE)
    BY <2>1, Zenon DEF FirstAt
  <2> HIDE DEF begin, end
  <2>3. k \in first .. n - 1 /\ ~(k < 0) /\ m.valid[k + 1]
    BY <1>1, <1>7
  <2>4. r = [exc |-> "ok", start |-> k, stop |-> IF e < 0 THEN n - 1 ELSE e]
    BY <1>3, <2>3, Zenon
  <2> HIDE DEF r
  <2> DEFINE s == r.stop
  <2>5. r.exc = "ok" /\ r.start = k /\ s = IF e < 0 THEN n - 1 ELSE e
    BY <2>4
  <2>6. \A a \in first .. k - 1 : ~m.valid[a + 1]
    BY <1>7, Zenon
  <2>7. CASE e = -1 /\ \A i \in k + 1 .. n - 1 : ~(m.valid[i + 1] = FALSE)
    <3>1. s = n - 1
      BY <2>5, <2>7
    <3>2. ASSUME NEW a \in k .. n - 1 PROVE m.valid[a + 1]
      <4>1. CASE a = k
        BY <2>3, <4>1
      <4>2. CASE a # k
        <5>1. a \in k + 1 .. n - 1 /\ a \in 0 .. n - 1
          BY <1>1, <2>3, <4>2
        <5> QED BY <1>2, <2>7, <5>1, Zenon
      <4> QED BY <4>1, <4>2
    <3> HIDE DEF s, k, e, n
    <3>3. \A a \in k .. s - 1 : a \in k .. n - 1
      BY <1>1, <2>3, <3>1
    <3>4. n - 1 \in k .. n - 1 /\ (n - 1) + 1 = n
      BY <1>1, <2>3
    <3>5. m.valid[n]
      <4>1. m.valid[(n - 1) + 1]
        BY <3>2, <3>4, Zenon
      <4> QED BY <3>4, <4>1
    <3>6. /\ k \in Nat /\ s \in Nat /\ first <= k /\ k <= s /\ s <= n /\ k < n
      BY <1>1, <2>3, <3>1
    <3>7. \A a \in k .. s - 1 : m.valid[a + 1]
      BY <3>2, <3>3, Zenon
    <3> QED BY <2>5, <2>6, <3>5, <3>6, <3>7, Zenon DEF RangeFrom, s, n, r
  <2>8. CASE /\ e \in k + 1 .. n - 1 /\ m.valid[e + 1] = FALSE
             /\ \A i \in k + 1 .. e - 1 : ~(m.valid[i + 1] = FALSE)
    <3>1. s = e
      <4>1. ~(e < 0)
        BY <1>1, <2>3, <2>8
      <4> QED BY <2>5, <4>1
    <3>2. ASSUME NEW a \in k .. s - 1 PROVE m.valid[a + 1]
      <4>1. CASE a = k
        BY <2>3, <4>1
      <4>2. CASE a # k
        <5>1. a \in k + 1 .. e - 1 /\ a \in 0 .. n - 1
          BY <1>1, <2>3, <2>8, <3>1, <4>2
        <5> QED BY <1>2, <2>8, <5>1, Zenon
      <4> QED BY <4>1, <4>2
    <3> HIDE DEF s, k, e, n
    <3>3. /\ k \in Nat /\ s \in Nat /\ first <= k /\ k < s /\ k <= s /\ s <= n /\ k < n
      BY <1>1, <2>3, <2>8, <3>1
    <3> QED BY <2>5, <2>6, <3>2, <3>3, Zenon DEF RangeFrom, s, n, r
  <2> QED BY <2>2, <2>7, <2>8
<1> QED BY <1>5, <1>6, <1>7

(***************************************************************************)
(* A record is stored.  One that ends within the memory reaches its own    *)
(* bytes and no other; one without data reaches none, wherever it is.      *)
(***************************************************************************)
IsOut(m) == IsMemory(m) /\ ~m.write_once

Stores(r, m, start, stop, new) ==
  /\ IsOut(r) /\ r.size = m.size
  /\ stop <= Len(m.valid) \/ Len(new) = 0 =>
       /\ Len(r.valid) = Len(m.valid)
       /\ \A i \in 1 .. Len(new) : r.data[start + i] = new[i] /\ r.valid[start + i]
       /\ \A i \in 1 .. Len(m.valid) :
            i <= start \/ i > stop => r.data[i] = m.data[i] /\ r.valid[i] = m.valid[i]

Replaces(t, S, s, new, start, stop, n, k) ==
  /\ t \in Seq(S)
  /\ stop <= n => Len(t) = n
  /\ k = 0 => Len(t) = n
  /\ stop > n /\ start <= n => Len(t) = stop
  /\ start > n => Len(t) = n + k
  /\ stop <= n => \A i \in 1 .. k : t[start + i] = new[i]
  /\ stop <= n \/ k = 0 => \A i \in 1 .. n : i <= start \/ i > stop => t[i] = s[i]

LEMMA ReslicedParts ==
  ASSUME NEW t, NEW S, NEW s \in Seq(S), NEW new \in Seq(S), NEW start \in Nat, NEW stop \in Nat,
         NEW k, k = Len(new), stop = start + k, NEW lo \in Nat, NEW hi \in Nat,
         Resliced(t, S, s, new, start, stop, lo, hi), NEW n, n = Len(s)
  PROVE  Replaces(t, S, s, new, start, stop, n, k)
<1>1. n \in Nat /\ k \in Nat
  BY LenProperties
<1>2. /\ lo <= hi /\ hi <= n
      /\ start <= n => lo = start
      /\ start > n => lo = n
      /\ start <= stop /\ stop <= n => hi = stop
      /\ stop > n => hi = n
  BY Zenon DEF Resliced
<1>3. /\ t \in Seq(S) /\ Len(t) = lo + k + (n - hi)
      /\ \A i \in 1 .. lo : t[i] = s[i]
      /\ \A i \in 1 .. k : t[lo + i] = new[i]
      /\ \A i \in hi + 1 .. n : t[lo + k + (i - hi)] = s[i]
  BY Zenon DEF Resliced, Middled
<1>4. stop = start + k
  OBVIOUS
<1>5. ASSUME stop <= n PROVE lo = start /\ hi = stop /\ Len(t) = n
  <2>1. start <= n /\ start <= stop
    BY <1>1, <1>4, <1>5
  <2>2. lo = start /\ hi = stop
    BY <1>2, <1>5, <2>1
  <2> QED BY <1>1, <1>3, <1>4, <2>2
<1>6. k = 0 => lo = hi /\ Len(t) = n
  BY <1>1, <1>2, <1>3, <1>4
<1>7. ASSUME stop > n, start <= n PROVE Len(t) = stop
  <2>1. lo = start /\ hi = n
    BY <1>2, <1>7
  <2> QED BY <1>1, <1>3, <1>4, <2>1
<1>8. start > n => Len(t) = n + k
  BY <1>1, <1>2, <1>3, <1>4
<1>9. ASSUME stop <= n, NEW i \in 1 .. k PROVE t[start + i] = new[i]
  BY <1>3, <1>5, <1>9
<1>10. ASSUME stop <= n \/ k = 0, NEW i \in 1 .. n, i <= start \/ i > stop PROVE t[i] = s[i]
  <2>1. CASE i <= lo
    <3>1. i \in 1 .. lo
      BY <2>1
    <3> QED BY <1>3, <3>1
  <2>2. CASE ~(i <= lo)
    <3>1. i \in hi + 1 .. n /\ lo + k + (i - hi) = i
      BY <1>1, <1>2, <1>4, <1>5, <1>6, <1>10, <2>2
    <3> QED BY <1>3, <3>1
  <2> QED BY <2>1, <2>2
<1> QED BY <1>3, <1>5, <1>6, <1>7, <1>8, <1>9, <1>10, Zenon DEF Replaces

LEMMA StoresRecord ==
  ASSUME NEW m, IsOut(m), NEW start \in Nat, NEW stop \in Nat, NEW new \in Seq(ByteValue),
         stop = start + Len(new)
  PROVE  Stores(Hex!SetSlice(m, start, stop, new).mem, m, start, stop, new)
<1> DEFINE r == Hex!SetSlice(m, start, stop, new)
           c == Ops!SliceLen(start, stop)  flags == Ops!Filled(c, TRUE)
           d == Ops!Splice(m.data, start, stop, new)
           v == Ops!Splice(m.valid, start, stop, flags)
           n == Len(m.valid)  k == Len(new)
<1>1. IsMemory(m) /\ ~m.write_once
  BY Zenon DEF IsOut
<1>2. /\ m.data \in Seq(ByteValue) /\ m.valid \in Seq(BOOLEAN) /\ Len(m.data) = n /\ n \in Nat
      /\ m.size \in Nat /\ m.size <= n /\ m.write_once \in BOOLEAN
  BY <1>1, MemoryParts
<1>3. k \in Nat /\ stop = start + k
  BY LenProperties
<1>4. r = Ops!Done(WithBoth(m, d, v))
  BY <1>1, HexSetSlice, Zenon DEF Ops!SetSlice, WithBoth
<1>5. r.mem = MemoryWith(d, v, m.size, m.write_once)
  <2> HIDE DEF r
  <2>1. r.mem = WithBoth(m, d, v)
    BY <1>4 DEF Ops!Done
  <2> QED BY <1>1, <2>1, BothReplaced, Zenon
<1> HIDE DEF r
<1>6. start \in Int /\ stop \in Int /\ (stop <= start => k = 0) /\ (stop > start => stop - start = k)
  <2> HIDE DEF k
  <2> QED BY <1>3
<1>7. flags \in Seq(BOOLEAN) /\ Len(flags) = k /\ \A i \in 1 .. k : flags[i]
  <2>1. /\ flags \in Seq(BOOLEAN)
        /\ stop <= start => Len(flags) = 0
        /\ stop > start => Len(flags) = stop - start
    BY <1>6, SliceFlags, Zenon
  <2>2. c \in Nat
    BY <1>6, SliceLength, Zenon
  <2>3. TRUE \in BOOLEAN
    OBVIOUS
  <2>4. \A i \in 1 .. c : flags[i] = TRUE
    <3> HIDE DEF c
    <3> QED BY <2>2, <2>3, FilledSeq, Zenon
  <2>5. Len(flags) = c
    <3> HIDE DEF c
    <3> QED BY <2>2, <2>3, FilledSeq, Zenon
  <2> HIDE DEF flags, k, c
  <2>6. Len(flags) = k
    BY <1>3, <1>6, <2>1
  <2> QED BY <2>1, <2>4, <2>5, <2>6, Zenon
<1> HIDE DEF flags
<1> HIDE DEF c
<1>8. PICK lo, hi \in Nat : Resliced(d, ByteValue, m.data, new, start, stop, lo, hi)
  BY <1>2, <1>6, SpliceKeeps, Zenon
<1>9. PICK lv, hv \in Nat : Resliced(v, BOOLEAN, m.valid, flags, start, stop, lv, hv)
  BY <1>2, <1>6, <1>7, SpliceKeeps, Zenon
<1> HIDE DEF d, v
<1>10. Replaces(d, ByteValue, m.data, new, start, stop, n, k)
  BY <1>2, <1>3, <1>8, ReslicedParts, Zenon
<1>11. Replaces(v, BOOLEAN, m.valid, flags, start, stop, n, k)
  BY <1>2, <1>3, <1>7, <1>9, ReslicedParts, Zenon
<1> HIDE DEF n, k
<1>10a. /\ d \in Seq(ByteValue)
        /\ stop <= n => Len(d) = n
        /\ k = 0 => Len(d) = n
        /\ stop > n /\ start <= n => Len(d) = stop
        /\ start > n => Len(d) = n + k
        /\ stop <= n => \A i \in 1 .. k : d[start + i] = new[i]
        /\ stop <= n \/ k = 0 => \A i \in 1 .. n : i <= start \/ i > stop => d[i] = m.data[i]
  BY <1>10, Zenon DEF Replaces
<1>11a. /\ v \in Seq(BOOLEAN)
        /\ stop <= n => Len(v) = n
        /\ k = 0 => Len(v) = n
        /\ stop > n /\ start <= n => Len(v) = stop
        /\ start > n => Len(v) = n + k
        /\ stop <= n => \A i \in 1 .. k : v[start + i] = flags[i]
        /\ stop <= n \/ k = 0 => \A i \in 1 .. n : i <= start \/ i > stop => v[i] = m.valid[i]
  BY <1>11, Zenon DEF Replaces
<1>12. Len(d) = Len(v) /\ m.size <= Len(d) /\ (stop <= n \/ k = 0 => Len(v) = n)
  <2> DEFINE x == Len(d)  y == Len(v)  z == m.size
  <2>1. /\ stop <= n => x = n /\ y = n
        /\ k = 0 => x = n /\ y = n
        /\ stop > n /\ start <= n => x = stop /\ y = stop
        /\ start > n => x = n + k /\ y = n + k
    BY <1>10a, <1>11a, Zenon
  <2>2. z \in Nat /\ z <= n
    BY <1>2
  <2> HIDE DEF x, y, z
  <2>3. x = y /\ z <= x /\ (stop <= n \/ k = 0 => y = n)
    BY <1>2, <1>3, <2>1, <2>2
  <2> QED BY <2>3 DEF x, y, z
<1> DEFINE q == MemoryWith(d, v, m.size, m.write_once)
<1>13. /\ IsMemory(q) /\ q.data = d /\ q.valid = v /\ q.size = m.size
       /\ q.write_once = m.write_once
  <2>1. IsMemory(q)
    BY <1>2, <1>10a, <1>11a, <1>12, MemoryWithParts, Zenon
  <2>2. q.data = d /\ q.valid = v /\ q.size = m.size /\ q.write_once = m.write_once
    BY PartsOf
  <2> QED BY <2>1, <2>2
<1> HIDE DEF q
<1>14. IsOut(q) /\ q.size = m.size
  BY <1>1, <1>13, Zenon DEF IsOut
<1>15. ASSUME stop <= n \/ k = 0
       PROVE  /\ Len(q.valid) = n
              /\ \A i \in 1 .. k : q.data[start + i] = new[i] /\ q.valid[start + i]
              /\ \A i \in 1 .. n :
                   i <= start \/ i > stop => q.data[i] = m.data[i] /\ q.valid[i] = m.valid[i]
  <2>1. Len(q.valid) = n
    BY <1>12, <1>13, <1>15, Zenon
  <2>2. ASSUME NEW i \in 1 .. k PROVE q.data[start + i] = new[i] /\ q.valid[start + i]
    <3>1. stop <= n
      BY <1>3, <1>15
    <3> QED BY <1>7, <1>10a, <1>11a, <1>13, <3>1, Zenon
  <2>3. \A i \in 1 .. n : i <= start \/ i > stop => q.data[i] = m.data[i] /\ q.valid[i] = m.valid[i]
    BY <1>10a, <1>11a, <1>13, <1>15, Zenon
  <2> QED BY <2>1, <2>2, <2>3, Zenon
<1> QED BY <1>5, <1>14, <1>15, Zenon DEF Stores, n, k, r, q

(***************************************************************************)
(* What get_record finds                                                   *)
(***************************************************************************)
LEMMA BytesAre ==
  ASSUME file \in Seq(Token), NEW a \in Nat, a >= 1, NEW c \in Nat, NEW e, e = a + c - 1
  PROVE  /\ Hex!Bytes(a, c) \in {"ok", "EOFError", "ValueError"}
         /\ Hex!Bytes(a, c) = "ok" <=> (e <= Len(file) /\ \A j \in a .. e : file[j] \in Octet)
<1>1. /\ Hex!Bytes(a, c) =
           IF e > Len(file) THEN "EOFError"
           ELSE IF \E j \in a .. e : file[j] < 0 THEN "ValueError" ELSE "ok"
  BY Zenon DEF Hex!Bytes
<1>2. Len(file) \in Nat /\ \A j \in 1 .. Len(file) : file[j] \in Token
  BY LenProperties
<1> DEFINE z == Len(file)
<1> HIDE DEF z
<1>3. ASSUME e <= z
      PROVE  (\E j \in a .. e : file[j] < 0) <=> ~(\A j \in a .. e : file[j] \in Octet)
  <2>1. ASSUME NEW j \in a .. e PROVE file[j] < 0 <=> file[j] \notin Octet
    <3>1. j \in 1 .. z
      BY <1>2, <1>3 DEF z
    <3>2. file[j] \in Token
      BY <1>2, <3>1 DEF z
    <3>3. file[j] \in Octet => ~(file[j] < 0)
      BY OctetIs
    <3> QED BY <3>2, <3>3 DEF Token
  <2> QED BY <2>1, Zenon
<1>4. z \in Nat /\ e \in Int
  BY <1>2 DEF z
<1>5. CASE e > z
  <2>1. ~(e <= z)
    BY <1>4, <1>5
  <2>2. Hex!Bytes(a, c) = "EOFError"
    BY <1>1, <1>5 DEF z
  <2> QED BY <2>1, <2>2 DEF z
<1>6. CASE ~(e > z)
  <2>1. e <= z
    BY <1>4, <1>6
  <2>2. Hex!Bytes(a, c) = IF \E j \in a .. e : file[j] < 0 THEN "ValueError" ELSE "ok"
    BY <1>1, <1>6, Zenon DEF z
  <2>3. CASE \E j \in a .. e : file[j] < 0
    <3>1. Hex!Bytes(a, c) = "ValueError"
      BY <2>2, <2>3, Zenon
    <3>2. ~(\A j \in a .. e : file[j] \in Octet)
      BY <1>3, <2>1, <2>3, Zenon
    <3> QED BY <3>1, <3>2
  <2>4. CASE ~(\E j \in a .. e : file[j] < 0)
    <3>1. Hex!Bytes(a, c) = "ok"
      BY <2>2, <2>4, Zenon
    <3>2. \A j \in a .. e : file[j] \in Octet
      BY <1>3, <2>1, <2>4, Zenon
    <3> QED BY <2>1, <3>1, <3>2 DEF z
  <2> QED BY <2>3, <2>4
<1> QED BY <1>5, <1>6

DataOf(f, i) == SubSeq(f, i + 5, i + 4 + f[i + 1])

FirstMark(i) ==
  i \in pos .. Len(file) /\ file[i] = -1 /\ \A j \in pos .. i - 1 : file[j] # -1

IsData(r, i) ==
  /\ r.kind = "data" /\ r.addr = At(file, i) /\ r.data = DataOf(file, i)
  /\ r.next = i + 6 + file[i + 1]

(* What becomes of the record behind the next mark                         *)
Reads(r, i) ==
  \/ ~Readable(file, i) /\ r.kind \in {"EOFError", "ValueError", "BadChecksum"}
  \/ /\ Readable(file, i)
     /\ \/ file[i + 4] = 1 /\ r.kind = "entry" /\ r.addr = At(file, i)
        \/ file[i + 4] \notin {0, 1} /\ r.kind = "UnknownRecordType"
        \/ file[i + 4] = 0 /\ At(file, i) < load_addr /\ r.kind = "Discontiguous"
        \/ file[i + 4] = 0 /\ ~(At(file, i) < load_addr) /\ IsData(r, i)

NextIs(r) ==
  \/ r.kind = "EOFError" /\ \A j \in pos .. Len(file) : file[j] # -1
  \/ \E i : FirstMark(i) /\ Reads(r, i)

(* The contents of a record with nothing wrong                             *)
Contents(i) ==
  IF file[i + 4] = 1 THEN [kind |-> "entry", addr |-> At(file, i)]
  ELSE IF file[i + 4] # 0 THEN [kind |-> "UnknownRecordType"]
  ELSE IF At(file, i) < load_addr THEN [kind |-> "Discontiguous"]
  ELSE [kind |-> "data", addr |-> At(file, i), data |-> DataOf(file, i),
        next |-> i + 6 + file[i + 1]]

LEMMA ContentsRead ==
  ASSUME NEW i, Readable(file, i)
  PROVE  Reads(Contents(i), i)
<1> DEFINE r == Contents(i)
<1>1. CASE file[i + 4] = 1
  <2>1. r = [kind |-> "entry", addr |-> At(file, i)]
    BY <1>1, Zenon DEF Contents
  <2> HIDE DEF r
  <2>2. r.kind = "entry" /\ r.addr = At(file, i)
    BY <2>1
  <2> QED BY <1>1, <2>2, Zenon DEF Reads, r
<1>2. CASE file[i + 4] \notin {0, 1}
  <2>1. r = [kind |-> "UnknownRecordType"]
    <3>1. ~(file[i + 4] = 1) /\ file[i + 4] # 0
      BY <1>2
    <3> QED BY <3>1, Zenon DEF Contents
  <2> HIDE DEF r
  <2>2. r.kind = "UnknownRecordType"
    BY <2>1
  <2> QED BY <1>2, <2>2, Zenon DEF Reads, r
<1>3. CASE file[i + 4] = 0 /\ At(file, i) < load_addr
  <2>1. r = [kind |-> "Discontiguous"]
    <3>1. ~(file[i + 4] = 1) /\ ~(file[i + 4] # 0)
      BY <1>3
    <3> QED BY <1>3, <3>1, Zenon DEF Contents
  <2> HIDE DEF r
  <2>2. r.kind = "Discontiguous"
    BY <2>1
  <2> QED BY <1>3, <2>2, Zenon DEF Reads, r
<1>4. CASE file[i + 4] = 0 /\ ~(At(file, i) < load_addr)
  <2>1. r = [kind |-> "data", addr |-> At(file, i), data |-> DataOf(file, i),
             next |-> i + 6 + file[i + 1]]
    <3>1. ~(file[i + 4] = 1) /\ ~(file[i + 4] # 0)
      BY <1>4
    <3> QED BY <1>4, <3>1, Zenon DEF Contents
  <2> HIDE DEF r
  <2>2. IsData(r, i)
    BY <2>1 DEF IsData
  <2> QED BY <1>4, <2>2, Zenon DEF Reads, r
<1> QED BY <1>1, <1>2, <1>3, <1>4

LEMMA NextRecordIs ==
  ASSUME file \in Seq(Token), pos \in Nat, pos >= 1
  PROVE  NextIs(Hex!NextRecord)
<1> DEFINE z == Len(file)  T == {j \in Hex!Marks : j >= pos}  i == Hex!Min(T)
           n == file[i + 1]  r == Hex!NextRecord
<1> SUFFICES NextIs(r)
  OBVIOUS
<1>1. z \in Nat
  BY LenProperties
<1>2. \A j : j \in Hex!Marks <=> j \in 1 .. z /\ file[j] = -1
  BY Zenon DEF Hex!Marks, Hex!Mark
<1>3. T \subseteq Nat
  BY <1>2
<1>4. r = IF T = {} THEN [kind |-> "EOFError"]
          ELSE IF Hex!Bytes(i + 1, 1) # "ok" THEN [kind |-> Hex!Bytes(i + 1, 1)]
          ELSE IF Hex!Bytes(i + 2, 2) # "ok" THEN [kind |-> Hex!Bytes(i + 2, 2)]
          ELSE IF Hex!Bytes(i + 4, 1) # "ok" THEN [kind |-> Hex!Bytes(i + 4, 1)]
          ELSE IF Hex!Bytes(i + 5, n) # "ok" THEN [kind |-> Hex!Bytes(i + 5, n)]
          ELSE IF Hex!Bytes(i + 5 + n, 1) # "ok" THEN [kind |-> Hex!Bytes(i + 5 + n, 1)]
          ELSE IF Hex!BadSum(i, n) THEN [kind |-> "BadChecksum"]
          ELSE Contents(i)
  BY Zenon DEF Hex!NextRecord, Contents, At, DataOf
<1>5. CASE T = {}
  <2>1. r = [kind |-> "EOFError"]
    BY <1>4, <1>5, Zenon
  <2> HIDE DEF r
  <2>2. r.kind = "EOFError"
    BY <2>1
  <2>3. \A j \in pos .. z : file[j] # -1
    BY <1>1, <1>2, <1>5
  <2> QED BY <2>2, <2>3, Zenon DEF NextIs, r, z
<1>6. CASE T # {}
  <2>1. i \in T /\ \A y \in T : i <= y
    BY <1>3, <1>6, HexMin, MinOfSet, Zenon
  <2> HIDE DEF i
  <2>2. i \in pos .. z /\ file[i] = -1 /\ i \in Nat /\ i >= 1
    BY <1>1, <1>2, <2>1
  <2>3. ASSUME NEW j \in pos .. i - 1 PROVE file[j] # -1
    <3>1. j \in 1 .. z /\ j >= pos /\ ~(i <= j)
      BY <1>1, <2>2
    <3> HIDE DEF z
    <3> QED BY <1>2, <2>1, <3>1, Zenon
  <2>4. FirstMark(i)
    BY <2>2, <2>3, Zenon DEF FirstMark, z
  <2>5. ASSUME NEW e \in {"EOFError", "ValueError", "BadChecksum"}, r = [kind |-> e],
               ~Readable(file, i)
        PROVE  NextIs(r)
    <3> HIDE DEF r
    <3>1. r.kind = e
      BY <2>5
    <3> QED BY <2>4, <2>5, <3>1, Zenon DEF NextIs, Reads
  <2>6. ASSUME Readable(file, i)
        PROVE  /\ n \in Octet /\ n \in Nat /\ i + 5 + n <= z
               /\ \A j \in i + 1 .. i + 5 + n : file[j] \in Octet
    <3>1. n \in Octet /\ i + 5 + n <= z /\ \A j \in i + 1 .. i + 5 + n : file[j] \in Octet
      BY <2>6, Zenon DEF Readable, Stop, z
    <3> QED BY <3>1, OctetIs
  <2>7. /\ Hex!Bytes(i + 1, 1) \in {"ok", "EOFError", "ValueError"}
        /\ Hex!Bytes(i + 1, 1) = "ok" <=> (i + 1 <= z /\ \A j \in i + 1 .. i + 1 : file[j] \in Octet)
        /\ Hex!Bytes(i + 2, 2) \in {"ok", "EOFError", "ValueError"}
        /\ Hex!Bytes(i + 2, 2) = "ok" <=> (i + 3 <= z /\ \A j \in i + 2 .. i + 3 : file[j] \in Octet)
        /\ Hex!Bytes(i + 4, 1) \in {"ok", "EOFError", "ValueError"}
        /\ Hex!Bytes(i + 4, 1) = "ok" <=> (i + 4 <= z /\ \A j \in i + 4 .. i + 4 : file[j] \in Octet)
    <3>1. /\ i + 1 \in Nat /\ i + 1 >= 1 /\ 1 \in Nat /\ i + 1 = (i + 1) + 1 - 1
          /\ i + 2 \in Nat /\ i + 2 >= 1 /\ 2 \in Nat /\ i + 3 = (i + 2) + 2 - 1
          /\ i + 4 \in Nat /\ i + 4 >= 1 /\ i + 4 = (i + 4) + 1 - 1
      BY <2>2
    <3>2. /\ Hex!Bytes(i + 1, 1) \in {"ok", "EOFError", "ValueError"}
          /\ Hex!Bytes(i + 1, 1) = "ok" <=> (i + 1 <= z /\ \A j \in i + 1 .. i + 1 : file[j] \in Octet)
      BY <3>1, BytesAre, Zenon
    <3>3. /\ Hex!Bytes(i + 2, 2) \in {"ok", "EOFError", "ValueError"}
          /\ Hex!Bytes(i + 2, 2) = "ok" <=> (i + 3 <= z /\ \A j \in i + 2 .. i + 3 : file[j] \in Octet)
      BY <3>1, BytesAre, Zenon
    <3>4. /\ Hex!Bytes(i + 4, 1) \in {"ok", "EOFError", "ValueError"}
          /\ Hex!Bytes(i + 4, 1) = "ok" <=> (i + 4 <= z /\ \A j \in i + 4 .. i + 4 : file[j] \in Octet)
      BY <3>1, BytesAre, Zenon
    <3> QED BY <3>2, <3>3, <3>4, Zenon
  <2>8. CASE ~(Hex!Bytes(i + 1, 1) = "ok" /\ Hex!Bytes(i + 2, 2) = "ok" /\ Hex!Bytes(i + 4, 1) = "ok")
    <3>1. PICK e \in {"EOFError", "ValueError"} : r = [kind |-> e]
      BY <1>4, <1>6, <2>7, <2>8, Zenon
    <3>2. ~Readable(file, i)
      <4> SUFFICES ASSUME Readable(file, i) PROVE FALSE
        OBVIOUS
      <4>1. /\ i + 4 <= z /\ i + 3 <= z /\ i + 1 <= z
            /\ \A j \in i + 1 .. i + 1 : j \in i + 1 .. i + 5 + n
            /\ \A j \in i + 2 .. i + 3 : j \in i + 1 .. i + 5 + n
            /\ \A j \in i + 4 .. i + 4 : j \in i + 1 .. i + 5 + n
        <5>1. n \in Nat /\ i + 5 + n <= z
          BY <2>6
        <5> HIDE DEF n, z
        <5> QED BY <1>1, <2>2, <5>1
      <4> HIDE DEF n, z, r
      <4> QED BY <2>6, <2>7, <2>8, <4>1, Zenon
    <3> HIDE DEF r
    <3>3. e \in {"EOFError", "ValueError", "BadChecksum"}
      OBVIOUS
    <3> QED BY <2>5, <3>1, <3>2, <3>3
  <2>9. CASE Hex!Bytes(i + 1, 1) = "ok" /\ Hex!Bytes(i + 2, 2) = "ok" /\ Hex!Bytes(i + 4, 1) = "ok"
    <3>1. n \in Octet /\ n \in Nat
      <4>1. file[i + 1] \in Octet
        <5>1. i + 1 \in i + 1 .. i + 1
          BY <2>2
        <5> QED BY <2>7, <2>9, <5>1, Zenon
      <4> QED BY <4>1, OctetIs
    <3> DEFINE s == i + 5 + n  b == Hex!Bytes(i + 5, n)  c == Hex!Bytes(i + 5 + n, 1)
    <3>2. /\ b \in {"ok", "EOFError", "ValueError"}
          /\ b = "ok" <=> (s - 1 <= z /\ \A j \in i + 5 .. s - 1 : file[j] \in Octet)
      <4>1. i + 5 \in Nat /\ i + 5 >= 1 /\ s - 1 = (i + 5) + n - 1
        <5> HIDE DEF n
        <5> QED BY <2>2, <3>1
      <4> HIDE DEF n, s
      <4> QED BY <3>1, <4>1, BytesAre, Zenon
    <3>3. /\ c \in {"ok", "EOFError", "ValueError"}
          /\ c = "ok" <=> (s <= z /\ \A j \in s .. s : file[j] \in Octet)
      <4>1. s \in Nat /\ s >= 1 /\ s = s + 1 - 1 /\ 1 \in Nat
        <5> HIDE DEF n
        <5> QED BY <2>2, <3>1
      <4>2. c = Hex!Bytes(s, 1)
        OBVIOUS
      <4> HIDE DEF s, c
      <4> QED BY <4>1, <4>2, BytesAre, Zenon
    <3>4. /\ i + 3 <= z /\ i + 4 <= z /\ i + 1 <= z
          /\ \A j \in i + 1 .. i + 1 : file[j] \in Octet
          /\ \A j \in i + 2 .. i + 3 : file[j] \in Octet
          /\ \A j \in i + 4 .. i + 4 : file[j] \in Octet
      BY <2>7, <2>9, Zenon
    <3>5. s \in Nat /\ s >= i + 5 /\ s = i + 5 + n
      <4> HIDE DEF n
      <4> QED BY <2>2, <3>1
    <3>6. Hex!BadSum(i, n) <=> file[s] # Hex!Checksum(Raw(file, i))
      BY Zenon DEF Hex!BadSum, Raw
    <3>7. r = IF b # "ok" THEN [kind |-> b]
              ELSE IF c # "ok" THEN [kind |-> c]
              ELSE IF Hex!BadSum(i, n) THEN [kind |-> "BadChecksum"]
              ELSE Contents(i)
      BY <1>4, <1>6, <2>9, Zenon
    <3> HIDE DEF r, n, z, s, b, c
    <3>8. CASE b # "ok" \/ c # "ok"
      <4>1. PICK e \in {"EOFError", "ValueError"} : r = [kind |-> e]
        BY <3>2, <3>3, <3>7, <3>8, Zenon
      <4>2. ~Readable(file, i)
        <5> SUFFICES ASSUME Readable(file, i) PROVE FALSE
          OBVIOUS
        <5>1. s <= z /\ \A j \in i + 1 .. s : file[j] \in Octet
          BY <2>6, <3>5, Zenon
        <5>2. /\ s - 1 <= z /\ \A j \in i + 5 .. s - 1 : j \in i + 1 .. s
              /\ \A j \in s .. s : j \in i + 1 .. s
          BY <1>1, <2>2, <3>5, <5>1
        <5> QED BY <3>2, <3>3, <3>8, <5>1, <5>2, Zenon
      <4>3. e \in {"EOFError", "ValueError", "BadChecksum"}
        OBVIOUS
      <4> QED BY <2>5, <4>1, <4>2, <4>3
    <3>9. CASE b = "ok" /\ c = "ok"
      <4>1. s <= z
        BY <3>3, <3>9, Zenon
      <4>2. ASSUME NEW j \in i + 1 .. s PROVE file[j] \in Octet
        <5>1. \/ j \in i + 1 .. i + 1 \/ j \in i + 2 .. i + 3 \/ j \in i + 4 .. i + 4
              \/ j \in i + 5 .. s - 1 \/ j \in s .. s
          BY <2>2, <3>5
        <5> QED BY <3>2, <3>3, <3>4, <3>9, <5>1, Zenon
      <4>3. Readable(file, i) <=> ~Hex!BadSum(i, n)
        <5>1. Stop(file, i) = s
          BY <3>5, Zenon DEF Stop, n
        <5>2. file[i + 1] \in Octet
          BY <3>1 DEF n
        <5> QED BY <2>2, <3>6, <4>1, <4>2, <5>1, <5>2, Zenon DEF Readable, z
      <4>4. CASE Hex!BadSum(i, n)
        <5>1. r = [kind |-> "BadChecksum"]
          BY <3>7, <3>9, <4>4, Zenon
        <5>2. "BadChecksum" \in {"EOFError", "ValueError", "BadChecksum"}
          OBVIOUS
        <5> QED BY <2>5, <4>3, <4>4, <5>1, <5>2
      <4>5. CASE ~Hex!BadSum(i, n)
        <5>1. r = Contents(i)
          BY <3>7, <3>9, <4>5, Zenon
        <5> QED BY <2>4, <4>3, <4>5, <5>1, ContentsRead, Zenon DEF NextIs
      <4> QED BY <4>4, <4>5
    <3> QED BY <3>8, <3>9
  <2> HIDE DEF r
  <2> QED BY <2>8, <2>9, Zenon
<1> QED BY <1>5, <1>6

(***************************************************************************)
(* Intel HEX: what is written                                              *)
(***************************************************************************)
LEMMA ImageIs ==
  ASSUME NEW m \in Images
  PROVE  /\ IsMemory(m) /\ m.size \in Nat /\ Len(m.valid) = m.size /\ Len(m.data) = m.size
         /\ m.data \in Seq(Octet) /\ m.size <= ByteMod * ByteMod /\ m.size <= FreshSize
         /\ FreshSize \in Nat
<1> DEFINE B == 0 .. ByteMod - 1
<1>1. /\ m \in [data : Seq(B), valid : Seq(BOOLEAN), size : Nat, write_once : BOOLEAN]
      /\ Len(m.data) = m.size /\ Len(m.valid) = m.size
      /\ m.size <= FreshSize /\ FreshSize = ByteMod * ByteMod
  BY HexAssumption DEF HexAssumption, IsImage
<1>2. B \subseteq ByteValue
  BY ByteModIs DEF ByteValue
<1>3. B = Octet
  BY DEF Octet
<1> HIDE DEF B
<1>4. /\ m.data \in Seq(B) /\ m.valid \in Seq(BOOLEAN) /\ m.size \in Nat
      /\ m.write_once \in BOOLEAN
      /\ m = MemoryWith(m.data, m.valid, m.size, m.write_once)
  BY <1>1 DEF MemoryWith
<1>5. m.data \in Seq(ByteValue)
  BY <1>2, <1>4, SeqMonotonic, Zenon
<1>6. m.size <= Len(m.data)
  BY <1>1, <1>4
<1>7. IsMemory(MemoryWith(m.data, m.valid, m.size, m.write_once))
  BY <1>1, <1>4, <1>5, <1>6, MemoryWithParts, Zenon
<1>8. ByteMod * ByteMod \in Nat
  BY ByteModIs
<1> QED BY <1>1, <1>3, <1>4, <1>7, <1>8

HexWriter ==
  /\ mem \in Images /\ entry_addr \in Entries
  /\ wpc \in {"range", "record", "done"}
  /\ rpc \in {"idle", "reading", "done", "failed"}
  /\ wpc # "done" => fault = "none" /\ rpc = "idle"
  /\ sl.stop \in Nat /\ sl.stop <= mem.size
  /\ addr \in Nat
  /\ wpc = "record" => \A a \in addr .. sl.stop - 1 : mem.valid[a + 1]
  /\ fault = "none" => AllLines(mem, file)
  /\ file \in Seq(Token) /\ Fine(mem, file)

(* The record written last of all                                          *)
LastRecord == Hex!Record(entry_addr, 1, <<>>)

LEMMA EntryWritten ==
  ASSUME HexWriter
  PROVE  AllLines(mem, LastRecord) /\ IsRecord(LastRecord, entry_addr, 1, 0)
<1> DEFINE d == <<>>
<1>1. entry_addr \in Nat /\ entry_addr < ByteMod * ByteMod
  <2>1. entry_addr \in 0 .. FreshSize - 1 /\ FreshSize = ByteMod * ByteMod /\ ByteMod \in Nat
    BY HexAssumption, ByteModIs DEF HexAssumption, HexWriter
  <2> DEFINE z == ByteMod * ByteMod
  <2>2. z \in Nat
    BY <2>1
  <2>3. entry_addr \in 0 .. z - 1
    BY <2>1
  <2> HIDE DEF z
  <2>4. entry_addr \in Nat /\ entry_addr < z
    BY <2>2, <2>3
  <2> QED BY <2>4 DEF z
<1>2. d \in Seq(Octet) /\ Len(d) = 0 /\ 1 \in {0, 1}
  OBVIOUS
<1>3. Len(d) \in Octet
  BY ByteModIs, <1>2 DEF Octet
<1>4. 1 = 0 => Given(mem, entry_addr, d)
  OBVIOUS
<1> HIDE DEF d
<1>5. AllLines(mem, Hex!Record(entry_addr, 1, d)) /\ IsRecord(Hex!Record(entry_addr, 1, d), entry_addr, 1, Len(d))
  BY <1>1, <1>2, <1>3, <1>4, OneRecord, Zenon
<1>6. IsRecord(Hex!Record(entry_addr, 1, d), entry_addr, 1, 0)
  BY <1>2, <1>5, Zenon
<1> QED BY <1>5, <1>6 DEF d, LastRecord

(* A line of data                                                          *)
LineData   == Hex!Slice(mem.data, addr, addr + Hex!LineLength)
DataRecord == Hex!Record(addr, 0, LineData)

LEMMA SliceWithin ==
  ASSUME NEW S, NEW s \in Seq(S), NEW start \in Nat, NEW n \in Nat, NEW stop \in Int,
         stop = start + n, stop <= Len(s)
  PROVE  IsPiece(Hex!Slice(s, start, stop), S, s, start, n)
<1> DEFINE z == Len(s)
<1>1. z \in Nat
  BY LenProperties
<1>2. Hex!Slice(s, start, stop) = SubSeq(s, start + 1, Ops!Min({stop, z}))
  BY HexSlice, Zenon DEF Ops!Slice
<1>3. Ops!Min({stop, z}) = stop
  <2> HIDE DEF z
  <2>1. z \in Int /\ stop <= z
    BY <1>1 DEF z
  <2> QED BY <2>1, MinOfTwo
<1>4. \A k \in start + 1 .. stop : s[k] \in S
  BY <1>1, LenProperties
<1>5. start \in Int /\ stop = start + n
  OBVIOUS
<1> QED BY <1>2, <1>3, <1>4, <1>5, PieceOf, Zenon

LEMMA DataWritten ==
  ASSUME HexWriter, wpc = "record", addr < sl.stop
  PROVE  /\ AllLines(mem, DataRecord) /\ IsRecord(DataRecord, addr, 0, Hex!LineLength)
         /\ Hex!LineLength \in Nat /\ Hex!LineLength >= 1 /\ addr + Hex!LineLength <= sl.stop
<1> DEFINE n == Hex!LineLength  z == mem.size  d == LineData  stop == sl.stop
<1>1. /\ stop \in Nat /\ stop <= z /\ addr \in Nat /\ mem \in Images
      /\ \A a \in addr .. stop - 1 : mem.valid[a + 1]
  BY Zenon DEF HexWriter
<1>2. /\ z \in Nat /\ Len(mem.valid) = z /\ Len(mem.data) = z
      /\ mem.data \in Seq(Octet) /\ z <= ByteMod * ByteMod
  BY <1>1, ImageIs, Zenon
<1>3. n = IF addr + BytesPerLine > stop THEN stop - addr ELSE BytesPerLine
  BY Zenon DEF Hex!LineLength
<1> HIDE DEF n, z, stop
<1>4. /\ n \in Nat /\ n >= 1 /\ n <= BytesPerLine /\ addr + n <= stop
  BY <1>1, <1>3, ByteModIs DEF stop
<1>5. n \in Octet
  BY <1>4, ByteModIs DEF Octet
<1>6. d \in Seq(Octet) /\ Len(d) = n /\ \A i \in 1 .. n : d[i] = mem.data[addr + i]
  <2>1. addr + n \in Int /\ addr + n <= Len(mem.data)
    BY <1>1, <1>2, <1>4
  <2>2. IsPiece(d, Octet, mem.data, addr, n)
    BY <1>1, <1>2, <1>4, <2>1, SliceWithin, Zenon DEF LineData, n
  <2> QED BY <2>2, Zenon DEF IsPiece
<1>7. addr < ByteMod * ByteMod
  <2> DEFINE x == ByteMod * ByteMod
  <2>1. x \in Nat /\ z <= x
    BY <1>2, ByteModIs
  <2> HIDE DEF x
  <2>2. addr < x
    BY <1>1, <1>2, <1>4, <2>1
  <2> QED BY <2>2 DEF x
<1> HIDE DEF d
<1>8. Given(mem, addr, d)
  <2> SUFFICES ASSUME NEW k \in 0 .. Len(d) - 1
               PROVE  /\ addr + k < Len(mem.valid) /\ mem.valid[(addr + k) + 1]
                      /\ mem.data[(addr + k) + 1] = d[k + 1]
    BY Zenon DEF Given
  <2>1. /\ k + 1 \in 1 .. n /\ addr + k \in addr .. stop - 1 /\ addr + k < z
        /\ addr + (k + 1) = (addr + k) + 1
    BY <1>1, <1>2, <1>4, <1>6
  <2>2. d[k + 1] = mem.data[addr + (k + 1)] /\ mem.valid[(addr + k) + 1]
    BY <1>1, <1>6, <2>1, Zenon
  <2> QED BY <1>2, <2>1, <2>2
<1>9. AllLines(mem, Hex!Record(addr, 0, d)) /\ IsRecord(Hex!Record(addr, 0, d), addr, 0, n)
  <2>1. 0 \in {0, 1} /\ Len(d) \in Octet
    BY <1>5, <1>6
  <2>2. /\ AllLines(mem, Hex!Record(addr, 0, d))
        /\ IsRecord(Hex!Record(addr, 0, d), addr, 0, Len(d))
    BY <1>1, <1>6, <1>7, <1>8, <2>1, OneRecord, Zenon
  <2> QED BY <1>6, <2>2, Zenon
<1> QED BY <1>4, <1>9, Zenon DEF n, d, stop, DataRecord

LEMMA WriteRangeKeeps ==
  ASSUME HexWriter, Hex!WriteRange
  PROVE  HexWriter'
<1> DEFINE r == Hex!NextValidRange(mem, sl.stop)
<1>1. /\ mem \in Images /\ entry_addr \in Entries /\ sl.stop \in Nat /\ addr \in Nat
      /\ sl.stop <= mem.size
      /\ fault = "none" /\ rpc = "idle" /\ AllLines(mem, file)
  <2>1. wpc # "done"
    BY DEF Hex!WriteRange
  <2> QED BY <2>1, Zenon DEF HexWriter
<1>2. UNCHANGED <<mem, entry_addr, fault, rpc>>
  BY Zenon DEF Hex!WriteRange, Hex!rvars
<1>3. /\ r.exc = "Uninitialized" =>
           file' = file \o LastRecord /\ wpc' = "done" /\ UNCHANGED <<addr, sl>>
      /\ r.exc # "Uninitialized" =>
           /\ sl' = [start |-> r.start, stop |-> r.stop] /\ addr' = r.start
           /\ wpc' = "record" /\ UNCHANGED file
  BY Zenon DEF Hex!WriteRange, LastRecord
<1>4. RangeFrom(mem, sl.stop, r)
  BY <1>1, ImageIs, RangeIs, Zenon
<1>5. CASE r.exc = "Uninitialized"
  <2>1. AllLines(mem, file')
    <3>1. AllLines(mem, file \o LastRecord)
      BY <1>1, EntryWritten, LinesJoined, Zenon
    <3> QED BY <1>3, <1>5, <3>1, Zenon
  <2>2. file' \in Seq(Token) /\ Fine(mem, file')
    BY <2>1, WholeLinesAreFine, Zenon DEF AllLines
  <2>4. wpc' = "done" /\ addr' = addr /\ sl' = sl
    BY <1>3, <1>5, Zenon
  <2>5. wpc' \in {"range", "record", "done"} /\ wpc' # "record" /\ rpc' \in {"idle", "reading", "done", "failed"}
    BY <1>1, <1>2, <2>4
  <2> QED BY <1>1, <1>2, <2>1, <2>2, <2>4, <2>5, Zenon DEF HexWriter
<1>6. CASE r.exc # "Uninitialized"
  <2>1. /\ r.start \in Nat /\ r.stop \in Nat /\ r.stop <= mem.size
        /\ \A a \in r.start .. r.stop - 1 : mem.valid[a + 1]
    BY <1>1, <1>4, <1>6, ImageIs, Zenon DEF RangeFrom
  <2>2. /\ sl' = [start |-> r.start, stop |-> r.stop] /\ addr' = r.start
        /\ wpc' = "record" /\ file' = file
    BY <1>3, <1>6, Zenon
  <2> HIDE DEF r
  <2>3. sl'.stop = r.stop
    BY <2>2
  <2>4. /\ wpc' \in {"range", "record", "done"} /\ rpc' \in {"idle", "reading", "done", "failed"}
        /\ file \in Seq(Token) /\ Fine(mem, file)
    BY <1>1, <1>2, <2>2 DEF HexWriter
  <2> QED BY <1>1, <1>2, <2>1, <2>2, <2>3, <2>4, Zenon DEF HexWriter
<1> QED BY <1>5, <1>6

LEMMA WriteRecordKeeps ==
  ASSUME HexWriter, Hex!WriteRecord
  PROVE  HexWriter'
<1>1. wpc = "record" /\ wpc # "done"
  BY DEF Hex!WriteRecord
<1>2. /\ mem \in Images /\ entry_addr \in Entries /\ sl.stop \in Nat /\ addr \in Nat
      /\ sl.stop <= mem.size /\ \A a \in addr .. sl.stop - 1 : mem.valid[a + 1]
      /\ fault = "none" /\ rpc = "idle" /\ AllLines(mem, file)
      /\ file \in Seq(Token) /\ Fine(mem, file)
  BY <1>1, Zenon DEF HexWriter
<1>3. UNCHANGED <<mem, entry_addr, sl, fault, rpc>>
  BY Zenon DEF Hex!WriteRecord, Hex!rvars
<1>4. /\ addr < sl.stop => /\ file' = file \o DataRecord
                           /\ addr' = addr + Hex!LineLength /\ UNCHANGED wpc
      /\ ~(addr < sl.stop) => wpc' = "range" /\ UNCHANGED <<file, addr>>
  BY Zenon DEF Hex!WriteRecord, DataRecord, LineData
<1>5. CASE addr < sl.stop
  <2>1. /\ AllLines(mem, DataRecord) /\ Hex!LineLength \in Nat
        /\ Hex!LineLength >= 1 /\ addr + Hex!LineLength <= sl.stop
    BY <1>1, <1>5, DataWritten, Zenon
  <2>2. file' = file \o DataRecord /\ addr' = addr + Hex!LineLength /\ wpc' = "record"
    BY <1>1, <1>4, <1>5, Zenon
  <2>3. AllLines(mem, file')
    BY <1>2, <2>1, <2>2, LinesJoined, Zenon
  <2>4. file' \in Seq(Token) /\ Fine(mem, file')
    BY <2>3, WholeLinesAreFine, Zenon DEF AllLines
  <2> DEFINE n == Hex!LineLength
  <2> HIDE DEF n
  <2>5. addr' \in Nat /\ \A a \in addr' .. sl.stop - 1 : a \in addr .. sl.stop - 1
    <3>1. n \in Nat /\ n >= 1 /\ addr' = addr + n
      BY <2>1, <2>2 DEF n
    <3> QED BY <1>2, <3>1
  <2>6. /\ wpc' \in {"range", "record", "done"} /\ rpc' \in {"idle", "reading", "done", "failed"}
    BY <1>2, <1>3, <2>2
  <2>7. \A a \in addr' .. sl.stop - 1 : mem.valid[a + 1]
    BY <1>2, <2>5, Zenon
  <2> QED BY <1>2, <1>3, <2>2, <2>3, <2>4, <2>5, <2>6, <2>7, Zenon DEF HexWriter
<1>6. CASE ~(addr < sl.stop)
  <2>1. wpc' = "range" /\ file' = file /\ addr' = addr
    BY <1>4, <1>6, Zenon
  <2>2. /\ wpc' \in {"range", "record", "done"} /\ rpc' \in {"idle", "reading", "done", "failed"}
        /\ wpc' # "record"
    BY <1>2, <1>3, <2>1
  <2> QED BY <1>2, <1>3, <2>1, <2>2, Zenon DEF HexWriter
<1> QED BY <1>5, <1>6

(***************************************************************************)
(* Intel HEX: what is read                                                 *)
(***************************************************************************)
Flag(m, a) == a < Len(m.valid) /\ m.valid[a + 1]
Left(o, t, a) == t # Hex!NoMemory /\ Flag(t, a) /\ o.data[a + 1] = t.data[a + 1]
Known(m, o, a) == Flag(m, a) /\ m.data[a + 1] = o.data[a + 1]

(* Every valid byte of o is one of m, or was left in t.                    *)
NoneInvented(m, o, t) ==
  \A a \in 0 .. Len(o.valid) - 1 : Flag(o, a) /\ ~Left(o, t, a) => Known(m, o, a)

Enough(m, t) == t = Hex!NoMemory \/ t.size >= m.size

LEMMA EnoughIs == Hex!BigEnough <=> Enough(mem, target)
BY Zenon DEF Hex!BigEnough, Enough

LEMMA NeverInventsIs ==
  Hex!NeverInvents <=>
    (rpc # "idle" /\ Enough(mem, target) => NoneInvented(mem, out, target))
BY EnoughIs, Zenon DEF Hex!NeverInvents, NoneInvented, Left, Known, Flag, Hex!Holds, Hex!Before,
   Hex!SameAt

HexReader ==
  /\ load_addr \in Nat /\ pos \in 1 .. Len(file) + 1
  /\ rpc = "idle" => pos = 1
  /\ IsOut(out)
  /\ target # Hex!NoMemory => target \in Targets
  /\ rpc = "reading" /\ Enough(mem, target) => mem.size <= Len(out.valid)
  /\ rpc # "idle" /\ Enough(mem, target) => NoneInvented(mem, out, target)

(* Nothing but the file changes, before it is read.                        *)
LEMMA ReaderWaits ==
  ASSUME HexReader, rpc = "idle", UNCHANGED <<mem, rpc, pos, load_addr, target, out>>,
         file' \in Seq(Token)
  PROVE  HexReader'
<1>1. /\ load_addr \in Nat /\ pos = 1 /\ IsOut(out)
      /\ target # Hex!NoMemory => target \in Targets
  BY Zenon DEF HexReader
<1>2. /\ load_addr' = load_addr /\ pos' = pos /\ out' = out /\ target' = target
      /\ rpc' = rpc /\ mem' = mem
  OBVIOUS
<1>3. Len(file') \in Nat
  BY LenProperties, Zenon
<1>4. pos' \in 1 .. Len(file') + 1
  BY <1>1, <1>2, <1>3
<1>5. rpc' = "idle" /\ rpc' # "reading"
  BY <1>2
<1> QED BY <1>1, <1>2, <1>4, <1>5, Zenon DEF HexReader

LEMMA DamageKeeps ==
  ASSUME HexWriter, Hex!Damage
  PROVE  HexWriter'
<1>1. /\ wpc = "done" /\ fault = "none" /\ rpc = "idle"
      /\ UNCHANGED <<mem, entry_addr, wpc, addr, sl, rpc>>
  BY Zenon DEF Hex!Damage, Hex!wvars, Hex!rvars
<1>2. AllLines(mem, file) /\ mem \in Images /\ entry_addr \in Entries /\ addr \in Nat
      /\ sl.stop \in Nat /\ sl.stop <= mem.size
  BY <1>1, Zenon DEF HexWriter
<1>3. file' \in Seq(Token) /\ Fine(mem, file')
  BY <1>2, DamageFine, Zenon
<1>4. fault' # "none"
  BY DEF Hex!Damage
<1>5. /\ wpc' \in {"range", "record", "done"} /\ rpc' \in {"idle", "reading", "done", "failed"}
      /\ wpc' # "record" /\ wpc' = "done"
  BY <1>1
<1> QED BY <1>1, <1>2, <1>3, <1>4, <1>5, Zenon DEF HexWriter

(* The reader leaves the writer's variables alone.                         *)
LEMMA WriterRests ==
  ASSUME HexWriter, UNCHANGED <<mem, entry_addr, wpc, addr, sl, file, fault>>, wpc = "done",
         rpc' \in {"reading", "done", "failed"}
  PROVE  HexWriter'
<1>1. rpc' \in {"idle", "reading", "done", "failed"} /\ wpc' = "done" /\ wpc' # "record"
  OBVIOUS
<1>2. /\ mem' = mem /\ entry_addr' = entry_addr /\ wpc' = wpc /\ addr' = addr /\ sl' = sl
      /\ file' = file /\ fault' = fault
  OBVIOUS
<1> QED BY <1>1, <1>2, Zenon DEF HexWriter

LEMMA FreshMemory ==
  ASSUME NEW n \in Nat
  PROVE  /\ IsOut(Hex!Memory(n, FALSE)) /\ Len(Hex!Memory(n, FALSE).valid) = n
         /\ \A a \in 0 .. n - 1 : ~Flag(Hex!Memory(n, FALSE), a)
<1> DEFINE no == FALSE  v == Ops!Filled(n, no)
           m == MemoryWith(Ops!Filled(n, 0), v, n, no)
<1>1. Hex!Memory(n, FALSE) = Ops!Memory(n, no)
  BY HexMemory
<1>2. Ops!Memory(n, no) = m
  BY Zenon DEF Ops!Memory, MemoryWith
<1>3. no \in BOOLEAN
  OBVIOUS
<1>4. IsMemory(Ops!Memory(n, no))
  <2> HIDE DEF no
  <2> QED BY <1>3, NewMemory, Zenon
<1>5. Len(v) = n /\ \A i \in 1 .. n : v[i] = no
  <2> HIDE DEF no
  <2> QED BY <1>3, FilledSeq, Zenon
<1>6. m.valid = v /\ m.write_once = no
  <2> HIDE DEF v, no
  <2> QED BY DEF MemoryWith
<1> HIDE DEF m, v
<1>7. IsOut(m)
  BY <1>2, <1>4, <1>6 DEF IsOut
<1>8. ASSUME NEW a \in 0 .. n - 1 PROVE ~Flag(m, a)
  <2>1. a + 1 \in 1 .. n
    OBVIOUS
  <2>2. m.valid[a + 1] = no
    BY <1>5, <1>6, <2>1, Zenon
  <2> QED BY <2>2, Zenon DEF Flag
<1> QED BY <1>1, <1>2, <1>5, <1>6, <1>7, <1>8, Zenon

LEMMA TargetIs ==
  ASSUME NEW t \in Targets, t # Hex!NoMemory
  PROVE  /\ IsOut(t) /\ t.size \in Nat /\ Len(t.valid) = t.size
<1>1. /\ t \in [data : Seq(ByteValue), valid : Seq(BOOLEAN), size : Nat, write_once : BOOLEAN]
      /\ Len(t.data) = t.size /\ Len(t.valid) = t.size /\ ~t.write_once
  <2>1. IsImage(t, 0 .. 255) /\ ~t.write_once
    BY HexAssumption, Zenon DEF HexAssumption
  <2> QED BY <2>1, Zenon DEF IsImage, ByteValue
<1>2. /\ t.data \in Seq(ByteValue) /\ t.valid \in Seq(BOOLEAN) /\ t.size \in Nat
      /\ t.write_once \in BOOLEAN
      /\ t = MemoryWith(t.data, t.valid, t.size, t.write_once)
  BY <1>1 DEF MemoryWith
<1>3. t.size <= Len(t.data)
  BY <1>1, <1>2
<1>4. IsMemory(MemoryWith(t.data, t.valid, t.size, t.write_once))
  BY <1>1, <1>2, <1>3, MemoryWithParts, Zenon
<1> QED BY <1>1, <1>2, <1>4, Zenon DEF IsOut

LEMMA StartReadKeeps ==
  ASSUME HexWriter, HexReader, Hex!StartRead
  PROVE  HexWriter' /\ HexReader'
<1>1. /\ wpc = "done" /\ rpc = "idle" /\ rpc' = "reading"
      /\ UNCHANGED <<mem, entry_addr, wpc, addr, sl, file, fault, pos, load_addr>>
  BY Zenon DEF Hex!StartRead, Hex!wvars
<1>2. PICK t \in Targets :
         /\ target' = t
         /\ out' = IF t = Hex!NoMemory THEN Hex!Memory(FreshSize, FALSE) ELSE t
  BY Zenon DEF Hex!StartRead
<1>3. rpc' \in {"reading", "done", "failed"} /\ rpc' # "idle"
  BY <1>1
<1>4. HexWriter'
  BY <1>1, <1>3, WriterRests, Zenon
<1>5. /\ mem \in Images /\ mem' = mem /\ file' = file /\ pos' = pos /\ load_addr' = load_addr
      /\ load_addr \in Nat /\ pos \in 1 .. Len(file) + 1
  BY <1>1, Zenon DEF HexWriter, HexReader
<1>6. mem.size \in Nat /\ mem.size <= FreshSize /\ FreshSize \in Nat
  BY <1>5, ImageIs, Zenon
<1>7. /\ IsOut(out')
      /\ Enough(mem, t) => mem.size <= Len(out'.valid)
      /\ NoneInvented(mem, out', t)
  <2>1. CASE t = Hex!NoMemory
    <3>1. out' = Hex!Memory(FreshSize, FALSE)
      BY <1>2, <2>1, Zenon
    <3>2. /\ IsOut(out') /\ Len(out'.valid) = FreshSize
          /\ \A a \in 0 .. FreshSize - 1 : ~Flag(out', a)
      BY <1>6, <3>1, FreshMemory, Zenon
    <3> QED BY <1>6, <3>2, Zenon DEF NoneInvented
  <2>2. CASE t # Hex!NoMemory
    <3>1. out' = t
      BY <1>2, <2>2, Zenon
    <3>2. IsOut(t) /\ t.size \in Nat /\ Len(t.valid) = t.size
      BY <2>2, TargetIs, Zenon
    <3>3. Enough(mem, t) => mem.size <= Len(t.valid)
      BY <1>6, <2>2, <3>2 DEF Enough
    <3> QED BY <2>2, <3>1, <3>2, <3>3, Zenon DEF NoneInvented, Left
  <2> QED BY <2>1, <2>2
<1> QED BY <1>2, <1>3, <1>4, <1>5, <1>7, Zenon DEF HexReader

(* truncate drops what is behind the last valid byte, or finds none.       *)
Cuts(r, m) ==
  \/ r.exc # "ok" /\ r.mem = m /\ \A a \in 0 .. Len(m.valid) - 1 : ~m.valid[a + 1]
  \/ /\ r.exc = "ok" /\ IsOut(r.mem) /\ Len(r.mem.valid) <= Len(m.valid)
     /\ \A a \in 0 .. Len(r.mem.valid) - 1 :
          r.mem.data[a + 1] = m.data[a + 1] /\ r.mem.valid[a + 1] = m.valid[a + 1]
     /\ \A a \in Len(r.mem.valid) .. Len(m.valid) - 1 : ~m.valid[a + 1]

LEMMA Truncates ==
  ASSUME NEW m, IsOut(m)
  PROVE  Cuts(Hex!Truncate(m), m)
<1> DEFINE n == Len(m.valid)  T == {i \in 0 .. n - 1 : m.valid[i + 1] = TRUE}
           last == Ops!RFind(m, TRUE)  r == Hex!Truncate(m)
<1>1. IsMemory(m) /\ ~m.write_once
  BY Zenon DEF IsOut
<1>2. /\ m.data \in Seq(ByteValue) /\ m.valid \in Seq(BOOLEAN) /\ Len(m.data) = n /\ n \in Nat
      /\ m.size \in Nat /\ m.write_once \in BOOLEAN /\ m.valid \in [1 .. n -> BOOLEAN]
  BY <1>1, MemoryParts
<1>3. last = IF T = {} THEN -1 ELSE Ops!Max(T)
  BY Zenon DEF Ops!RFind
<1>4. /\ last < 0 => r = Ops!Raise("Uninitialized", m)
      /\ ~(last < 0) => r = Ops!TruncateTo(m, last)
  BY HexTruncate, Zenon DEF Ops!Truncate
<1> HIDE DEF last, r
<1>5. CASE T = {}
  <2>1. last < 0
    BY <1>3, <1>5
  <2>2. r = Ops!Raise("Uninitialized", m)
    BY <1>4, <2>1
  <2>3. r.exc # "ok" /\ r.mem = m
    BY <2>2 DEF Ops!Raise
  <2>4. \A a \in 0 .. n - 1 : ~m.valid[a + 1]
    BY <1>5, Zenon
  <2> QED BY <2>3, <2>4, Zenon DEF Cuts, r
<1>6. CASE T # {}
  <2>1. \A x \in T : x \in Nat /\ x <= n
    BY <1>2
  <2>2. last \in T /\ \A y \in T : last >= y
    BY <1>2, <1>3, <1>6, <2>1, MaxOfSet, Zenon
  <2>3. last \in 0 .. n - 1 /\ last \in Nat /\ ~(last < 0)
    BY <2>2
  <2>4. r = Ops!TruncateTo(m, last)
    BY <1>4, <2>3
  <2> DEFINE z == last + 1  d == Ops!Slice(m.data, 0, z)  v == Ops!Slice(m.valid, 0, z)
             q == MemoryWith(d, v, z, m.write_once)
  <2>5. z \in Nat /\ z <= n /\ z <= Len(m.data) /\ z <= Len(m.valid)
    <3>1. z \in Nat /\ z <= n
      BY <1>2, <2>3
    <3> QED BY <1>2, <3>1
  <2>6. r.mem = q /\ r.exc = "ok"
    <3>1. r = Ops!Done(WithAll(m, z, d, v))
      BY <2>4, Zenon DEF Ops!TruncateTo, WithAll
    <3>2. r = Ops!Done(q)
      BY <1>1, <3>1, AllReplaced, Zenon
    <3> HIDE DEF q
    <3> QED BY <3>2 DEF Ops!Done
  <2> HIDE DEF z
  <2>7. d \in Seq(ByteValue) /\ Len(d) = z /\ \A i \in 1 .. z : d[i] = m.data[i]
    BY <1>2, <2>5, PrefixSeq
  <2>8. v \in Seq(BOOLEAN) /\ Len(v) = z /\ \A i \in 1 .. z : v[i] = m.valid[i]
    BY <1>2, <2>5, PrefixSeq
  <2> HIDE DEF d, v
  <2>9. IsMemory(q) /\ q.data = d /\ q.valid = v /\ q.write_once = m.write_once
    <3>1. Len(d) = Len(v) /\ z <= Len(d)
      BY <2>5, <2>7, <2>8
    <3>2. IsMemory(q)
      BY <1>2, <2>5, <2>7, <2>8, <3>1, MemoryWithParts, Zenon
    <3>3. q.data = d /\ q.valid = v /\ q.write_once = m.write_once
      BY PartsOf
    <3> QED BY <3>2, <3>3
  <2> HIDE DEF q
  <2>10. IsOut(q) /\ Len(q.valid) = z
    BY <1>1, <2>8, <2>9, Zenon DEF IsOut
  <2>11. ASSUME NEW a \in 0 .. z - 1
         PROVE  q.data[a + 1] = m.data[a + 1] /\ q.valid[a + 1] = m.valid[a + 1]
    <3>1. a + 1 \in 1 .. z
      BY <2>5
    <3> QED BY <2>7, <2>8, <2>9, <3>1, Zenon
  <2>12. ASSUME NEW a \in z .. n - 1 PROVE ~m.valid[a + 1]
    <3>1. a \in 0 .. n - 1 /\ ~(last >= a) /\ a + 1 \in 1 .. n
      BY <2>3, <2>5 DEF z
    <3>2. a \notin T
      <4> HIDE DEF T
      <4> QED BY <2>2, <3>1
    <3>3. ~(m.valid[a + 1] = TRUE) /\ m.valid[a + 1] \in BOOLEAN
      BY <1>2, <3>1, <3>2
    <3> QED BY <3>3
  <2> QED BY <2>5, <2>6, <2>10, <2>11, <2>12, Zenon DEF Cuts, r
<1> QED BY <1>5, <1>6

(* A record read into out                                                  *)
ReadsFrom(i) ==
  /\ FirstMark(i) /\ Readable(file, i) /\ file[i + 4] = 0 /\ ~(At(file, i) < load_addr)
  /\ out' = Hex!SetSlice(out, At(file, i), At(file, i) + Len(DataOf(file, i)), DataOf(file, i)).mem
  /\ load_addr' = At(file, i) + Len(DataOf(file, i)) /\ pos' = Stop(file, i) + 1

LEMMA DataIs ==
  ASSUME file \in Seq(Token), NEW i, Readable(file, i)
  PROVE  /\ IsPiece(DataOf(file, i), Octet, file, i + 4, file[i + 1])
         /\ DataOf(file, i) \in Seq(ByteValue)
<1> DEFINE n == file[i + 1]  s == Stop(file, i)
<1>1. Len(file) \in Nat
  BY LenProperties
<1>2. i \in Nat /\ n \in Nat /\ s = i + 5 + n /\ s \in Nat
  BY <1>1, RecordParts, Zenon
<1>3. \A j \in i + 1 .. s : file[j] \in Octet
  BY Zenon DEF Readable
<1> HIDE DEF n, s
<1>4. /\ i + 4 \in Int /\ i + 4 + n \in Int /\ i + 4 + n = (i + 4) + n /\ (i + 4) + 1 = i + 5
      /\ \A k \in (i + 4) + 1 .. i + 4 + n : k \in i + 1 .. s
  BY <1>2
<1>5. \A k \in (i + 4) + 1 .. i + 4 + n : file[k] \in Octet
  BY <1>3, <1>4, Zenon
<1>6. IsPiece(SubSeq(file, (i + 4) + 1, i + 4 + n), Octet, file, i + 4, n)
  BY <1>2, <1>4, <1>5, PieceOf, Zenon
<1>7. DataOf(file, i) = SubSeq(file, (i + 4) + 1, i + 4 + n)
  BY <1>4 DEF DataOf, n
<1>8. Octet \subseteq ByteValue
  BY ByteModIs DEF Octet, ByteValue
<1>9. DataOf(file, i) \in Seq(Octet)
  BY <1>6, <1>7, Zenon DEF IsPiece
<1>10. DataOf(file, i) \in Seq(ByteValue)
  BY <1>8, <1>9, SeqMonotonic, Zenon
<1> QED BY <1>6, <1>7, <1>10, Zenon DEF n

LEMMA DataRead ==
  ASSUME HexWriter, HexReader, Hex!ReadData
  PROVE  \E i : ReadsFrom(i)
<1> DEFINE r == Hex!NextRecord
<1>1. file \in Seq(Token) /\ pos \in Nat /\ pos >= 1
  <2>1. file \in Seq(Token) /\ pos \in 1 .. Len(file) + 1
    BY Zenon DEF HexWriter, HexReader
  <2> QED BY <2>1
<1>2. NextIs(r)
  BY <1>1, NextRecordIs, Zenon
<1>3. /\ r.kind = "data"
      /\ out' = Hex!SetSlice(out, r.addr, r.addr + Len(r.data), r.data).mem
      /\ load_addr' = r.addr + Len(r.data) /\ pos' = r.next
  BY Zenon DEF Hex!ReadData, Hex!NextLoadAddr
<1> HIDE DEF r
<1>4. PICK i : FirstMark(i) /\ Reads(r, i)
  BY <1>2, <1>3 DEF NextIs
<1>5. /\ Readable(file, i) /\ file[i + 4] = 0 /\ ~(At(file, i) < load_addr) /\ IsData(r, i)
  BY <1>3, <1>4 DEF Reads
<1>6. r.addr = At(file, i) /\ r.data = DataOf(file, i) /\ r.next = i + 6 + file[i + 1]
  BY <1>5, Zenon DEF IsData
<1>7. i + 6 + file[i + 1] = Stop(file, i) + 1
  <2>1. Len(file) \in Nat
    BY <1>1, LenProperties, Zenon
  <2>2. i \in Nat /\ file[i + 1] \in Nat /\ Stop(file, i) = i + 5 + file[i + 1]
    BY <1>5, <2>1, RecordParts, Zenon
  <2> QED BY <2>2
<1> QED BY <1>3, <1>4, <1>5, <1>6, <1>7, Zenon DEF ReadsFrom

LEMMA NoneInventedRead ==
  ASSUME NEW r, NEW i, HexWriter, IsOut(out), Enough(mem, target) => mem.size <= Len(out.valid),
         Enough(mem, target) => NoneInvented(mem, out, target), Readable(file, i),
         file[i + 4] = 0,
         Stores(r, out, At(file, i), At(file, i) + Len(DataOf(file, i)), DataOf(file, i)),
         Enough(mem, target)
  PROVE  Len(r.valid) = Len(out.valid) /\ NoneInvented(mem, r, target)
<1> DEFINE p == At(file, i)  d == DataOf(file, i)  n == file[i + 1]  z == Len(out.valid)
           M == Len(mem.valid)
<1>1. /\ mem \in Images /\ file \in Seq(Token) /\ Fine(mem, file)
  BY Zenon DEF HexWriter
<1>2. Len(file) \in Nat
  BY <1>1, LenProperties, Zenon
<1>3. n \in Nat /\ p \in Nat /\ i \in Nat
  BY <1>2, RecordParts, Zenon
<1>4. Len(d) = n /\ \A k \in 1 .. n : d[k] = file[(i + 4) + k]
  BY <1>1, DataIs, Zenon DEF IsPiece
<1>5. mem.size = M /\ M \in Nat
  BY <1>1, ImageIs, Zenon
<1>6. z \in Nat /\ M <= z
  <2>1. out.valid \in Seq(BOOLEAN)
    BY MemoryParts, Zenon DEF IsOut
  <2> QED BY <1>5, <2>1, LenProperties
<1>7. \A k \in 0 .. n - 1 :
        p + k < M /\ mem.valid[(p + k) + 1] /\ mem.data[(p + k) + 1] = file[(i + 5) + k]
  BY <1>1, Zenon DEF Fine, Faithful
<1>8. Stores(r, out, p, p + n, d)
  BY <1>4, Zenon
<1> HIDE DEF p, d, n, z, M
<1>9. p + n <= z \/ n = 0
  <2> SUFFICES ASSUME n # 0 PROVE p + n <= z
    BY <1>3
  <2>1. n - 1 \in 0 .. n - 1
    BY <1>3
  <2>2. p + (n - 1) < M
    BY <1>7, <2>1, Zenon
  <2> QED BY <1>3, <1>5, <1>6, <2>2
<1>10. /\ Len(r.valid) = z
       /\ \A k \in 1 .. n : r.data[p + k] = d[k] /\ r.valid[p + k]
       /\ \A k \in 1 .. z : k <= p \/ k > p + n => r.data[k] = out.data[k] /\ r.valid[k] = out.valid[k]
  BY <1>4, <1>8, <1>9, Zenon DEF Stores, z
<1>11. ASSUME NEW a \in 0 .. z - 1, Flag(r, a), ~Left(r, target, a)
       PROVE  Known(mem, r, a)
  <2>1. a \in Nat /\ a + 1 \in 1 .. z
    BY <1>6
  <2>2. CASE p <= a /\ a < p + n
    <3>1. PICK k \in 0 .. n - 1 : a = p + k
      <4>1. a - p \in 0 .. n - 1 /\ a = p + (a - p)
        BY <1>3, <2>1, <2>2
      <4> QED BY <4>1
    <3>2. /\ k + 1 \in 1 .. n /\ p + (k + 1) = a + 1 /\ (p + k) + 1 = a + 1
          /\ (i + 4) + (k + 1) = (i + 5) + k
      BY <1>3, <3>1
    <3>3. r.data[p + (k + 1)] = d[k + 1] /\ d[k + 1] = file[(i + 4) + (k + 1)]
      BY <1>4, <1>10, <3>2, Zenon
    <3>4. r.data[a + 1] = file[(i + 5) + k]
      BY <3>2, <3>3
    <3>5. p + k < M /\ mem.valid[(p + k) + 1] /\ mem.data[(p + k) + 1] = file[(i + 5) + k]
      BY <1>7, <3>1, Zenon
    <3>6. a < M /\ mem.valid[a + 1] /\ mem.data[a + 1] = file[(i + 5) + k]
      BY <3>1, <3>2, <3>5
    <3> QED BY <3>4, <3>6, Zenon DEF Known, Flag, M
  <2>3. CASE ~(p <= a /\ a < p + n)
    <3>1. a + 1 <= p \/ a + 1 > p + n
      BY <1>3, <2>1, <2>3
    <3>2. r.data[a + 1] = out.data[a + 1] /\ r.valid[a + 1] = out.valid[a + 1]
      BY <1>10, <2>1, <3>1, Zenon
    <3>3. Flag(out, a) /\ ~Left(out, target, a)
      BY <1>10, <1>11, <3>2, Zenon DEF Flag, Left, z
    <3>4. Known(mem, out, a)
      BY <1>11, <3>3, Zenon DEF NoneInvented, z
    <3> QED BY <3>2, <3>4, Zenon DEF Known
  <2> QED BY <2>2, <2>3
<1> QED BY <1>10, <1>11, Zenon DEF NoneInvented, z

LEMMA ReadDataKeeps ==
  ASSUME HexWriter, HexReader, Hex!ReadData
  PROVE  HexWriter' /\ HexReader'
<1>1. /\ rpc = "reading" /\ rpc' = rpc /\ target' = target
      /\ UNCHANGED <<mem, entry_addr, wpc, addr, sl, file, fault>>
  BY Zenon DEF Hex!ReadData, Hex!wvars
<1>2. rpc # "idle" /\ rpc' # "idle" /\ rpc' \in {"reading", "done", "failed"}
  BY <1>1
<1>3. wpc = "done" /\ mem \in Images /\ file \in Seq(Token)
  BY <1>2, Zenon DEF HexWriter
<1>4. HexWriter'
  BY <1>1, <1>2, <1>3, WriterRests, Zenon
<1>5. /\ IsOut(out)
      /\ target # Hex!NoMemory => target \in Targets
      /\ Enough(mem, target) => mem.size <= Len(out.valid)
      /\ Enough(mem, target) => NoneInvented(mem, out, target)
  BY <1>1, <1>2, Zenon DEF HexReader
<1>6. PICK i : ReadsFrom(i)
  BY DataRead, Zenon
<1> DEFINE p == At(file, i)  d == DataOf(file, i)  s == Stop(file, i)
<1>7. /\ Readable(file, i) /\ file[i + 4] = 0
      /\ out' = Hex!SetSlice(out, p, p + Len(d), d).mem
      /\ load_addr' = p + Len(d) /\ pos' = s + 1
  BY <1>6, Zenon DEF ReadsFrom
<1>8. Len(file) \in Nat
  BY <1>3, LenProperties, Zenon
<1>9. p \in Nat /\ s \in Nat /\ s <= Len(file) /\ d \in Seq(ByteValue)
  BY <1>3, <1>7, <1>8, RecordParts, DataIs, Zenon
<1> HIDE DEF p, d, s
<1>10. Len(d) \in Nat /\ p + Len(d) \in Nat
  BY <1>9, LenProperties
<1>11. Stores(out', out, p, p + Len(d), d)
  <2> DEFINE e == p + Len(d)
  <2>1. e \in Nat /\ e = p + Len(d)
    BY <1>10
  <2> HIDE DEF e
  <2>2. Stores(Hex!SetSlice(out, p, e, d).mem, out, p, e, d)
    BY <1>5, <1>9, <2>1, StoresRecord, Zenon
  <2> QED BY <1>7, <2>1, <2>2
<1>12. IsOut(out')
  BY <1>11, Zenon DEF Stores
<1>13. Enough(mem, target) => Len(out'.valid) = Len(out.valid) /\ NoneInvented(mem, out', target)
  <2> SUFFICES ASSUME Enough(mem, target)
               PROVE  Len(out'.valid) = Len(out.valid) /\ NoneInvented(mem, out', target)
    OBVIOUS
  <2>1. Stores(out', out, At(file, i), At(file, i) + Len(DataOf(file, i)), DataOf(file, i))
    BY <1>11 DEF p, d
  <2> QED BY <1>5, <1>7, <2>1, NoneInventedRead, Zenon
<1>14. pos' \in 1 .. Len(file) + 1 /\ load_addr' \in Nat
  BY <1>7, <1>8, <1>9, <1>10
<1>15. mem' = mem /\ file' = file /\ target' = target
  BY <1>1
<1>16. Enough(mem, target) => mem.size <= Len(out'.valid)
  BY <1>5, <1>13
<1> QED BY <1>2, <1>4, <1>5, <1>12, <1>13, <1>14, <1>15, <1>16, Zenon DEF HexReader

LEMMA ReadEndKeeps ==
  ASSUME HexWriter, HexReader, Hex!ReadEnd
  PROVE  HexWriter' /\ HexReader'
<1>1. /\ rpc = "reading" /\ target' = target
      /\ UNCHANGED <<mem, entry_addr, wpc, addr, sl, file, fault, pos, load_addr>>
  BY Zenon DEF Hex!ReadEnd, Hex!wvars
<1>2. /\ target = Hex!NoMemory =>
           /\ out' = Hex!Truncate(out).mem
           /\ rpc' = IF Hex!Truncate(out).exc = "ok" THEN "done" ELSE "failed"
      /\ target # Hex!NoMemory => rpc' = "done" /\ out' = out
  BY Zenon DEF Hex!ReadEnd
<1>3. rpc' \in {"done", "failed"}
  BY <1>2
<1>4. rpc # "idle" /\ rpc' # "idle" /\ rpc' # "reading" /\ rpc' \in {"reading", "done", "failed"}
  BY <1>1, <1>3
<1>5. wpc = "done"
  BY <1>4, Zenon DEF HexWriter
<1>6. HexWriter'
  BY <1>1, <1>4, <1>5, WriterRests, Zenon
<1>7. /\ load_addr \in Nat /\ pos \in 1 .. Len(file) + 1
      /\ IsOut(out)
      /\ target # Hex!NoMemory => target \in Targets
      /\ Enough(mem, target) => NoneInvented(mem, out, target)
  BY <1>4, Zenon DEF HexReader
<1>8. IsOut(out') /\ (NoneInvented(mem, out, target) => NoneInvented(mem, out', target))
  <2>1. CASE target # Hex!NoMemory
    BY <1>2, <1>7, <2>1, Zenon
  <2>2. CASE target = Hex!NoMemory
    <3> DEFINE r == Hex!Truncate(out)
    <3>1. Cuts(r, out) /\ out' = r.mem
      BY <1>2, <1>7, <2>2, Truncates, Zenon
    <3> HIDE DEF r
    <3>2. CASE r.exc # "ok"
      BY <1>7, <3>1, <3>2, Zenon DEF Cuts
    <3>3. CASE r.exc = "ok"
      <4> DEFINE x == Len(r.mem.valid)  z == Len(out.valid)
      <4>1. /\ IsOut(r.mem) /\ x <= z
            /\ \A a \in 0 .. x - 1 :
                 r.mem.data[a + 1] = out.data[a + 1] /\ r.mem.valid[a + 1] = out.valid[a + 1]
        BY <3>1, <3>3, Zenon DEF Cuts
      <4>2. x \in Nat /\ z \in Nat
        <5>1. out.valid \in Seq(BOOLEAN) /\ r.mem.valid \in Seq(BOOLEAN)
          BY <1>7, <4>1, MemoryParts, Zenon DEF IsOut
        <5> QED BY <5>1, LenProperties
      <4>3. ASSUME NoneInvented(mem, out, target), NEW a \in 0 .. x - 1,
                   Flag(out', a), ~Left(out', target, a)
            PROVE  Known(mem, out', a)
        <5>1. a \in 0 .. z - 1 /\ a < z
          <6> HIDE DEF x, z
          <6> QED BY <4>1, <4>2
        <5>2. out'.data[a + 1] = out.data[a + 1] /\ out'.valid[a + 1] = out.valid[a + 1]
          BY <3>1, <4>1
        <5>3. Flag(out, a) /\ ~Left(out, target, a)
          BY <4>3, <5>1, <5>2, Zenon DEF Flag, Left
        <5>4. Known(mem, out, a)
          BY <4>3, <5>1, <5>3, Zenon DEF NoneInvented
        <5> QED BY <5>2, <5>4, Zenon DEF Known
      <4> QED BY <3>1, <4>1, <4>3, Zenon DEF NoneInvented
    <3> QED BY <3>2, <3>3
  <2> QED BY <2>1, <2>2
<1>9. mem' = mem /\ file' = file /\ target' = target /\ pos' = pos /\ load_addr' = load_addr
  BY <1>1
<1> QED BY <1>4, <1>6, <1>7, <1>8, <1>9, Zenon DEF HexReader

LEMMA ReadFailsKeeps ==
  ASSUME HexWriter, HexReader, Hex!ReadFails
  PROVE  HexWriter' /\ HexReader'
<1>1. /\ rpc = "reading" /\ rpc' = "failed"
      /\ UNCHANGED <<mem, entry_addr, wpc, addr, sl, file, fault, pos, load_addr, target, out>>
  BY Zenon DEF Hex!ReadFails, Hex!wvars
<1>2. rpc # "idle" /\ rpc' # "idle" /\ rpc' # "reading" /\ rpc' \in {"reading", "done", "failed"}
  BY <1>1
<1>3. wpc = "done"
  BY <1>2, Zenon DEF HexWriter
<1>4. HexWriter'
  BY <1>1, <1>2, <1>3, WriterRests, Zenon
<1>5. /\ load_addr \in Nat /\ pos \in 1 .. Len(file) + 1
      /\ IsOut(out)
      /\ target # Hex!NoMemory => target \in Targets
      /\ Enough(mem, target) => NoneInvented(mem, out, target)
  BY <1>2, Zenon DEF HexReader
<1>6. /\ mem' = mem /\ file' = file /\ target' = target /\ pos' = pos /\ load_addr' = load_addr
      /\ out' = out
  BY <1>1
<1> QED BY <1>2, <1>4, <1>5, <1>6, Zenon DEF HexReader

LEMMA ReadKeeps ==
  ASSUME HexWriter, HexReader, Hex!Read
  PROVE  HexWriter' /\ HexReader'
BY StartReadKeeps, ReadDataKeeps, ReadEndKeeps, ReadFailsKeeps, Zenon DEF Hex!Read

LEMMA WriteKeeps ==
  ASSUME HexWriter, HexReader, Hex!Write
  PROVE  HexWriter' /\ HexReader'
<1>1. HexWriter'
  BY WriteRangeKeeps, WriteRecordKeeps, Zenon DEF Hex!Write
<1>2. wpc # "done"
  BY DEF Hex!Write, Hex!WriteRange, Hex!WriteRecord
<1>3. rpc = "idle"
  BY <1>2, Zenon DEF HexWriter
<1>4. UNCHANGED <<mem, rpc, pos, load_addr, target, out>>
  BY Zenon DEF Hex!Write, Hex!WriteRange, Hex!WriteRecord, Hex!rvars
<1>5. file' \in Seq(Token)
  BY <1>1, Zenon DEF HexWriter
<1> QED BY <1>1, <1>3, <1>4, <1>5, ReaderWaits, Zenon

LEMMA FaultKeeps ==
  ASSUME HexWriter, HexReader, Hex!Damage
  PROVE  HexWriter' /\ HexReader'
<1>1. HexWriter'
  BY DamageKeeps, Zenon
<1>2. rpc = "idle" /\ UNCHANGED <<mem, rpc, pos, load_addr, target, out>>
  BY Zenon DEF Hex!Damage, Hex!wvars, Hex!rvars
<1>3. file' \in Seq(Token)
  BY <1>1, Zenon DEF HexWriter
<1> QED BY <1>1, <1>2, <1>3, ReaderWaits, Zenon

HexHolds == tool = "intelhex" => HexWriter /\ HexReader

LEMMA NoLines ==
  ASSUME NEW m
  PROVE  AllLines(m, <<>>) /\ <<>> \in Seq(Token) /\ Len(<<>>) = 0
<1>1. <<>> \in Seq(Token) /\ Len(<<>>) = 0
  OBVIOUS
<1> DEFINE f == <<>>
<1>2. Len(f) = 0 /\ f \in Seq(Token) /\ \A i \in 1 .. Len(f) : FALSE
  BY <1>1
<1> HIDE DEF f
<1>3. Boundary(f, 1)
  BY <1>2 DEF Boundary
<1>4. AllLines(m, f)
  BY <1>2, <1>3, Zenon DEF AllLines
<1> QED BY <1>2, <1>4 DEF f

LEMMA HexInit ==
  ASSUME Hex!Init
  PROVE  HexWriter /\ HexReader
<1>1. /\ mem \in Images /\ entry_addr \in Entries /\ wpc = "range" /\ addr = 0
      /\ sl = Hex!NoRange /\ file = <<>> /\ fault = "none" /\ rpc = "idle" /\ pos = 1
      /\ load_addr = 0 /\ target = Hex!NoMemory /\ out = Hex!Memory(0, FALSE)
  BY Zenon DEF Hex!Init
<1>2. mem.size \in Nat
  BY <1>1, ImageIs, Zenon
<1>3. sl.stop \in Nat /\ sl.stop <= mem.size
  BY <1>1, <1>2 DEF Hex!NoRange
<1>4. AllLines(mem, file) /\ file \in Seq(Token) /\ Len(file) = 0
  BY <1>1, NoLines, Zenon
<1>5. Fine(mem, file)
  BY <1>4, WholeLinesAreFine, Zenon
<1>6. 0 \in Nat
  OBVIOUS
<1>7. IsOut(out)
  BY <1>1, <1>6, FreshMemory, Zenon
<1>8. /\ wpc \in {"range", "record", "done"} /\ wpc # "record"
      /\ rpc \in {"idle", "reading", "done", "failed"} /\ rpc # "reading"
  BY <1>1
<1>9. addr \in Nat /\ load_addr \in Nat /\ pos \in 1 .. Len(file) + 1
  BY <1>1, <1>4
<1>10. HexWriter
  BY <1>1, <1>3, <1>4, <1>5, <1>8, <1>9, Zenon DEF HexWriter
<1>11. HexReader
  BY <1>1, <1>7, <1>8, <1>9, Zenon DEF HexReader
<1> QED BY <1>10, <1>11

LEMMA HexInvariant == Spec => []HexHolds
<1>1. Init => HexHolds
  <2>1. "intelhex" # "vmem" /\ "intelhex" # "memory" /\ "intelhex" # "glacial"
    OBVIOUS
  <2> QED BY <2>1, HexInit, Zenon DEF Init, HexHolds
<1>2. HexHolds /\ [Next]_vars => HexHolds'
  <2> SUFFICES ASSUME HexHolds, [Next]_vars PROVE HexHolds'
    OBVIOUS
  <2>1. CASE Next /\ tool = "intelhex"
    <3>1. "intelhex" # "vmem" /\ "intelhex" # "memory" /\ "intelhex" # "glacial"
      OBVIOUS
    <3>2. Hex!Write \/ Hex!Damage \/ Hex!Read
      BY <2>1, <3>1, Zenon DEF Next, OpsNext, HexWrite, HexOther, ImgNext, EncNext
    <3>3. HexWriter /\ HexReader
      BY <2>1, Zenon DEF HexHolds
    <3> QED BY <3>2, <3>3, WriteKeeps, FaultKeeps, ReadKeeps, Zenon DEF HexHolds
  <2>2. CASE Next /\ tool # "intelhex"
    <3>1. tool' = tool
      BY <2>2, Zenon DEF Next, OpsNext, HexWrite, HexOther, HexRest, ImgNext, EncNext
    <3> QED BY <2>2, <3>1, Zenon DEF HexHolds
  <2>3. CASE UNCHANGED vars
    <3>1. UNCHANGED <<tool, mem, entry_addr, wpc, addr, sl, file, fault, rpc, pos, load_addr,
                      target, out>>
      BY <2>3, Zenon DEF vars, hexvars
    <3> QED BY <3>1, Zenon DEF HexHolds, HexWriter, HexReader
  <2> QED BY <2>1, <2>2, <2>3, Zenon
<1> QED BY <1>1, <1>2, PTL DEF Spec

(* intelhex.py: whatever one fault does to a file, for every image that    *)
(* two bytes can address and every target that is at least as large as it, *)
(* a byte that is read is the byte written at that address.                *)
THEOREM DamageNeverInvents == Spec => []NeverInvents
<1>1. HexHolds => NeverInvents
  BY NeverInventsIs, Zenon DEF HexHolds, HexReader, NeverInvents
<1> QED BY <1>1, HexInvariant, PTL

(***************************************************************************)
(* Types.  What decode_instruction takes out of a word has 12 bits at most *)
(***************************************************************************)
SmallField(field, f) ==
  \/ field \in {Run(0, 0), Run(0, 7), Run(0, 10), Run(8, 10), Run(11, 11), Run(11, 13)}
  \/ f # "j" /\ field = Run(0, 11)

SmallFields(form) == \A f \in DOMAIN form.fields : SmallField(form.fields[f], f)

LEMMA SmallOne ==
  ASSUME NEW form, NEW f, DOMAIN form.fields = {f}, SmallField(form.fields[f], f)
  PROVE  SmallFields(form)
BY Zenon DEF SmallFields

LEMMA OperandFormsSmall ==
  ASSUME NEW code, NEW form \in {ImmediateForm(code), MemForm(code), IndirectForm(code),
                                 PostincrementForm(code)}
  PROVE  SmallFields(form)
<1>1. \/ DOMAIN form.fields = {"i"} /\ form.fields["i"] = Run(0, 7)
      \/ DOMAIN form.fields = {"m"} /\ form.fields["m"] = Run(0, 7)
      \/ DOMAIN form.fields = {"x"} /\ form.fields["x"] = Run(0, 0)
  BY FormFields
<1> QED BY <1>1, SmallOne DEF SmallField

LEMMA AllSmall ==
  ASSUME NEW m \in Mnemonics, NEW k \in DOMAIN Forms[m]
  PROVE  SmallFields(Forms[m][k])
<1> DEFINE form == Forms[m][k]
<1>1. CASE m = "opr"
  <2>1. k = 1
    BY <1>1, Table
  <2>2. DOMAIN form.fields = {"i"} /\ form.fields["i"] = Run(0, 11)
    BY <1>1, <2>1 DEF Forms, Form, Run
  <2> HIDE DEF form
  <2>3. SmallFields(form)
    BY <2>2, SmallOne DEF SmallField
  <2> QED BY <2>3 DEF form
<1>2. CASE m \in {"jump", "call"}
  <2>1. k = 1
    BY <1>2, Table
  <2>2. DOMAIN form.fields = {"j"} /\ form.fields["j"] = Run(0, 10)
    BY <1>2, <2>1 DEF Forms, Form, Run
  <2> HIDE DEF form
  <2>3. SmallFields(form)
    BY <2>2, SmallOne DEF SmallField
  <2> QED BY <2>3 DEF form
<1>3. CASE m = "br"
  <2>1. k = 1
    BY <1>3, Table
  <2>2. /\ DOMAIN form.fields = {"c", "j"} /\ form.fields["j"] = Run(0, 10)
        /\ form.fields["c"] = Run(11, 13)
    BY <1>3, <2>1 DEF Forms, Form, Run
  <2> HIDE DEF form
  <2>3. SmallField(form.fields["j"], "j") /\ SmallField(form.fields["c"], "c")
    BY <2>2 DEF SmallField
  <2>4. SmallFields(form)
    BY <2>2, <2>3 DEF SmallFields
  <2> QED BY <2>4 DEF form
<1>4. CASE m = "store"
  <2>1. form \in {MemForm(0), IndirectForm(0), PostincrementForm(0)}
    BY <1>4, Table DEF Forms
  <2> HIDE DEF form
  <2>2. SmallFields(form)
    BY <2>1, OperandFormsSmall
  <2> QED BY <2>2 DEF form
<1>5. CASE m \in {"load", "and", "xor", "adc"}
  <2>1. PICK code \in Operations : Forms[m] = OperationForms(code)
    BY <1>5, Table DEF Operations
  <2>2. k = 1 \/ k = 2 \/ k = 3 \/ k = 4
    BY <2>1, FourOperationForms
  <2>3. form \in {ImmediateForm(code), MemForm(16384 + code),
                  IndirectForm(16384 + code), PostincrementForm(16384 + code)}
    BY <2>1, <2>2 DEF OperationForms
  <2> HIDE DEF form
  <2>4. SmallFields(form)
    BY <2>3, OperandFormsSmall
  <2> QED BY <2>4 DEF form
<1>6. CASE m = "skb"
  <2>1. k = 1 \/ k = 2 \/ k = 3
    BY <1>6, Table
  <2>2. /\ DOMAIN form.fields = {"i", "b", "m"} \/ DOMAIN form.fields = {"i", "b", "x"}
        /\ form.fields["i"] = Run(11, 11) /\ form.fields["b"] = Run(8, 10)
        /\ "m" \in DOMAIN form.fields => form.fields["m"] = Run(0, 7)
        /\ "x" \in DOMAIN form.fields => form.fields["x"] = Run(0, 0)
    BY <1>6, <2>1 DEF Forms, Form, Run
  <2> HIDE DEF form
  <2>3. \A f \in DOMAIN form.fields : SmallField(form.fields[f], f)
    BY <2>2 DEF SmallField
  <2>4. SmallFields(form)
    BY <2>3, Zenon DEF SmallFields
  <2> QED BY <2>4 DEF form
<1> QED BY Table, <1>1, <1>2, <1>3, <1>4, <1>5, <1>6

Decodable == {n \in Nat : n < 4096}

LEMMA SmallValue ==
  ASSUME NEW w \in Words16, NEW f, NEW field, SmallField(field, f)
  PROVE  (IF f = "j" THEN 2 * Extracted(w, field) ELSE 1 * Extracted(w, field)) \in Decodable
<1>1. w \in Nat
  BY DEF Words16
<1>2. ASSUME field \in {Run(0, 0), Run(0, 7), Run(0, 10), Run(8, 10), Run(11, 11), Run(11, 13)}
      PROVE  Extracted(w, field) \in Nat /\ Extracted(w, field) < 2048
  <2>1. Extracted(w, field) \in {w % 2, w % 256, w % 2048, (w \div 256) % 8, (w \div 2048) % 2,
                                 (w \div 2048) % 8}
    BY <1>2, Field_0_0, Field_0_7, Field_0_10, Field_8_10, Field_11_11, Field_11_13
  <2>2. /\ w % 2 \in Nat /\ w % 2 < 2048 /\ w % 256 \in Nat /\ w % 256 < 2048
        /\ w % 2048 \in Nat /\ w % 2048 < 2048
    BY <1>1
  <2>3. ASSUME NEW q \in Nat
        PROVE  q % 8 \in Nat /\ q % 8 < 2048 /\ q % 2 \in Nat /\ q % 2 < 2048
    OBVIOUS
  <2>4. w \div 256 \in Nat /\ w \div 2048 \in Nat
    BY <1>1
  <2> QED BY <2>1, <2>2, <2>3, <2>4
<1>3. ASSUME field = Run(0, 11) PROVE Extracted(w, field) \in Nat /\ Extracted(w, field) < 4096
  <2>1. Extracted(w, field) = w % 4096
    BY <1>3, Field_0_11
  <2> QED BY <1>1, <2>1
<1> DEFINE v == Extracted(w, field)
<1>4. CASE field \in {Run(0, 0), Run(0, 7), Run(0, 10), Run(8, 10), Run(11, 11), Run(11, 13)}
  <2>1. v \in Nat /\ v < 2048
    BY <1>2, <1>4
  <2> HIDE DEF v
  <2>2. 2 * v \in Decodable /\ 1 * v \in Decodable
    BY <2>1 DEF Decodable
  <2> QED BY <2>2, Zenon DEF v
<1>5. CASE f # "j" /\ field = Run(0, 11)
  <2>1. v \in Nat /\ v < 4096
    BY <1>3, <1>5
  <2> HIDE DEF v
  <2>2. 1 * v \in Decodable
    BY <2>1 DEF Decodable
  <2> QED BY <1>5, <2>2, Zenon DEF v
<1> QED BY <1>4, <1>5 DEF SmallField

LEMMA DecodedSmall ==
  ASSUME NEW w \in Words16, Matching(w) # {}
  PROVE  \A f \in DOMAIN Decoded(w).fields : Decoded(w).fields[f] \in Decodable
<1> DEFINE m == Entry(w)[1]  k == Entry(w)[2]  form == Forms[m][k]
           g == [f \in DOMAIN form.fields |-> ExtractField(w, form, f)]
<1>1. /\ m \in Mnemonics /\ k \in DOMAIN Forms[m]
      /\ Decoded(w) = [mnem |-> m, types |-> form.types, fields |-> g]
  BY DecodedEntry
<1>2. Decoded(w).fields = g
  <2> HIDE DEF g, form, m
  <2> QED BY <1>1
<1>3. SmallFields(form)
  BY <1>1, AllSmall, Zenon
<1>4. ASSUME NEW f \in DOMAIN form.fields PROVE g[f] \in Decodable
  <2>1. SmallField(form.fields[f], f)
    BY <1>3, Zenon DEF SmallFields
  <2>2. g[f] = ExtractField(w, form, f)
    BY Zenon
  <2>3. ExtractField(w, form, f) = IF f = "j" THEN 2 * Extracted(w, form.fields[f])
                                   ELSE 1 * Extracted(w, form.fields[f])
    BY DEF ExtractField
  <2> HIDE DEF form, g
  <2>4. (IF f = "j" THEN 2 * Extracted(w, form.fields[f]) ELSE 1 * Extracted(w, form.fields[f]))
          \in Decodable
    BY <2>1, SmallValue, Zenon
  <2> QED BY <2>2, <2>3, <2>4
<1>5. DOMAIN g = DOMAIN form.fields
  OBVIOUS
<1> QED BY <1>2, <1>4, <1>5, Zenon

EncErrors == {"none", "UnknownMnemonic", "NoMatchingForm", "AssertionError", "BadInstruction"}

EncExc == tool = "glacial" => exc \in EncErrors

LEMMA EncRaises == Spec => []EncExc
<1>1. Init => EncExc
  <2>1. "glacial" # "intelhex" /\ "glacial" # "memory" /\ "glacial" # "vmem"
        /\ "none" \in EncErrors
    BY DEF EncErrors
  <2> QED BY <2>1, Zenon DEF Init, EncExc, Enc!Init
<1>2. EncExc /\ [Next]_vars => EncExc'
  <2> SUFFICES ASSUME EncExc, [Next]_vars PROVE EncExc'
    OBVIOUS
  <2>1. CASE Next /\ tool = "glacial"
    <3>1. "glacial" # "intelhex" /\ "glacial" # "memory" /\ "glacial" # "vmem"
      OBVIOUS
    <3>2. Enc!AssembleInstruction \/ Enc!DecodeInstruction
      BY <2>1, <3>1, Zenon DEF Next, OpsNext, HexWrite, HexOther, ImgNext, EncNext, Enc!Next
    <3>3. exc \in EncErrors /\ tool' = tool
      BY <2>1, <3>1, Zenon DEF EncExc, Next, OpsNext, HexWrite, HexOther, ImgNext, EncNext
    <3>4. exc' = exc \/ exc' \in EncErrors
      <4>1. \A e : Enc!Fails(e) => exc' = e
        BY Zenon DEF Enc!Fails
      <4>2. \/ exc' = exc \/ exc' = "UnknownMnemonic" \/ exc' = "NoMatchingForm"
            \/ exc' = "AssertionError" \/ exc' = "BadInstruction"
        BY <3>2, <4>1, Zenon DEF Enc!AssembleInstruction, Enc!DecodeInstruction
      <4> QED BY <4>2 DEF EncErrors
    <3> QED BY <3>3, <3>4, Zenon DEF EncExc
  <2>2. CASE Next /\ tool # "glacial"
    <3>1. tool' = tool
      BY <2>2, Zenon DEF Next, OpsNext, HexWrite, HexOther, HexRest, ImgNext, EncNext
    <3> QED BY <2>2, <3>1, Zenon DEF EncExc
  <2>3. CASE UNCHANGED vars
    BY <2>3, Zenon DEF vars, EncExc
  <2> QED BY <2>1, <2>2, <2>3, Zenon
<1> QED BY <1>1, <1>2, PTL DEF Spec

LEMMA EncTyped ==
  ASSUME EncInv, exc \in EncErrors
  PROVE  Enc!TypeOK
<1>1. opcode = -1 \/ (opcode \in Nat /\ opcode < 65536)
  <2>1. CASE opcode # -1
    <3>1. opcode \in Words16
      BY <2>1, GivenWord, Zenon
    <3> QED BY <3>1, SMT DEF Words16
  <2> QED BY <2>1, SMT
<1>2. ASSUME NEW f \in DOMAIN decoded.fields PROVE decoded.fields[f] \in Decodable
  <2>1. CASE decoded = Enc!NotDecoded
    <3> DEFINE none == <<>>
    <3>1. decoded.fields = none
      BY <2>1, SMT DEF Enc!NotDecoded
    <3>2. f \in 1 .. 0
      BY <3>1, SMT
    <3> QED BY <3>2, SMT
  <2>2. CASE decoded # Enc!NotDecoded
    <3>1. decoded = Decoded(opcode) /\ Matching(opcode) # {} /\ opcode # -1
      BY <2>2, Zenon DEF EncInv
    <3>2. opcode \in Words16
      BY <3>1, GivenWord, Zenon
    <3>3. f \in DOMAIN Decoded(opcode).fields /\ decoded.fields[f] = Decoded(opcode).fields[f]
      BY <3>1, Zenon
    <3> QED BY <3>1, <3>2, <3>3, DecodedSmall, Zenon
  <2> QED BY <2>1, <2>2, Zenon
<1> DEFINE top == 65535
<1>3. top \in Nat /\ top + 1 = 65536
  OBVIOUS
<1>4. opcode \in -1 .. top
  <2> HIDE DEF top
  <2> QED BY <1>1, <1>3, SMT
<1> DEFINE most == 4095
<1>5. \A f \in DOMAIN decoded.fields : decoded.fields[f] \in 0 .. most
  <2>1. most \in Nat /\ most + 1 = 4096
    OBVIOUS
  <2> HIDE DEF most
  <2>2. \A x \in Decodable : x \in 0 .. most
    BY <2>1 DEF Decodable
  <2> QED BY <1>2, <2>2, Zenon
<1>6. exc \in {"none", "UnknownMnemonic", "NoMatchingForm", "AssertionError", "BadInstruction"}
  BY SMT DEF EncErrors
<1> QED BY <1>4, <1>5, <1>6, PTL DEF Enc!TypeOK, top, most

LEMMA HexTyped ==
  ASSUME HexWriter, HexReader
  PROVE  Hex!TypeOK
<1>1. IsMemory(out)
  BY Zenon DEF HexReader, IsOut
<1>2. Len(out.data) = Len(out.valid)
  BY <1>1, MemoryParts, Zenon
<1>3. Token = {Hex!Mark, Hex!Garbage} \cup (0 .. ByteMod - 1)
  BY DEF Token, Octet, Hex!Mark, Hex!Garbage
<1> QED BY <1>2, <1>3, Zenon DEF HexWriter, HexReader, Hex!TypeOK

LEMMA MemoryTyped ==
  ASSUME IsMemory(mem), result \in Raised
  PROVE  Ops!TypeOK
<1>1. /\ mem.data \in Seq(ByteValue) /\ mem.valid \in Seq(BOOLEAN)
      /\ Len(mem.data) = Len(mem.valid) /\ mem.size <= Len(mem.data)
      /\ mem.size \in Nat /\ mem.write_once \in BOOLEAN
  BY MemoryParts, Zenon DEF IsMemory
<1> QED BY <1>1, Zenon DEF Ops!TypeOK, ByteValue, Raised

(* Whatever tool runs, its variables are of their types.                   *)
THEOREM ToolsTypeCorrect == Spec => []TypeOK
<1>1. GlacialInv /\ EncExc /\ MemoryInv /\ VmemHolds /\ HexHolds => TypeOK
  <2> SUFFICES ASSUME GlacialInv, EncExc, MemoryInv, VmemHolds, HexHolds PROVE TypeOK
    OBVIOUS
  <2>1. tool \in {"memory", "intelhex", "vmem", "glacial"}
    BY Zenon DEF GlacialInv
  <2>2. CASE tool = "memory"
    <3>1. Ops!TypeOK
      BY <2>2, MemoryTyped, Zenon DEF MemoryInv
    <3> QED BY <2>2, <3>1 DEF TypeOK
  <2>3. CASE tool = "intelhex"
    <3>1. Hex!TypeOK
      BY <2>3, HexTyped, Zenon DEF HexHolds
    <3> QED BY <2>3, <3>1 DEF TypeOK
  <2>4. CASE tool = "vmem"
    <3>1. Img!TypeOK
      BY <2>4, Zenon DEF VmemHolds, VmemInv
    <3> QED BY <2>4, <3>1 DEF TypeOK
  <2>5. CASE tool = "glacial"
    <3>1. Enc!TypeOK
      BY <2>5, EncTyped, Zenon DEF GlacialInv, EncExc
    <3> QED BY <2>5, <3>1 DEF TypeOK
  <2> QED BY <2>1, <2>2, <2>3, <2>4, <2>5
<1> QED BY <1>1, EncInvariant, EncRaises, MemoryInvariant, VmemInvariant, HexInvariant, PTL

(***************************************************************************)
(* Intel HEX: what an undamaged file holds.  The valid bytes of m below an *)
(* address are in the data records of f, in the order of their addresses.  *)
(***************************************************************************)
DataMark(f, i) == i \in 1 .. Len(f) /\ f[i] = -1 /\ f[i + 4] = 0
End(f, i)      == At(f, i) + f[i + 1]

InOrder(f) == \A i, j : DataMark(f, i) /\ DataMark(f, j) /\ i < j => End(f, i) <= At(f, j)

Below(f, reach) == \A i : DataMark(f, i) => End(f, i) <= reach

Covered(m, f, reach) ==
  \A a \in 0 .. reach - 1 :
    m.valid[a + 1] => \E i : DataMark(f, i) /\ At(f, i) <= a /\ a < End(f, i)

Laid(m, f, reach) == InOrder(f) /\ Below(f, reach) /\ Covered(m, f, reach)

MarkParts(m, f, i) ==
  /\ i \in Nat /\ f[i + 1] \in Nat /\ At(f, i) \in Nat /\ Stop(f, i) \in Nat
  /\ i + 5 <= Stop(f, i) /\ Stop(f, i) <= Len(f) /\ f[i + 4] \in {0, 1}
  /\ Readable(f, i) /\ Faithful(m, f, i) /\ Boundary(f, Stop(f, i) + 1)
  /\ \A j \in i + 1 .. Stop(f, i) : f[j] # -1

LEMMA MarkIs ==
  ASSUME NEW m, NEW f, AllLines(m, f), NEW i \in 1 .. Len(f), f[i] = -1
  PROVE  MarkParts(m, f, i)
<1>1. GoodLine(m, f, i) /\ f \in Seq(Token)
  BY Zenon DEF AllLines
<1>2. Len(f) \in Nat
  BY <1>1, LenProperties, Zenon
<1>3. /\ Readable(f, i) /\ f[i + 4] \in {0, 1} /\ Faithful(m, f, i)
      /\ Boundary(f, Stop(f, i) + 1)
  BY <1>1, Zenon DEF GoodLine
<1>4. \A j \in i + 1 .. Stop(f, i) : f[j] # -1
  BY <1>3, OctetIs, Zenon DEF Readable
<1>5. /\ i \in Nat /\ f[i + 1] \in Nat /\ At(f, i) \in Nat /\ Stop(f, i) \in Nat
      /\ i + 5 <= Stop(f, i) /\ Stop(f, i) <= Len(f)
  BY <1>2, <1>3, RecordParts, Zenon
<1> QED BY <1>3, <1>4, <1>5, Zenon DEF MarkParts

(* A line behind those of f                                                *)
Longer(h, f, a, t, n) ==
  /\ \A i : i \in 1 .. Len(h) /\ h[i] = -1 <=>
              (i \in 1 .. Len(f) /\ f[i] = -1) \/ i = Len(f) + 1
  /\ \A i \in 1 .. Len(f) :
       f[i] = -1 => h[i + 4] = f[i + 4] /\ At(h, i) = At(f, i) /\ h[i + 1] = f[i + 1]
  /\ LET k == Len(f) + 1 IN h[k + 4] = t /\ At(h, k) = a /\ h[k + 1] = n

LEMMA LineAdded ==
  ASSUME NEW m, NEW f, AllLines(m, f), NEW g, NEW a, NEW t, NEW n, IsRecord(g, a, t, n)
  PROVE  Longer(f \o g, f, a, t, n)
<1> DEFINE y == Len(f)  z == Len(g)  h == f \o g
<1>1. f \in Seq(Token) /\ g \in Seq(Token)
  BY Zenon DEF AllLines, IsRecord
<1>2. y \in Nat /\ z \in Nat
  BY <1>1, LenProperties
<1>3. /\ Len(h) = y + z
      /\ \A k \in 1 .. y : h[k] = f[k]
      /\ \A k \in 1 .. z : h[y + k] = g[k]
  <2>1. IsJoin(f \o g, Token, f, g)
    BY <1>1, JoinedSeq, Zenon
  <2> QED BY <2>1, Zenon DEF IsJoin
<1>4. /\ n \in Nat /\ z = 6 + n /\ g[1] = -1 /\ g[2] = n /\ g[5] = t /\ At(g, 1) = a
      /\ \A i \in 1 .. z : g[i] = -1 => i = 1
  BY Zenon DEF IsRecord
<1> HIDE DEF h, z
<1>5. ASSUME NEW i \in 1 .. y, f[i] = -1
      PROVE  /\ i \in 1 .. Len(h) /\ h[i] = -1 /\ h[i + 4] = f[i + 4]
             /\ At(h, i) = At(f, i) /\ h[i + 1] = f[i + 1]
  <2>1. MarkParts(m, f, i)
    BY <1>5, MarkIs, Zenon
  <2> DEFINE s == Stop(f, i)
  <2>2. i \in Nat /\ s \in Nat /\ i + 5 <= s /\ s <= y
    BY <2>1, Zenon DEF MarkParts
  <2> HIDE DEF s, y
  <2>3. /\ i + 1 \in 1 .. y /\ i + 2 \in 1 .. y /\ i + 3 \in 1 .. y /\ i + 4 \in 1 .. y
        /\ i \in 1 .. y + z
    BY <1>2, <2>2
  <2>4. /\ h[i] = f[i] /\ h[i + 1] = f[i + 1] /\ h[i + 2] = f[i + 2] /\ h[i + 3] = f[i + 3]
        /\ h[i + 4] = f[i + 4]
    BY <1>3, <2>3, Zenon DEF y
  <2>5. At(h, i) = At(f, i)
    BY <2>4, Zenon DEF At
  <2> QED BY <1>3, <1>5, <2>3, <2>4, <2>5
<1> DEFINE k == y + 1
<1>6. k \in 1 .. Len(h) /\ h[k] = -1 /\ h[k + 4] = t /\ At(h, k) = a /\ h[k + 1] = n
  <2>1. /\ 1 \in 1 .. z /\ 2 \in 1 .. z /\ 3 \in 1 .. z /\ 4 \in 1 .. z /\ 5 \in 1 .. z
    BY <1>4
  <2>2. h[y + 1] = g[1] /\ h[y + 2] = g[2] /\ h[y + 3] = g[3] /\ h[y + 4] = g[4] /\ h[y + 5] = g[5]
    BY <1>3, <2>1, Zenon
  <2>3. y + 2 = k + 1 /\ y + 3 = k + 2 /\ y + 4 = k + 3 /\ y + 5 = k + 4 /\ k \in 1 .. Len(h)
    BY <1>2, <1>3, <1>4
  <2>4. h[k] = -1 /\ h[k + 1] = n /\ h[k + 4] = t /\ h[k + 2] = g[3] /\ h[k + 3] = g[4]
    BY <1>4, <2>2, <2>3
  <2>5. At(h, k) = h[k + 2] * ByteMod + h[k + 3] /\ At(g, 1) = g[1 + 2] * ByteMod + g[1 + 3]
    BY Zenon DEF At
  <2>6. At(g, 1) = g[3] * ByteMod + g[4]
    BY <2>5
  <2> HIDE DEF k
  <2> QED BY <1>4, <2>3, <2>4, <2>5, <2>6, Zenon
<1>7. ASSUME NEW i \in 1 .. Len(h), h[i] = -1, i # k
      PROVE  i \in 1 .. y /\ f[i] = -1
  <2>1. CASE i <= y
    <3>1. i \in 1 .. y
      BY <1>2, <2>1
    <3> QED BY <1>3, <1>7, <3>1
  <2>2. CASE ~(i <= y)
    <3>1. i - y \in 1 .. z /\ y + (i - y) = i /\ i - y # 1
      BY <1>2, <1>3, <1>7, <2>2
    <3>2. g[i - y] = -1
      BY <1>3, <1>7, <3>1
    <3> QED BY <1>4, <3>1, <3>2, Zenon
  <2> QED BY <2>1, <2>2
<1> QED BY <1>5, <1>6, <1>7, Zenon DEF Longer, h, k, y

LEMMA DataEnds ==
  ASSUME NEW m, NEW f, AllLines(m, f), NEW i, DataMark(f, i)
  PROVE  At(f, i) \in Nat /\ End(f, i) \in Nat /\ MarkParts(m, f, i)
<1>1. MarkParts(m, f, i)
  BY MarkIs, Zenon DEF DataMark
<1> DEFINE a == At(f, i)  n == f[i + 1]
<1>2. a \in Nat /\ n \in Nat
  BY <1>1, Zenon DEF MarkParts
<1> HIDE DEF a, n
<1>3. a + n \in Nat
  BY <1>2
<1> QED BY <1>1, <1>2, <1>3, Zenon DEF a, n, End

(* No valid byte is passed over.                                           *)
LEMMA LaidFurther ==
  ASSUME NEW m, NEW f, AllLines(m, f), NEW r \in Nat, NEW q \in Nat, r <= q, Laid(m, f, r),
         \A a \in r .. q - 1 : ~m.valid[a + 1]
  PROVE  Laid(m, f, q)
<1>1. InOrder(f) /\ Below(f, r) /\ Covered(m, f, r)
  BY Zenon DEF Laid
<1>2. ASSUME NEW i, DataMark(f, i) PROVE End(f, i) <= q
  <2> DEFINE e == End(f, i)
  <2>1. e \in Nat /\ e <= r
    BY <1>1, <1>2, DataEnds, Zenon DEF Below
  <2> HIDE DEF e
  <2>2. e <= q
    BY <2>1
  <2> QED BY <2>2 DEF e
<1>3. ASSUME NEW a \in 0 .. q - 1, m.valid[a + 1]
      PROVE  \E i : DataMark(f, i) /\ At(f, i) <= a /\ a < End(f, i)
  <2>1. a \notin r .. q - 1
    BY <1>3, Zenon
  <2>2. a \in 0 .. r - 1
    BY <2>1
  <2> QED BY <1>1, <1>3, <2>2, Zenon DEF Covered
<1> QED BY <1>1, <1>2, <1>3, Zenon DEF Laid, Below, Covered

(* The marks of a file with one line more                                  *)
LEMMA MarksOfLonger ==
  ASSUME NEW h, NEW f, Len(f) \in Nat, NEW a, NEW t, NEW n, Longer(h, f, a, t, n)
  PROVE  /\ \A i : DataMark(f, i) => DataMark(h, i) /\ At(h, i) = At(f, i) /\ End(h, i) = End(f, i)
         /\ \A i : DataMark(h, i) => DataMark(f, i) \/ i = Len(f) + 1
         /\ DataMark(h, Len(f) + 1) <=> t = 0
         /\ At(h, Len(f) + 1) = a /\ End(h, Len(f) + 1) = a + n
<1> DEFINE k == Len(f) + 1
<1>1. /\ \A i : i \in 1 .. Len(h) /\ h[i] = -1 <=> (i \in 1 .. Len(f) /\ f[i] = -1) \/ i = k
      /\ \A i \in 1 .. Len(f) :
           f[i] = -1 => h[i + 4] = f[i + 4] /\ At(h, i) = At(f, i) /\ h[i + 1] = f[i + 1]
      /\ h[k + 4] = t /\ At(h, k) = a /\ h[k + 1] = n
  BY Zenon DEF Longer
<1> HIDE DEF k
<1>2. ASSUME NEW i, DataMark(f, i)
      PROVE  DataMark(h, i) /\ At(h, i) = At(f, i) /\ End(h, i) = End(f, i)
  BY <1>1, <1>2, Zenon DEF DataMark, End
<1>3. ASSUME NEW i, DataMark(h, i) PROVE DataMark(f, i) \/ i = k
  BY <1>1, <1>3, Zenon DEF DataMark
<1>4. DataMark(h, k) <=> t = 0
  BY <1>1, Zenon DEF DataMark
<1>5. End(h, k) = a + n
  BY <1>1, Zenon DEF End
<1> QED BY <1>1, <1>2, <1>3, <1>4, <1>5, Zenon DEF k

(* One line of data more, where the ones before it end                     *)
LEMMA LaidOn ==
  ASSUME NEW m, NEW f, AllLines(m, f), NEW r \in Nat, NEW n \in Nat, Laid(m, f, r),
         NEW h, Longer(h, f, r, 0, n)
  PROVE  Laid(m, h, r + n)
<1> DEFINE k == Len(f) + 1
<1>1. InOrder(f) /\ Below(f, r) /\ Covered(m, f, r)
  BY Zenon DEF Laid
<1>2. Len(f) \in Nat
  BY LenProperties, Zenon DEF AllLines
<1>3. /\ \A i : DataMark(f, i) => DataMark(h, i) /\ At(h, i) = At(f, i) /\ End(h, i) = End(f, i)
      /\ \A i : DataMark(h, i) => DataMark(f, i) \/ i = k
      /\ DataMark(h, k) /\ At(h, k) = r /\ End(h, k) = r + n
  BY <1>2, MarksOfLonger, Zenon
<1>4. \A i : DataMark(f, i) => i <= Len(f) /\ i \in Nat
  BY <1>2 DEF DataMark
<1> HIDE DEF k
<1>5. InOrder(h)
  <2> SUFFICES ASSUME NEW i, NEW j, DataMark(h, i), DataMark(h, j), i < j
               PROVE  End(h, i) <= At(h, j)
    BY Zenon DEF InOrder
  <2>1. DataMark(f, i)
    <3> SUFFICES ASSUME i = k PROVE FALSE
      BY <1>3, Zenon
    <3>1. DataMark(f, j) \/ j = k
      BY <1>3, Zenon
    <3> QED BY <1>2, <1>4, <3>1 DEF k
  <2>2. CASE DataMark(f, j)
    BY <1>1, <1>3, <2>1, <2>2, Zenon DEF InOrder
  <2>3. CASE j = k
    <3>1. End(f, i) <= r
      BY <1>1, <2>1, Zenon DEF Below
    <3> QED BY <1>3, <2>1, <2>3, <3>1, Zenon
  <2> QED BY <1>3, <2>2, <2>3, Zenon
<1>6. Below(h, r + n)
  <2> SUFFICES ASSUME NEW i, DataMark(h, i) PROVE End(h, i) <= r + n
    BY Zenon DEF Below
  <2> DEFINE e == End(f, i)
  <2>1. CASE DataMark(f, i)
    <3>1. e \in Nat /\ e <= r /\ End(h, i) = e
      BY <1>1, <1>3, <2>1, DataEnds, Zenon DEF Below
    <3> HIDE DEF e
    <3>2. e <= r + n
      BY <3>1
    <3> QED BY <3>1, <3>2
  <2>2. CASE i = k
    <3>1. r + n <= r + n
      OBVIOUS
    <3> QED BY <1>3, <2>2, <3>1, Zenon
  <2> QED BY <1>3, <2>1, <2>2, Zenon
<1>7. ASSUME NEW a \in 0 .. (r + n) - 1, m.valid[a + 1]
      PROVE  \E i : DataMark(h, i) /\ At(h, i) <= a /\ a < End(h, i)
  <2>1. CASE a < r
    <3>1. a \in 0 .. r - 1
      BY <2>1
    <3>2. PICK i : DataMark(f, i) /\ At(f, i) <= a /\ a < End(f, i)
      BY <1>1, <1>7, <3>1, Zenon DEF Covered
    <3> QED BY <1>3, <3>2, Zenon
  <2>2. CASE ~(a < r)
    <3>1. r <= a /\ a < r + n
      BY <2>2
    <3> QED BY <1>3, <3>1, Zenon
  <2> QED BY <2>1, <2>2
<1> QED BY <1>5, <1>6, <1>7, Zenon DEF Laid, Covered

(* The end record is no line of data.                                      *)
LEMMA LaidEnd ==
  ASSUME NEW m, NEW f, AllLines(m, f), NEW r \in Nat, Laid(m, f, r),
         NEW h, NEW a, NEW n, Longer(h, f, a, 1, n)
  PROVE  Laid(m, h, r)
<1> DEFINE k == Len(f) + 1
<1>1. InOrder(f) /\ Below(f, r) /\ Covered(m, f, r)
  BY Zenon DEF Laid
<1>2. Len(f) \in Nat
  BY LenProperties, Zenon DEF AllLines
<1>3. /\ \A i : DataMark(f, i) => DataMark(h, i) /\ At(h, i) = At(f, i) /\ End(h, i) = End(f, i)
      /\ \A i : DataMark(h, i) => DataMark(f, i) \/ i = k
      /\ DataMark(h, k) <=> 1 = 0
  BY <1>2, MarksOfLonger, Zenon
<1>4. \A i : DataMark(h, i) => DataMark(f, i)
  BY <1>3
<1> HIDE DEF k
<1>5. InOrder(h)
  BY <1>1, <1>3, <1>4, Zenon DEF InOrder
<1>6. Below(h, r)
  BY <1>1, <1>3, <1>4, Zenon DEF Below
<1>7. Covered(m, h, r)
  BY <1>1, <1>3, Zenon DEF Covered
<1> QED BY <1>5, <1>6, <1>7, Zenon DEF Laid

(***************************************************************************)
(* Intel HEX: an undamaged file while it is written                        *)
(***************************************************************************)
AllData(f) == \A i : i \in 1 .. Len(f) /\ f[i] = -1 => f[i + 4] = 0

(* The end record, with the entry address x, is the last and the only one. *)
EndMark(f, x, e) ==
  /\ e \in 1 .. Len(f) /\ f[e] = -1 /\ f[e + 4] = 1 /\ At(f, e) = x
  /\ \A i : i \in 1 .. Len(f) /\ f[i] = -1 /\ i # e => f[i + 4] = 0 /\ i < e

Reached == IF wpc = "record" THEN addr ELSE sl.stop

HexLaid ==
  fault = "none" =>
    /\ wpc = "record" => addr <= sl.stop
    /\ wpc # "done" => Laid(mem, file, Reached) /\ AllData(file)
    /\ wpc = "done" => Laid(mem, file, mem.size) /\ \E e : EndMark(file, entry_addr, e)

LEMMA EndIsLast ==
  ASSUME NEW f, Len(f) \in Nat, AllData(f), NEW h, NEW x, Longer(h, f, x, 1, 0)
  PROVE  EndMark(h, x, Len(f) + 1)
<1> DEFINE k == Len(f) + 1
<1>1. /\ \A i : i \in 1 .. Len(h) /\ h[i] = -1 <=> (i \in 1 .. Len(f) /\ f[i] = -1) \/ i = k
      /\ \A i \in 1 .. Len(f) :
           f[i] = -1 => h[i + 4] = f[i + 4] /\ At(h, i) = At(f, i) /\ h[i + 1] = f[i + 1]
      /\ h[k + 4] = 1 /\ At(h, k) = x
  BY Zenon DEF Longer
<1>2. \A i \in 1 .. Len(f) : i < k
  OBVIOUS
<1> HIDE DEF k
<1>3. k \in 1 .. Len(h) /\ h[k] = -1
  BY <1>1, Zenon
<1>4. ASSUME NEW i, i \in 1 .. Len(h), h[i] = -1, i # k PROVE h[i + 4] = 0 /\ i < k
  <2>1. i \in 1 .. Len(f) /\ f[i] = -1
    BY <1>1, <1>4, Zenon
  <2> QED BY <1>1, <1>2, <2>1, Zenon DEF AllData
<1> QED BY <1>1, <1>3, <1>4, Zenon DEF EndMark, k

LEMMA DataGoesOn ==
  ASSUME NEW f, AllData(f), NEW h, NEW a, NEW n, Longer(h, f, a, 0, n)
  PROVE  AllData(h)
<1> DEFINE k == Len(f) + 1
<1>1. /\ \A i : i \in 1 .. Len(h) /\ h[i] = -1 <=> (i \in 1 .. Len(f) /\ f[i] = -1) \/ i = k
      /\ \A i \in 1 .. Len(f) :
           f[i] = -1 => h[i + 4] = f[i + 4] /\ At(h, i) = At(f, i) /\ h[i + 1] = f[i + 1]
      /\ h[k + 4] = 0
  BY Zenon DEF Longer
<1> HIDE DEF k
<1> QED BY <1>1, Zenon DEF AllData

LEMMA WriteRangeLays ==
  ASSUME HexWriter, HexLaid, Hex!WriteRange
  PROVE  HexLaid'
<1> DEFINE r == Hex!NextValidRange(mem, sl.stop)  z == mem.size
<1>1. wpc = "range" /\ wpc # "done" /\ wpc # "record"
  BY DEF Hex!WriteRange
<1>2. /\ mem \in Images /\ sl.stop \in Nat /\ sl.stop <= z
      /\ fault = "none" /\ AllLines(mem, file)
  BY <1>1, Zenon DEF HexWriter
<1>3. Laid(mem, file, sl.stop) /\ AllData(file)
  BY <1>1, <1>2, Zenon DEF HexLaid, Reached
<1>4. UNCHANGED <<mem, entry_addr, fault>>
  BY Zenon DEF Hex!WriteRange
<1>5. /\ r.exc = "Uninitialized" =>
           file' = file \o LastRecord /\ wpc' = "done" /\ UNCHANGED <<addr, sl>>
      /\ r.exc # "Uninitialized" =>
           /\ sl' = [start |-> r.start, stop |-> r.stop] /\ addr' = r.start
           /\ wpc' = "record" /\ UNCHANGED file
  BY Zenon DEF Hex!WriteRange, LastRecord
<1>6. z \in Nat /\ Len(mem.valid) = z /\ RangeFrom(mem, sl.stop, r)
  BY <1>2, ImageIs, RangeIs, Zenon
<1>7. Len(file) \in Nat
  BY <1>2, LenProperties, Zenon DEF AllLines
<1>8. CASE r.exc = "Uninitialized"
  <2>1. \A a \in sl.stop .. z - 1 : ~mem.valid[a + 1]
    BY <1>6, <1>8 DEF RangeFrom
  <2> HIDE DEF z
  <2>2. Laid(mem, file, z)
    BY <1>2, <1>3, <1>6, <2>1, LaidFurther, Zenon
  <2>3. Longer(file', file, entry_addr, 1, 0)
    <3>1. IsRecord(LastRecord, entry_addr, 1, 0)
      BY EntryWritten, Zenon
    <3>2. Longer(file \o LastRecord, file, entry_addr, 1, 0)
      BY <1>2, <3>1, LineAdded, Zenon
    <3> QED BY <1>5, <1>8, <3>2, Zenon
  <2>4. Laid(mem, file', z)
    BY <1>2, <1>6, <2>2, <2>3, LaidEnd, Zenon
  <2>5. EndMark(file', entry_addr, Len(file) + 1)
    BY <1>3, <1>7, <2>3, EndIsLast, Zenon
  <2>7. wpc' = "done" /\ wpc' # "record"
    BY <1>5, <1>8
  <2> QED BY <1>4, <2>4, <2>5, <2>7, Zenon DEF HexLaid, z
<1>9. CASE r.exc # "Uninitialized"
  <2>1. /\ r.start \in Nat /\ sl.stop <= r.start /\ r.start <= r.stop
        /\ \A a \in sl.stop .. r.start - 1 : ~mem.valid[a + 1]
    BY <1>6, <1>9, Zenon DEF RangeFrom
  <2>2. /\ sl' = [start |-> r.start, stop |-> r.stop] /\ addr' = r.start
        /\ wpc' = "record" /\ file' = file
    BY <1>5, <1>9, Zenon
  <2> HIDE DEF r
  <2>3. Laid(mem, file, r.start)
    BY <1>2, <1>3, <2>1, LaidFurther, Zenon
  <2>4. sl'.stop = r.stop /\ wpc' # "done"
    BY <2>2
  <2>5. Reached' = r.start
    BY <2>2 DEF Reached
  <2> QED BY <1>3, <1>4, <2>1, <2>2, <2>3, <2>4, <2>5, Zenon DEF HexLaid
<1> QED BY <1>8, <1>9

LEMMA WriteRecordLays ==
  ASSUME HexWriter, HexLaid, Hex!WriteRecord
  PROVE  HexLaid'
<1> DEFINE n == Hex!LineLength
<1>1. wpc = "record" /\ wpc # "done"
  BY DEF Hex!WriteRecord
<1>2. addr \in Nat /\ sl.stop \in Nat /\ fault = "none" /\ AllLines(mem, file)
  BY <1>1, Zenon DEF HexWriter
<1>3. addr <= sl.stop /\ Laid(mem, file, addr) /\ AllData(file)
  BY <1>1, <1>2, Zenon DEF HexLaid, Reached
<1>4. UNCHANGED <<mem, entry_addr, sl, fault>>
  BY Zenon DEF Hex!WriteRecord
<1>5. /\ addr < sl.stop => file' = file \o DataRecord /\ addr' = addr + n /\ UNCHANGED wpc
      /\ ~(addr < sl.stop) => wpc' = "range" /\ UNCHANGED <<file, addr>>
  BY Zenon DEF Hex!WriteRecord, DataRecord, LineData
<1>6. CASE addr < sl.stop
  <2>1. IsRecord(DataRecord, addr, 0, n) /\ n \in Nat /\ addr + n <= sl.stop
    BY <1>1, <1>6, DataWritten, Zenon
  <2>2. file' = file \o DataRecord /\ addr' = addr + n /\ wpc' = "record"
    BY <1>1, <1>5, <1>6, Zenon
  <2> HIDE DEF n
  <2>3. Longer(file', file, addr, 0, n)
    BY <1>2, <2>1, <2>2, LineAdded, Zenon
  <2>4. Laid(mem, file', addr + n) /\ AllData(file')
    BY <1>2, <1>3, <2>1, <2>3, LaidOn, DataGoesOn, Zenon
  <2>5. wpc' # "done" /\ Reached' = addr + n
    BY <2>2 DEF Reached
  <2> QED BY <1>4, <2>1, <2>2, <2>4, <2>5, Zenon DEF HexLaid
<1>7. CASE ~(addr < sl.stop)
  <2>1. wpc' = "range" /\ file' = file /\ addr' = addr
    BY <1>5, <1>7, Zenon
  <2>2. wpc' # "done" /\ wpc' # "record" /\ Reached' = sl.stop
    BY <1>4, <2>1 DEF Reached
  <2>3. addr = sl.stop
    BY <1>2, <1>3, <1>7
  <2> QED BY <1>3, <1>4, <2>1, <2>2, <2>3, Zenon DEF HexLaid
<1> QED BY <1>6, <1>7

(***************************************************************************)
(* Intel HEX: an undamaged file while it is read                           *)
(***************************************************************************)
Was(t, a) == t # Hex!NoMemory /\ Flag(t, a)
Agrees(m, o, a) == Flag(m, a) /\ Flag(o, a) /\ m.data[a + 1] = o.data[a + 1]

(* What lies before p is in o, ...                                         *)
InPlace(m, o, f, p) ==
  \A i : DataMark(f, i) /\ i < p => \A a \in At(f, i) .. End(f, i) - 1 : Agrees(m, o, a)

(* ... what m does not have is as it was in t, ...                         *)
Untouched(m, o, t) ==
  \A a \in 0 .. Len(o.valid) - 1 :
    ~Flag(m, a) => /\ Flag(o, a) <=> Was(t, a)
                   /\ Was(t, a) => o.data[a + 1] = t.data[a + 1]

(* ... and in the end all of m is in o.                                    *)
Recovered(m, o) == \A a \in 0 .. m.size - 1 : Flag(m, a) => Agrees(m, o, a)

(* Nothing ahead is refused, and the end record is ahead.                  *)
Onward(f, p, load) ==
  /\ Boundary(f, p) /\ \A e : EndMark(f, entry_addr, e) => p <= e
  /\ \A i : DataMark(f, i) /\ p <= i => load <= At(f, i)

HexTold ==
  /\ rpc = "idle" => load_addr = 0
  /\ fault = "none" /\ Enough(mem, target) =>
       /\ rpc = "reading" =>
            Onward(file, pos, load_addr) /\ InPlace(mem, out, file, pos) /\ Untouched(mem, out, target)
       /\ rpc = "done" =>
            read_entry = entry_addr /\ Untouched(mem, out, target) /\ Recovered(mem, out)
       /\ rpc = "failed" =>
            target = Hex!NoMemory /\ \A a \in 0 .. mem.size - 1 : ~mem.valid[a + 1]

(* The record at pos is the next, and data or the end.                     *)
Arrives(r) ==
  /\ FirstMark(pos) /\ MarkParts(mem, file, pos)
  /\ \/ DataMark(file, pos) /\ IsData(r, pos)
     \/ EndMark(file, entry_addr, pos) /\ r.kind = "entry" /\ r.addr = entry_addr

LEMMA NextArrives ==
  ASSUME HexWriter, HexReader, HexLaid, rpc = "reading", fault = "none",
         Onward(file, pos, load_addr)
  PROVE  Arrives(Hex!NextRecord)
<1> DEFINE r == Hex!NextRecord  z == Len(file)
<1>1. wpc = "done" /\ AllLines(mem, file) /\ file \in Seq(Token)
  <2>1. rpc # "idle"
    OBVIOUS
  <2> QED BY <2>1, Zenon DEF HexWriter
<1>2. z \in Nat /\ pos \in Nat /\ pos >= 1
  <2>1. pos \in 1 .. z + 1 /\ z \in Nat
    BY <1>1, LenProperties, Zenon DEF HexReader
  <2> QED BY <2>1
<1>3. NextIs(r)
  BY <1>1, <1>2, NextRecordIs, Zenon
<1>4. PICK e : EndMark(file, entry_addr, e)
  BY <1>1, Zenon DEF HexLaid
<1>5. e \in 1 .. z /\ file[e] = -1 /\ pos <= e
  BY <1>4, Zenon DEF EndMark, Onward
<1> HIDE DEF r, z
<1>6. pos \in 1 .. z /\ e \in pos .. z /\ pos \in pos .. z
  BY <1>2, <1>5
<1>7. file[pos] = -1
  <2>1. pos <= z
    BY <1>6
  <2> QED BY <2>1, Zenon DEF Onward, Boundary, z
<1>8. ASSUME NEW i, FirstMark(i) PROVE i = pos
  <2>1. i \in pos .. z /\ \A j \in pos .. i - 1 : file[j] # -1
    BY <1>8, Zenon DEF FirstMark, z
  <2>2. pos \notin pos .. i - 1
    BY <1>7, <2>1, Zenon
  <2> QED BY <1>2, <2>1, <2>2
<1>9. FirstMark(pos) /\ Reads(r, pos)
  <2>1. ~(\A j \in pos .. z : file[j] # -1)
    BY <1>5, <1>6, Zenon
  <2>2. PICK i : FirstMark(i) /\ Reads(r, i)
    BY <1>3, <2>1, Zenon DEF NextIs, z
  <2> QED BY <1>8, <2>2, Zenon
<1>10. MarkParts(mem, file, pos)
  BY <1>1, <1>6, <1>7, MarkIs, Zenon DEF z
<1>11. Readable(file, pos) /\ file[pos + 4] \in {0, 1}
  BY <1>10, Zenon DEF MarkParts
<1>12. CASE file[pos + 4] = 0
  <2>1. DataMark(file, pos)
    BY <1>6, <1>7, <1>12, Zenon DEF DataMark, z
  <2> DEFINE p == At(file, pos)
  <2>2. p \in Nat /\ load_addr \in Nat /\ load_addr <= p
    <3>1. pos <= pos
      BY <1>2
    <3> QED BY <2>1, <3>1, <1>10, Zenon DEF Onward, HexReader, MarkParts
  <2> HIDE DEF p
  <2>3. ~(p < load_addr)
    BY <2>2
  <2>4. ~(file[pos + 4] = 1) /\ ~(file[pos + 4] \notin {0, 1})
    BY <1>12
  <2>5. IsData(r, pos)
    BY <1>9, <1>11, <2>3, <2>4, Zenon DEF Reads, p
  <2> QED BY <1>9, <1>10, <2>1, <2>5, Zenon DEF Arrives, r
<1>13. CASE file[pos + 4] = 1
  <2>1. ~(file[pos + 4] = 0) /\ ~(file[pos + 4] \notin {0, 1})
    BY <1>13
  <2>2. r.kind = "entry" /\ r.addr = At(file, pos)
    BY <1>9, <1>11, <2>1, Zenon DEF Reads
  <2>3. pos = e
    BY <1>4, <1>6, <1>7, <2>1, Zenon DEF EndMark, z
  <2>4. At(file, pos) = entry_addr
    BY <1>4, <2>3, Zenon DEF EndMark
  <2> QED BY <1>4, <1>9, <1>10, <2>2, <2>3, <2>4, Zenon DEF Arrives, r
<1> QED BY <1>11, <1>12, <1>13

(* The bytes from p to q are those of m, the others as they were in o.     *)
Copies(r, o, m, p, q) ==
  /\ Len(r.valid) = Len(o.valid)
  /\ \A a \in p .. q - 1 : Agrees(m, r, a)
  /\ \A a \in 0 .. Len(o.valid) - 1 :
       a < p \/ a >= q => r.data[a + 1] = o.data[a + 1] /\ r.valid[a + 1] = o.valid[a + 1]

LEMMA RecordCopied ==
  ASSUME NEW r, NEW i, HexWriter, IsOut(out), mem.size <= Len(out.valid), Readable(file, i),
         file[i + 4] = 0,
         Stores(r, out, At(file, i), At(file, i) + Len(DataOf(file, i)), DataOf(file, i))
  PROVE  Copies(r, out, mem, At(file, i), End(file, i))
<1> DEFINE p == At(file, i)  d == DataOf(file, i)  n == file[i + 1]  z == Len(out.valid)
           M == Len(mem.valid)  q == End(file, i)
<1>1. /\ mem \in Images /\ file \in Seq(Token) /\ Fine(mem, file)
  BY Zenon DEF HexWriter
<1>2. Len(file) \in Nat
  BY <1>1, LenProperties, Zenon
<1>3. n \in Nat /\ p \in Nat /\ i \in Nat /\ q = p + n
  BY <1>2, RecordParts, Zenon DEF End
<1>4. Len(d) = n /\ \A k \in 1 .. n : d[k] = file[(i + 4) + k]
  BY <1>1, DataIs, Zenon DEF IsPiece
<1>5. mem.size = M /\ M \in Nat
  BY <1>1, ImageIs, Zenon
<1>6. z \in Nat /\ M <= z
  <2>1. out.valid \in Seq(BOOLEAN)
    BY MemoryParts, Zenon DEF IsOut
  <2> QED BY <1>5, <2>1, LenProperties
<1>7. \A k \in 0 .. n - 1 :
        p + k < M /\ mem.valid[(p + k) + 1] /\ mem.data[(p + k) + 1] = file[(i + 5) + k]
  BY <1>1, Zenon DEF Fine, Faithful
<1>8. Stores(r, out, p, p + n, d)
  BY <1>4, Zenon
<1> HIDE DEF p, d, n, z, M, q
<1>9. p + n <= z \/ n = 0
  <2> SUFFICES ASSUME n # 0 PROVE p + n <= z
    BY <1>3
  <2>1. n - 1 \in 0 .. n - 1
    BY <1>3
  <2>2. p + (n - 1) < M
    BY <1>7, <2>1, Zenon
  <2> QED BY <1>3, <1>5, <1>6, <2>2
<1>10. /\ Len(r.valid) = z
       /\ \A k \in 1 .. n : r.data[p + k] = d[k] /\ r.valid[p + k]
       /\ \A k \in 1 .. z : k <= p \/ k > p + n => r.data[k] = out.data[k] /\ r.valid[k] = out.valid[k]
  BY <1>4, <1>8, <1>9, Zenon DEF Stores, z
<1>11. ASSUME NEW a \in p .. q - 1
       PROVE  Agrees(mem, r, a)
  <2>1. PICK k \in 0 .. n - 1 : a = p + k
    <3>1. a - p \in 0 .. n - 1 /\ a = p + (a - p)
      BY <1>3
    <3> QED BY <3>1
  <2>2. /\ k + 1 \in 1 .. n /\ p + (k + 1) = a + 1 /\ (p + k) + 1 = a + 1
        /\ (i + 4) + (k + 1) = (i + 5) + k
    BY <1>3, <2>1
  <2>3. /\ r.data[p + (k + 1)] = d[k + 1] /\ d[k + 1] = file[(i + 4) + (k + 1)]
        /\ r.valid[p + (k + 1)]
    BY <1>4, <1>10, <2>2, Zenon
  <2>4. r.data[a + 1] = file[(i + 5) + k] /\ r.valid[a + 1]
    BY <2>2, <2>3
  <2>5. p + k < M /\ mem.valid[(p + k) + 1] /\ mem.data[(p + k) + 1] = file[(i + 5) + k]
    BY <1>7, <2>1, Zenon
  <2>6. a < M /\ mem.valid[a + 1] /\ mem.data[a + 1] = file[(i + 5) + k]
    BY <2>1, <2>2, <2>5
  <2>7. a < z
    BY <1>3, <1>5, <1>6, <2>1, <2>6
  <2> QED BY <1>10, <2>4, <2>6, <2>7, Zenon DEF Agrees, Flag, M
<1>12. ASSUME NEW a \in 0 .. z - 1, a < p \/ a >= q
       PROVE  r.data[a + 1] = out.data[a + 1] /\ r.valid[a + 1] = out.valid[a + 1]
  <2>1. a + 1 \in 1 .. z /\ (a + 1 <= p \/ a + 1 > p + n)
    BY <1>3, <1>6, <1>12
  <2> QED BY <1>10, <2>1, Zenon
<1> QED BY <1>10, <1>11, <1>12, Zenon DEF Copies, p, q, z

(* One line more is in o, and nothing of the ones before it is lost.       *)
LEMMA InPlaceOn ==
  ASSUME NEW m, NEW f, AllLines(m, f), NEW p, DataMark(f, p), InOrder(f), NEW o, IsOut(o), NEW r,
         InPlace(m, o, f, p), Copies(r, o, m, At(f, p), End(f, p))
  PROVE  InPlace(m, r, f, Stop(f, p) + 1)
<1> SUFFICES ASSUME NEW i, DataMark(f, i), i < Stop(f, p) + 1, NEW a \in At(f, i) .. End(f, i) - 1
             PROVE  Agrees(m, r, a)
  BY Zenon DEF InPlace
<1> DEFINE b == At(f, p)  e == End(f, i)  c == At(f, i)  q == End(f, p)  z == Len(o.valid)
           s == Stop(f, p)
<1>1. MarkParts(m, f, p) /\ b \in Nat /\ e \in Nat /\ c \in Nat /\ q \in Nat
  BY DataEnds, Zenon
<1>2. /\ Len(r.valid) = z
      /\ \A x \in b .. q - 1 : Agrees(m, r, x)
      /\ \A x \in 0 .. z - 1 :
           x < b \/ x >= q => r.data[x + 1] = o.data[x + 1] /\ r.valid[x + 1] = o.valid[x + 1]
  BY Zenon DEF Copies
<1>3. a \in c .. e - 1 /\ i < s + 1
  OBVIOUS
<1>4. f[i] = -1 /\ i \in Nat
  BY DEF DataMark
<1>5. s \in Nat /\ p \in Nat /\ \A j \in p + 1 .. s : f[j] # -1
  BY <1>1, Zenon DEF MarkParts
<1>6. z \in Nat
  <2>1. o.valid \in Seq(BOOLEAN)
    BY MemoryParts, Zenon DEF IsOut
  <2> QED BY <2>1, LenProperties
<1> HIDE DEF b, e, c, q, z, s
<1>7. i \notin p + 1 .. s
  BY <1>4, <1>5, Zenon
<1>8. i < p \/ i = p
  BY <1>3, <1>4, <1>5, <1>7
<1>9. CASE i = p
  <2>1. a \in b .. q - 1
    BY <1>3, <1>9 DEF b, q, c, e
  <2> QED BY <1>2, <2>1, Zenon
<1>10. CASE i < p
  <2>1. Agrees(m, o, a)
    BY <1>10, <1>3, Zenon DEF InPlace, c, e
  <2>2. e <= b
    BY <1>10, Zenon DEF InOrder, e, b
  <2>3. Flag(m, a) /\ a < z /\ o.valid[a + 1] /\ m.data[a + 1] = o.data[a + 1]
    BY <2>1, Zenon DEF Agrees, Flag, z
  <2>4. a \in 0 .. z - 1 /\ a < b
    BY <1>1, <1>3, <1>6, <2>2, <2>3
  <2>5. r.data[a + 1] = o.data[a + 1] /\ r.valid[a + 1] = o.valid[a + 1]
    BY <1>2, <2>4, Zenon
  <2> QED BY <1>2, <2>3, <2>5, Zenon DEF Agrees, Flag
<1> QED BY <1>8, <1>9, <1>10

LEMMA UntouchedOn ==
  ASSUME NEW m, NEW o, NEW t, Untouched(m, o, t), NEW r, NEW p \in Nat, NEW q \in Nat,
         Copies(r, o, m, p, q)
  PROVE  Untouched(m, r, t)
<1> DEFINE z == Len(o.valid)
<1>1. /\ Len(r.valid) = z
      /\ \A a \in p .. q - 1 : Agrees(m, r, a)
      /\ \A a \in 0 .. z - 1 :
           a < p \/ a >= q => r.data[a + 1] = o.data[a + 1] /\ r.valid[a + 1] = o.valid[a + 1]
  BY Zenon DEF Copies
<1> SUFFICES ASSUME NEW a \in 0 .. z - 1, ~Flag(m, a)
             PROVE  /\ Flag(r, a) <=> Was(t, a)
                    /\ Was(t, a) => r.data[a + 1] = t.data[a + 1]
  BY <1>1, Zenon DEF Untouched
<1>2. /\ Flag(o, a) <=> Was(t, a)
      /\ Was(t, a) => o.data[a + 1] = t.data[a + 1]
  BY Zenon DEF Untouched
<1>3. a \notin p .. q - 1
  BY <1>1, Zenon DEF Agrees
<1> HIDE DEF z
<1>4. a < p \/ a >= q
  BY <1>3
<1>5. r.data[a + 1] = o.data[a + 1] /\ r.valid[a + 1] = o.valid[a + 1]
  BY <1>1, <1>4, Zenon
<1>6. Flag(r, a) <=> Flag(o, a)
  BY <1>1, <1>5, Zenon DEF Flag, z
<1> QED BY <1>2, <1>5, <1>6, Zenon

LEMMA GoesOn ==
  ASSUME NEW m, NEW f, AllLines(m, f), NEW p, DataMark(f, p), InOrder(f), NEW load, Onward(f, p, load)
  PROVE  Onward(f, Stop(f, p) + 1, End(f, p))
<1> DEFINE s == Stop(f, p)
<1>1. MarkParts(m, f, p)
  BY DataEnds, Zenon
<1>2. Boundary(f, s + 1) /\ s \in Nat /\ p \in Nat /\ p <= s /\ \A j \in p + 1 .. s : f[j] # -1
  <2>1. Boundary(f, s + 1) /\ s \in Nat /\ p \in Nat /\ p + 5 <= s /\ \A j \in p + 1 .. s : f[j] # -1
    BY <1>1, Zenon DEF MarkParts
  <2> HIDE DEF s
  <2> QED BY <2>1
<1>3. f[p + 4] = 0
  BY DEF DataMark
<1> HIDE DEF s
<1>4. ASSUME NEW e, EndMark(f, entry_addr, e) PROVE s + 1 <= e
  <2>1. e \in 1 .. Len(f) /\ f[e] = -1 /\ f[e + 4] = 1 /\ p <= e
    BY <1>4, Zenon DEF EndMark, Onward
  <2>2. e # p
    BY <1>3, <2>1
  <2>3. e \notin p + 1 .. s
    BY <1>2, <2>1, Zenon
  <2>4. e \in Int
    BY <2>1
  <2> QED BY <1>2, <2>1, <2>2, <2>3, <2>4
<1>5. ASSUME NEW i, DataMark(f, i), s + 1 <= i PROVE End(f, p) <= At(f, i)
  <2>1. i \in Int
    BY <1>5 DEF DataMark
  <2>2. p < i
    BY <1>2, <1>5, <2>1
  <2> QED BY <1>5, <2>2, Zenon DEF InOrder
<1> QED BY <1>2, <1>4, <1>5, Zenon DEF Onward, s

LEMMA ReadDataTells ==
  ASSUME HexWriter, HexReader, HexLaid, HexTold, Hex!ReadData
  PROVE  HexTold'
<1> DEFINE p == At(file, pos)  q == End(file, pos)  r == Hex!NextRecord
<1>1. /\ rpc = "reading" /\ rpc' = rpc /\ target' = target
      /\ UNCHANGED <<mem, entry_addr, file, fault>>
  BY Zenon DEF Hex!ReadData, Hex!wvars
<1>2. rpc # "idle" /\ rpc' # "idle" /\ rpc' # "done" /\ rpc' # "failed"
  BY <1>1
<1> SUFFICES ASSUME fault = "none", Enough(mem, target)
             PROVE  /\ Onward(file, pos', load_addr')
                    /\ InPlace(mem, out', file, pos') /\ Untouched(mem, out', target)
  <2>1. Onward(file, pos', load_addr') => Onward(file, pos, load_addr)'
    BY <1>1 DEF Onward, EndMark
  <2> QED BY <1>1, <1>2, <2>1, Zenon DEF HexTold
<1>3. wpc = "done" /\ AllLines(mem, file) /\ file \in Seq(Token) /\ mem \in Images
  BY <1>2, Zenon DEF HexWriter
<1>4. InOrder(file)
  BY <1>3, Zenon DEF HexLaid, Laid
<1>5. Onward(file, pos, load_addr) /\ InPlace(mem, out, file, pos) /\ Untouched(mem, out, target)
  BY <1>1, Zenon DEF HexTold
<1>6. IsOut(out) /\ mem.size <= Len(out.valid)
  BY <1>1, Zenon DEF HexReader
<1>7. Arrives(r)
  BY <1>1, <1>5, NextArrives, Zenon
<1>8. /\ r.kind = "data"
      /\ out' = Hex!SetSlice(out, r.addr, r.addr + Len(r.data), r.data).mem
      /\ load_addr' = r.addr + Len(r.data) /\ pos' = r.next
  BY Zenon DEF Hex!ReadData, Hex!NextLoadAddr
<1> HIDE DEF r
<1>9. DataMark(file, pos) /\ IsData(r, pos) /\ MarkParts(mem, file, pos)
  BY <1>7, <1>8 DEF Arrives
<1> DEFINE d == DataOf(file, pos)  s == Stop(file, pos)  n == file[pos + 1]
<1>10. r.addr = p /\ r.data = d /\ r.next = pos + 6 + n
  BY <1>9, Zenon DEF IsData
<1>11. Readable(file, pos) /\ file[pos + 4] = 0 /\ p \in Nat /\ n \in Nat /\ pos \in Nat
  BY <1>9, Zenon DEF MarkParts, DataMark
<1>12. Len(d) = n /\ d \in Seq(ByteValue) /\ s = pos + 5 + n /\ q = p + n
  BY <1>3, <1>11, DataIs, Zenon DEF IsPiece, Stop, End
<1> HIDE DEF p, q, d, s, n
<1>13. pos' = s + 1 /\ load_addr' = q /\ q \in Nat
  <2>1. pos' = pos + 6 + n /\ load_addr' = p + n
    BY <1>8, <1>10, <1>12, Zenon
  <2> QED BY <1>11, <1>12, <2>1
<1>14. Copies(out', out, mem, p, q)
  <2> DEFINE e == p + Len(d)
  <2>1. e \in Nat /\ e = p + Len(d)
    BY <1>11, <1>12
  <2> HIDE DEF e
  <2>2. Stores(Hex!SetSlice(out, p, e, d).mem, out, p, e, d)
    BY <1>6, <1>11, <1>12, <2>1, StoresRecord, Zenon
  <2>3. Stores(out', out, p, p + Len(d), d)
    BY <1>8, <1>10, <2>1, <2>2, Zenon
  <2>4. Stores(out', out, At(file, pos), At(file, pos) + Len(DataOf(file, pos)), DataOf(file, pos))
    BY <2>3 DEF p, d
  <2>5. Copies(out', out, mem, At(file, pos), End(file, pos))
    BY <1>6, <1>11, <2>4, RecordCopied, Zenon
  <2> QED BY <2>5 DEF p, q
<1>15. InPlace(mem, out', file, s + 1)
  BY <1>3, <1>4, <1>5, <1>6, <1>9, <1>14, InPlaceOn, Zenon DEF p, q, s
<1>16. Untouched(mem, out', target)
  BY <1>5, <1>11, <1>13, <1>14, UntouchedOn, Zenon
<1>17. Onward(file, s + 1, q)
  BY <1>3, <1>4, <1>5, <1>9, GoesOn, Zenon DEF s, q
<1> QED BY <1>13, <1>15, <1>16, <1>17, Zenon

LEMMA StartReadTells ==
  ASSUME HexWriter, HexReader, HexLaid, HexTold, Hex!StartRead
  PROVE  HexTold'
<1>1. /\ wpc = "done" /\ rpc = "idle" /\ rpc' = "reading"
      /\ UNCHANGED <<mem, entry_addr, file, fault, pos, load_addr>>
  BY Zenon DEF Hex!StartRead, Hex!wvars
<1>2. PICK t \in Targets :
         /\ target' = t
         /\ out' = IF t = Hex!NoMemory THEN Hex!Memory(FreshSize, FALSE) ELSE t
  BY Zenon DEF Hex!StartRead
<1>3. rpc' # "idle" /\ rpc' # "done" /\ rpc' # "failed"
  BY <1>1
<1>4. load_addr = 0 /\ pos = 1 /\ mem \in Images
  BY <1>1, Zenon DEF HexTold, HexReader, HexWriter
<1> SUFFICES ASSUME fault = "none"
             PROVE  Onward(file, 1, 0) /\ InPlace(mem, out', file, 1) /\ Untouched(mem, out', t)
  <2>1. Onward(file, 1, 0) => Onward(file, pos, load_addr)'
    BY <1>1, <1>4 DEF Onward, EndMark
  <2>2. InPlace(mem, out', file, 1) => InPlace(mem, out, file, pos)'
    BY <1>1, <1>4 DEF InPlace
  <2> QED BY <1>1, <1>2, <1>3, <2>1, <2>2, Zenon DEF HexTold
<1>5. AllLines(mem, file)
  BY Zenon DEF HexWriter
<1>6. Onward(file, 1, 0)
  <2>1. Boundary(file, 1)
    BY <1>5, Zenon DEF AllLines
  <2>2. ASSUME NEW e, EndMark(file, entry_addr, e) PROVE 1 <= e
    <3>1. e \in 1 .. Len(file)
      BY <2>2, Zenon DEF EndMark
    <3> QED BY <3>1
  <2>3. ASSUME NEW i, DataMark(file, i) PROVE 0 <= At(file, i)
    <3> DEFINE a == At(file, i)
    <3>1. a \in Nat
      BY <1>5, <2>3, DataEnds, Zenon
    <3> HIDE DEF a
    <3>2. 0 <= a
      BY <3>1
    <3> QED BY <3>2 DEF a
  <2> QED BY <2>1, <2>2, <2>3, Zenon DEF Onward
<1>7. InPlace(mem, out', file, 1)
  <2>1. ASSUME NEW i, DataMark(file, i) PROVE ~(i < 1)
    BY <2>1 DEF DataMark
  <2> QED BY <2>1, Zenon DEF InPlace
<1>8. Untouched(mem, out', t)
  <2>1. CASE t = Hex!NoMemory
    <3>1. out' = Hex!Memory(FreshSize, FALSE) /\ FreshSize \in Nat
      BY <1>2, <1>4, <2>1, ImageIs, Zenon
    <3>2. /\ Len(out'.valid) = FreshSize
          /\ \A a \in 0 .. FreshSize - 1 : ~Flag(out', a)
      BY <3>1, FreshMemory, Zenon
    <3> QED BY <2>1, <3>2, Zenon DEF Untouched, Was
  <2>2. CASE t # Hex!NoMemory
    <3>1. out' = t
      BY <1>2, <2>2, Zenon
    <3> QED BY <2>2, <3>1, Zenon DEF Untouched, Was
  <2> QED BY <2>1, <2>2
<1> QED BY <1>6, <1>7, <1>8

(* All lines of data lie before the end.                                   *)
LEMMA EndRecovers ==
  ASSUME NEW m, m \in Images, NEW f, AllLines(m, f), NEW x, NEW e, EndMark(f, x, e),
         Covered(m, f, m.size), NEW o, InPlace(m, o, f, e)
  PROVE  Recovered(m, o)
<1> SUFFICES ASSUME NEW a \in 0 .. m.size - 1, Flag(m, a) PROVE Agrees(m, o, a)
  BY Zenon DEF Recovered
<1>1. m.valid[a + 1]
  BY Zenon DEF Flag
<1>2. PICK i : DataMark(f, i) /\ At(f, i) <= a /\ a < End(f, i)
  BY <1>1, Zenon DEF Covered
<1>3. i < e
  <2>1. i \in 1 .. Len(f) /\ f[i] = -1 /\ f[i + 4] = 0
    BY <1>2, Zenon DEF DataMark
  <2>2. f[e + 4] = 1 /\ (i # e => i < e)
    BY <2>1, Zenon DEF EndMark
  <2> QED BY <2>1, <2>2
<1> DEFINE p == At(f, i)  q == End(f, i)
<1>4. p \in Nat /\ q \in Nat /\ p <= a /\ a < q
  BY <1>2, DataEnds, Zenon
<1> HIDE DEF p, q
<1>5. a \in p .. q - 1
  BY <1>4
<1> QED BY <1>2, <1>3, <1>5, Zenon DEF InPlace, p, q

(* Truncating keeps what is valid.                                         *)
LEMMA CutKeeps ==
  ASSUME NEW m, NEW o, NEW t, NEW r, IsOut(o), Cuts(r, o), Untouched(m, o, t), Recovered(m, o),
         r.exc = "ok"
  PROVE  Untouched(m, r.mem, t) /\ Recovered(m, r.mem)
<1> DEFINE z == Len(o.valid)  y == Len(r.mem.valid)
<1>1. /\ IsOut(r.mem) /\ y <= z
      /\ \A a \in 0 .. y - 1 :
           r.mem.data[a + 1] = o.data[a + 1] /\ r.mem.valid[a + 1] = o.valid[a + 1]
      /\ \A a \in y .. z - 1 : ~o.valid[a + 1]
  BY Zenon DEF Cuts
<1>2. y \in Nat /\ z \in Nat
  <2>1. o.valid \in Seq(BOOLEAN) /\ r.mem.valid \in Seq(BOOLEAN)
    BY <1>1, MemoryParts, Zenon DEF IsOut
  <2> QED BY <2>1, LenProperties
<1>3. ASSUME NEW a \in 0 .. y - 1, ~Flag(m, a)
      PROVE  /\ Flag(r.mem, a) <=> Was(t, a)
             /\ Was(t, a) => r.mem.data[a + 1] = t.data[a + 1]
  <2>1. a \in 0 .. z - 1 /\ a < z /\ a < y
    <3> HIDE DEF z, y
    <3> QED BY <1>1, <1>2
  <2>2. /\ Flag(o, a) <=> Was(t, a)
        /\ Was(t, a) => o.data[a + 1] = t.data[a + 1]
    BY <1>3, <2>1, Zenon DEF Untouched
  <2>3. Flag(r.mem, a) <=> Flag(o, a)
    BY <1>1, <2>1, Zenon DEF Flag
  <2> QED BY <1>1, <2>2, <2>3, Zenon
<1>4. ASSUME NEW a \in 0 .. m.size - 1, Flag(m, a) PROVE Agrees(m, r.mem, a)
  <2>1. Agrees(m, o, a)
    BY <1>4, Zenon DEF Recovered
  <2>2. a < z /\ o.valid[a + 1]
    BY <2>1, Zenon DEF Agrees, Flag
  <2>3. a \notin y .. z - 1
    BY <1>1, <2>2, Zenon
  <2>4. a \in 0 .. y - 1 /\ a < y
    <3> HIDE DEF z, y
    <3>1. a \in Int /\ a >= 0
      OBVIOUS
    <3> QED BY <1>2, <2>2, <2>3, <3>1
  <2> QED BY <1>1, <2>1, <2>4, Zenon DEF Agrees, Flag
<1> QED BY <1>3, <1>4, Zenon DEF Untouched, Recovered

LEMMA ReadEndTells ==
  ASSUME HexWriter, HexReader, HexLaid, HexTold, Hex!ReadEnd
  PROVE  HexTold'
<1> DEFINE r == Hex!NextRecord  c == Hex!Truncate(out)
<1>1. /\ rpc = "reading" /\ target' = target
      /\ UNCHANGED <<mem, entry_addr, file, fault>>
  BY Zenon DEF Hex!ReadEnd, Hex!wvars
<1>2. /\ target = Hex!NoMemory =>
           /\ out' = c.mem
           /\ rpc' = IF c.exc = "ok" THEN "done" ELSE "failed"
      /\ target # Hex!NoMemory => rpc' = "done" /\ out' = out
  BY Zenon DEF Hex!ReadEnd
<1>3. /\ r.kind \in {"EOFError", "entry"}
      /\ read_entry' = IF r.kind = "entry" THEN r.addr ELSE read_entry
  BY Zenon DEF Hex!ReadEnd
<1>4. rpc # "idle" /\ rpc' # "idle" /\ rpc' # "reading"
  BY <1>1, <1>2
<1> SUFFICES ASSUME fault = "none", Enough(mem, target)
             PROVE  /\ rpc' = "done" => /\ read_entry' = entry_addr
                                        /\ Untouched(mem, out', target) /\ Recovered(mem, out')
                    /\ rpc' = "failed" => /\ target = Hex!NoMemory
                                          /\ \A a \in 0 .. mem.size - 1 : ~mem.valid[a + 1]
  BY <1>1, <1>4, Zenon DEF HexTold
<1>5. wpc = "done" /\ AllLines(mem, file) /\ mem \in Images
  BY <1>4, Zenon DEF HexWriter
<1>6. Covered(mem, file, mem.size)
  BY <1>5, Zenon DEF HexLaid, Laid
<1>7. Onward(file, pos, load_addr) /\ InPlace(mem, out, file, pos) /\ Untouched(mem, out, target)
  BY <1>1, Zenon DEF HexTold
<1>8. IsOut(out)
  BY <1>1, Zenon DEF HexReader
<1>9. Arrives(r)
  BY <1>1, <1>7, NextArrives, Zenon
<1> HIDE DEF r
<1>10. EndMark(file, entry_addr, pos) /\ r.kind = "entry" /\ r.addr = entry_addr
  <2>1. ~IsData(r, pos)
    BY <1>3 DEF IsData
  <2> QED BY <1>9, <2>1, Zenon DEF Arrives
<1>11. read_entry' = entry_addr
  BY <1>3, <1>10, Zenon
<1>12. Recovered(mem, out)
  BY <1>5, <1>6, <1>7, <1>10, EndRecovers, Zenon
<1>13. CASE target # Hex!NoMemory
  <2>1. rpc' = "done" /\ rpc' # "failed" /\ out' = out
    BY <1>2, <1>13
  <2> QED BY <1>7, <1>11, <1>12, <2>1, Zenon
<1>14. CASE target = Hex!NoMemory
  <2>1. out' = c.mem /\ rpc' = IF c.exc = "ok" THEN "done" ELSE "failed"
    BY <1>2, <1>14, Zenon
  <2>2. Cuts(c, out)
    BY <1>8, Truncates, Zenon
  <2> HIDE DEF c
  <2>3. CASE c.exc = "ok"
    <3>1. rpc' = "done" /\ rpc' # "failed"
      BY <2>1, <2>3
    <3>2. Untouched(mem, c.mem, target) /\ Recovered(mem, c.mem)
      BY <1>7, <1>8, <1>12, <2>2, <2>3, CutKeeps, Zenon
    <3> QED BY <1>11, <2>1, <3>1, <3>2, Zenon
  <2>4. CASE c.exc # "ok"
    <3>1. rpc' = "failed" /\ rpc' # "done"
      BY <2>1, <2>4
    <3>2. \A a \in 0 .. Len(out.valid) - 1 : ~out.valid[a + 1]
      BY <2>2, <2>4, Zenon DEF Cuts
    <3>3. ASSUME NEW a \in 0 .. mem.size - 1 PROVE ~mem.valid[a + 1]
      <4> SUFFICES ASSUME mem.valid[a + 1] PROVE FALSE
        OBVIOUS
      <4> DEFINE M == Len(mem.valid)  z == Len(out.valid)
      <4>1. mem.size \in Nat /\ M = mem.size
        BY <1>5, ImageIs, Zenon
      <4>2. a < M
        <5> HIDE DEF M
        <5> QED BY <4>1
      <4>3. Agrees(mem, out, a)
        BY <1>12, <4>2, Zenon DEF Recovered, Flag
      <4>4. a < z /\ out.valid[a + 1]
        BY <4>3, Zenon DEF Agrees, Flag
      <4>5. z \in Nat
        <5>1. out.valid \in Seq(BOOLEAN)
          BY <1>8, MemoryParts, Zenon DEF IsOut
        <5> QED BY <5>1, LenProperties
      <4>6. a \in 0 .. z - 1
        <5> HIDE DEF z
        <5> QED BY <4>4, <4>5
      <4> QED BY <3>2, <4>4, <4>6, Zenon
    <3> QED BY <1>14, <3>1, <3>3, Zenon
  <2> QED BY <2>3, <2>4
<1> QED BY <1>13, <1>14

LEMMA ReadFailsTells ==
  ASSUME HexWriter, HexReader, HexLaid, HexTold, Hex!ReadFails
  PROVE  HexTold'
<1> DEFINE r == Hex!NextRecord
<1>1. /\ rpc = "reading" /\ rpc' = "failed" /\ target' = target /\ mem' = mem /\ fault' = fault
      /\ r.kind \notin {"data", "entry", "EOFError"}
  BY Zenon DEF Hex!ReadFails, Hex!wvars
<1>2. rpc' # "idle"
  BY <1>1
<1> SUFFICES ASSUME fault = "none", Enough(mem, target) PROVE FALSE
  BY <1>1, <1>2, Zenon DEF HexTold
<1>3. Arrives(r)
  BY <1>1, NextArrives, Zenon DEF HexTold
<1> HIDE DEF r
<1> QED BY <1>1, <1>3 DEF Arrives, IsData

HexTells == HexWriter /\ HexReader /\ HexLaid /\ HexTold

LEMMA WriteTells ==
  ASSUME HexTells, Hex!Write
  PROVE  HexTells'
<1>1. HexWriter /\ HexReader /\ HexLaid /\ HexTold
  BY Zenon DEF HexTells
<1>2. HexWriter' /\ HexReader'
  BY <1>1, WriteKeeps, Zenon
<1>3. HexLaid'
  BY <1>1, WriteRangeLays, WriteRecordLays, Zenon DEF Hex!Write
<1>4. HexTold'
  <2>1. wpc # "done"
    BY DEF Hex!Write, Hex!WriteRange, Hex!WriteRecord
  <2>2. rpc = "idle"
    BY <1>1, <2>1, Zenon DEF HexWriter
  <2>3. rpc' = rpc /\ load_addr' = load_addr
    BY Zenon DEF Hex!Write, Hex!WriteRange, Hex!WriteRecord, Hex!rvars
  <2>4. rpc' # "reading" /\ rpc' # "done" /\ rpc' # "failed"
    BY <2>2, <2>3
  <2> QED BY <1>1, <2>2, <2>3, <2>4, Zenon DEF HexTold
<1> QED BY <1>2, <1>3, <1>4, Zenon DEF HexTells

LEMMA FaultTells ==
  ASSUME HexTells, Hex!Damage
  PROVE  HexTells'
<1>1. HexWriter /\ HexReader /\ HexLaid /\ HexTold
  BY Zenon DEF HexTells
<1>2. HexWriter' /\ HexReader'
  BY <1>1, FaultKeeps, Zenon
<1>3. fault' # "none"
  BY DEF Hex!Damage
<1>4. rpc = "idle" /\ rpc' = rpc /\ load_addr' = load_addr
  BY Zenon DEF Hex!Damage, Hex!rvars
<1> QED BY <1>1, <1>2, <1>3, <1>4, Zenon DEF HexTells, HexLaid, HexTold

LEMMA ReadTells ==
  ASSUME HexTells, Hex!Read
  PROVE  HexTells'
<1>1. HexWriter /\ HexReader /\ HexLaid /\ HexTold
  BY Zenon DEF HexTells
<1>2. HexWriter' /\ HexReader'
  BY <1>1, ReadKeeps, Zenon
<1>3. HexLaid'
  <2>1. UNCHANGED <<mem, entry_addr, wpc, addr, sl, file, fault>>
    BY Zenon DEF Hex!Read, Hex!StartRead, Hex!ReadData, Hex!ReadEnd, Hex!ReadFails, Hex!wvars
  <2> QED BY <1>1, <2>1 DEF HexLaid, Reached, EndMark
<1>4. HexTold'
  BY <1>1, StartReadTells, ReadDataTells, ReadEndTells, ReadFailsTells, Zenon DEF Hex!Read
<1> QED BY <1>2, <1>3, <1>4, Zenon DEF HexTells

LEMMA TellsInit ==
  ASSUME Hex!Init
  PROVE  HexTells
<1>1. /\ wpc = "range" /\ sl = Hex!NoRange /\ file = <<>> /\ rpc = "idle" /\ load_addr = 0
  BY Zenon DEF Hex!Init
<1>2. HexWriter /\ HexReader
  BY HexInit, Zenon
<1>3. wpc # "record" /\ wpc # "done" /\ Reached = 0
  BY <1>1 DEF Reached, Hex!NoRange
<1>4. \A i : i \notin 1 .. Len(file)
  BY <1>1
<1>5. \A i : ~DataMark(file, i)
  BY <1>4, Zenon DEF DataMark
<1>6. \A a : a \notin 0 .. 0 - 1
  OBVIOUS
<1>7. Laid(mem, file, 0) /\ AllData(file)
  BY <1>4, <1>5, <1>6, Zenon DEF Laid, InOrder, Below, Covered, AllData
<1>8. HexLaid
  BY <1>3, <1>7, Zenon DEF HexLaid
<1>9. rpc # "reading" /\ rpc # "done" /\ rpc # "failed"
  BY <1>1
<1>10. HexTold
  BY <1>1, <1>9, Zenon DEF HexTold
<1> QED BY <1>2, <1>8, <1>10, Zenon DEF HexTells

HexComplete == tool = "intelhex" => HexTells

LEMMA HexCompletes == Spec => []HexComplete
<1>1. Init => HexComplete
  <2>1. "intelhex" # "vmem" /\ "intelhex" # "memory" /\ "intelhex" # "glacial"
    OBVIOUS
  <2> QED BY <2>1, TellsInit, Zenon DEF Init, HexComplete
<1>2. HexComplete /\ [Next]_vars => HexComplete'
  <2> SUFFICES ASSUME HexComplete, [Next]_vars PROVE HexComplete'
    OBVIOUS
  <2>1. CASE Next /\ tool = "intelhex"
    <3>1. "intelhex" # "vmem" /\ "intelhex" # "memory" /\ "intelhex" # "glacial"
      OBVIOUS
    <3>2. Hex!Write \/ Hex!Damage \/ Hex!Read
      BY <2>1, <3>1, Zenon DEF Next, OpsNext, HexWrite, HexOther, ImgNext, EncNext
    <3>3. HexTells
      BY <2>1, Zenon DEF HexComplete
    <3> QED BY <3>2, <3>3, WriteTells, FaultTells, ReadTells, Zenon DEF HexComplete
  <2>2. CASE Next /\ tool # "intelhex"
    <3>1. tool' = tool
      BY <2>2, Zenon DEF Next, OpsNext, HexWrite, HexOther, HexRest, ImgNext, EncNext
    <3> QED BY <2>2, <3>1, Zenon DEF HexComplete
  <2>3. CASE UNCHANGED vars
    <3>1. UNCHANGED <<tool, mem, entry_addr, wpc, addr, sl, file, fault, rpc, pos, load_addr,
                      target, out, read_entry>>
      BY <2>3, Zenon DEF vars, hexvars
    <3> HIDE DEF HexTells
    <3>2. HexTells' <=> HexTells
      BY <3>1 DEF HexTells, HexWriter, HexReader, HexLaid, HexTold, Reached, EndMark, Onward
    <3> QED BY <3>1, <3>2, Zenon DEF HexComplete
  <2> QED BY <2>1, <2>2, <2>3, Zenon
<1> QED BY <1>1, <1>2, PTL DEF Spec

LEMMA NothingFound ==
  ASSUME NEW m, m \in Images, \A a \in 0 .. m.size - 1 : ~m.valid[a + 1]
  PROVE  Hex!Find(m, TRUE, 0) < 0
<1> DEFINE v == TRUE  k == Ops!Find(m, v, 0)  z == Len(m.valid)
<1>1. IsMemory(m) /\ m.size = z
  BY ImageIs, Zenon
<1>2. Hex!Find(m, TRUE, 0) = k
  BY HexFind
<1>3. 0 \in Nat
  OBVIOUS
<1>4. \A a \in 0 .. z - 1 : ~(m.valid[a + 1] = v)
  BY <1>1
<1>5. FirstAt(m, v, 0, k)
  <2> HIDE DEF v
  <2> QED BY <1>1, <1>3, FindsFirst, Zenon
<1>6. k = -1
  <2> HIDE DEF v, k
  <2> QED BY <1>4, <1>5, Zenon DEF FirstAt, z
<1> HIDE DEF k
<1>7. k < 0
  BY <1>6
<1> QED BY <1>2, <1>7

(* intelhex.py: the file of every image that two bytes can address gives   *)
(* back, into every memory of at least its size, every byte at its         *)
(* address and the entry address, and leaves the other bytes as they were. *)
(* It is refused only if no byte is valid and no memory was given.         *)
THEOREM FileGivesBackImage == Spec => []HexRoundTrip
<1>1. HexComplete => HexRoundTrip
  <2> SUFFICES ASSUME HexTells PROVE Hex!RoundTrip
    BY Zenon DEF HexComplete, HexRoundTrip
  <2> SUFFICES ASSUME fault = "none", Enough(mem, target)
               PROVE  /\ rpc = "failed" => Hex!Find(mem, TRUE, 0) < 0 /\ target = Hex!NoMemory
                      /\ rpc = "done" =>
                           /\ read_entry = entry_addr
                           /\ \A a \in 0 .. mem.size - 1 :
                                Hex!Holds(mem, a) => Hex!Holds(out, a) /\ Hex!SameAt(a)
                           /\ \A a \in 0 .. Len(out.valid) - 1 :
                                ~Hex!Holds(mem, a) =>
                                  Hex!Holds(out, a) = Hex!Before(a) /\ (Hex!Before(a) =>
                                    out.data[a + 1] = target.data[a + 1])
    BY EnoughIs, Zenon DEF Hex!RoundTrip
  <2>1. HexTold /\ mem \in Images
    BY Zenon DEF HexTells, HexWriter
  <2>2. CASE rpc = "failed"
    <3>1. rpc # "done"
      BY <2>2
    <3>2. target = Hex!NoMemory /\ \A a \in 0 .. mem.size - 1 : ~mem.valid[a + 1]
      BY <2>1, <2>2, Zenon DEF HexTold
    <3>3. Hex!Find(mem, TRUE, 0) < 0
      BY <2>1, <3>2, NothingFound, Zenon
    <3> QED BY <3>1, <3>2, <3>3, Zenon
  <2>3. CASE rpc = "done"
    <3>1. rpc # "failed"
      BY <2>3
    <3>2. read_entry = entry_addr /\ Untouched(mem, out, target) /\ Recovered(mem, out)
      BY <2>1, <2>3, Zenon DEF HexTold
    <3>3. \A a \in 0 .. mem.size - 1 : Hex!Holds(mem, a) => Hex!Holds(out, a) /\ Hex!SameAt(a)
      BY <3>2, Zenon DEF Recovered, Agrees, Flag, Hex!Holds, Hex!SameAt
    <3>4. ASSUME NEW a \in 0 .. Len(out.valid) - 1, ~Hex!Holds(mem, a)
          PROVE  /\ Hex!Holds(out, a) = Hex!Before(a)
                 /\ Hex!Before(a) => out.data[a + 1] = target.data[a + 1]
      <4>1. ~Flag(mem, a)
        BY <3>4, Zenon DEF Flag, Hex!Holds
      <4>2. /\ Flag(out, a) <=> Was(target, a)
            /\ Was(target, a) => out.data[a + 1] = target.data[a + 1]
        BY <3>2, <4>1, Zenon DEF Untouched
      <4>3. (Flag(out, a) <=> Hex!Holds(out, a)) /\ (Was(target, a) <=> Hex!Before(a))
        BY Zenon DEF Flag, Was, Hex!Holds, Hex!Before
      <4>4. Hex!Holds(out, a) = Hex!Before(a)
        BY <4>2, <4>3 DEF Hex!Holds, Hex!Before
      <4> QED BY <4>2, <4>3, <4>4, Zenon
    <3> QED BY <3>1, <3>2, <3>3, <3>4, Zenon
  <2> QED BY <2>2, <2>3, Zenon
<1> QED BY <1>1, HexCompletes, PTL
=============================================================================
