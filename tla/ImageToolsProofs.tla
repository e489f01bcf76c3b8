-------------------------- MODULE ImageToolsProofs --------------------------
(***************************************************************************)
(* Proofs about the tools: the encoding of microinstructions, the class    *)
(* Memory, and the image builder.                                          *)
(***************************************************************************)
EXTENDS ImageTools, InstructionSetLemmas, FunctionTheorems, SequenceTheorems,
        WellFoundedInduction, TLAPS

(***************************************************************************)
(* A word made of fields                                                   *)
(***************************************************************************)
FieldOf(form, p) == CHOOSE f \in DOMAIN form.fields : p \in form.fields[f]

RowOf(form, values) ==
  [p \in Positions |->
     IF p \in FieldBits(form)
     THEN Digit(values[FieldOf(form, p)], Rank(form.fields[FieldOf(form, p)], p))
     ELSE Digit(form.code, p)]

LEMMA RankIsPosition ==
  ASSUME NEW field, IsRun(field), NEW p \in field
  PROVE  Rank(field, p) \in Positions /\ p \in Positions
<1>1. PICK lo, hi \in Positions : lo <= hi /\ field = Run(lo, hi)
  BY DEF IsRun, Run
<1>2. p \in lo .. hi
  BY <1>1 DEF Run
<1>3. Rank(lo .. hi, p) = p - lo
  BY <1>2, RankInRun
<1>4. p - lo \in Positions /\ p \in Positions
  BY <1>1, <1>2 DEF Positions
<1> QED BY <1>1, <1>3, <1>4, Zenon DEF Run

LEMMA FieldOfPosition ==
  ASSUME NEW form, WellFormed(form), NEW f \in DOMAIN form.fields, NEW p \in form.fields[f]
  PROVE  FieldOf(form, p) = f /\ p \in FieldBits(form) /\ p \in Positions
<1>1. \A g \in DOMAIN form.fields : p \in form.fields[g] => g = f
  BY Zenon DEF WellFormed
<1>2. FieldOf(form, p) = f
  BY <1>1 DEF FieldOf
<1>3. p \in Positions
  BY RankIsPosition DEF WellFormed
<1> QED BY <1>2, <1>3 DEF FieldBits

(* What is inserted is there, and the word is of the form.                 *)
LEMMA InsertedWord ==
  ASSUME NEW form, WellFormed(form), NEW values,
         \A f \in DOMAIN form.fields : values[f] \in Nat
  PROVE  LET w == WordOf(RowOf(form, values))
         IN  /\ w \in Words16 /\ Matches(w, form)
             /\ \A f \in DOMAIN form.fields : \A p \in form.fields[f] :
                  Digit(w, p) = Digit(values[f], Rank(form.fields[f], p))
<1> DEFINE row == RowOf(form, values)  w == WordOf(row)
<1>1. ASSUME NEW f \in DOMAIN form.fields, NEW p \in form.fields[f]
      PROVE  /\ row[p] = Digit(values[f], Rank(form.fields[f], p))
             /\ row[p] \in {0, 1}
  <2>1. FieldOf(form, p) = f /\ p \in FieldBits(form) /\ p \in Positions
    BY FieldOfPosition
  <2>2. row[p] = Digit(values[f], Rank(form.fields[f], p))
    BY <2>1 DEF RowOf
  <2>3. IsRun(form.fields[f])
    BY DEF WellFormed
  <2>4. Rank(form.fields[f], p) \in Positions /\ values[f] \in Nat
    BY <2>3, RankIsPosition
  <2> QED BY <2>2, <2>4, DigitBit
<1>2. ASSUME NEW p \in Positions, p \notin FieldBits(form)
      PROVE  row[p] = Digit(form.code, p) /\ row[p] \in {0, 1}
  <2>1. row[p] = Digit(form.code, p)
    BY <1>2 DEF RowOf
  <2>2. form.code \in Nat
    BY DEF WellFormed, Words16
  <2> QED BY <2>1, <2>2, DigitBit
<1>3. row \in BitRow
  <2>1. \A p \in Positions : p \in FieldBits(form) =>
          \E f \in DOMAIN form.fields : p \in form.fields[f]
    BY DEF FieldBits
  <2>2. \A p \in Positions : row[p] \in {0, 1}
    BY <1>1, <1>2, <2>1, Zenon
  <2>3. row = [p \in Positions |-> row[p]]
    BY DEF RowOf
  <2> HIDE DEF row
  <2> QED BY <2>2, <2>3 DEF BitRow
<1>4. w \in Words16 /\ \A p \in Positions : Digit(w, p) = row[p]
  BY <1>3, DigitsOfWord
<1> HIDE DEF row
<1>5. Matches(w, form)
  BY <1>2, <1>4 DEF Matches
<1>6. \A f \in DOMAIN form.fields : \A p \in form.fields[f] : p \in Positions
  BY FieldOfPosition
<1>7. \A f \in DOMAIN form.fields : \A p \in form.fields[f] :
        Digit(w, p) = Digit(values[f], Rank(form.fields[f], p))
  BY <1>1, <1>4, <1>6
<1> QED BY <1>4, <1>5, <1>7 DEF row

LEMMA RunWidth ==
  ASSUME NEW lo \in Positions, NEW hi \in Positions, lo <= hi
  PROVE  Cardinality(lo .. hi) = hi - lo + 1
<1>1. lo \in Int /\ hi \in Int
  BY DEF Positions
<1>2. Cardinality(lo .. hi) = IF lo > hi THEN 0 ELSE hi - lo + 1
  BY <1>1, FS_Interval
<1> QED BY <1>1, <1>2

(* A value that fits its field is read back from it.                       *)
LEMMA InsertedValue ==
  ASSUME NEW form, WellFormed(form), NEW values,
         \A f \in DOMAIN form.fields :
           values[f] \in Nat /\ values[f] < 2 ^ Cardinality(form.fields[f]),
         NEW f \in DOMAIN form.fields
  PROVE  Extracted(WordOf(RowOf(form, values)), form.fields[f]) = values[f]
<1> DEFINE w == WordOf(RowOf(form, values))  v == values[f]
<1>1. PICK lo, hi \in Positions :
        lo <= hi /\ hi - lo + 1 \in FieldWidths /\ form.fields[f] = Run(lo, hi)
  BY DEF WellFormed, IsRun, Run
<1>2. w \in Words16 /\ \A p \in form.fields[f] : Digit(w, p) = Digit(v, Rank(form.fields[f], p))
  BY InsertedWord
<1> HIDE DEF w
<1>3. v \in Nat /\ v < 2 ^ (hi - lo + 1)
  BY <1>1, RunWidth DEF Run
<1> HIDE DEF v
<1>4. v \in Words16
  <2> DEFINE n == hi - lo + 1
  <2>1. n \in FieldWidths /\ v < 2 ^ n
    BY <1>1, <1>3
  <2> HIDE DEF n
  <2>2. n = 1 => 2 ^ n = 2
    OBVIOUS
  <2>3. n = 3 => 2 ^ n = 8
    OBVIOUS
  <2>4. n = 8 => 2 ^ n = 256
    OBVIOUS
  <2>5. n = 11 => 2 ^ n = 2048
    OBVIOUS
  <2>6. n = 12 => 2 ^ n = 4096
    OBVIOUS
  <2> QED BY <1>3, <2>1, <2>2, <2>3, <2>4, <2>5, <2>6 DEF FieldWidths, Words16
<1>5. \A r \in 0 .. hi - lo : Digit(v, r) = Digit(w, lo + r)
  <2> SUFFICES ASSUME NEW r \in 0 .. hi - lo PROVE Digit(v, r) = Digit(w, lo + r)
    OBVIOUS
  <2>1. lo + r \in lo .. hi /\ (lo + r) - lo = r
    BY DEF Positions
  <2>2. Rank(lo .. hi, lo + r) = r
    BY <2>1, RankInRun
  <2>3. lo + r \in Run(lo, hi) /\ Rank(Run(lo, hi), lo + r) = r
    BY <2>1, <2>2, Zenon DEF Run
  <2> QED BY <1>1, <1>2, <2>3
<1>6. w \in Nat
  BY <1>2 DEF Words16
<1>7. Extracted(w, lo .. hi) = v
  BY <1>1, <1>3, <1>4, <1>5, <1>6, ExtractedValue
<1> QED BY <1>1, <1>7, Zenon DEF w, v, Run

(* A word of a form is what its fields make.                               *)
LEMMA InsertedAgain ==
  ASSUME NEW form, WellFormed(form), NEW w \in Words16, Matches(w, form), NEW values,
         \A f \in DOMAIN form.fields : values[f] = Extracted(w, form.fields[f])
  PROVE  WordOf(RowOf(form, values)) = w
<1> DEFINE v == WordOf(RowOf(form, values))
<1>1. w \in Nat
  BY DEF Words16
<1>2. ASSUME NEW f \in DOMAIN form.fields
      PROVE  /\ values[f] \in Nat
             /\ \A p \in form.fields[f] :
                  Digit(values[f], Rank(form.fields[f], p)) = Digit(w, p)
  <2>1. PICK lo, hi \in Positions : lo <= hi /\ form.fields[f] = Run(lo, hi)
    BY DEF WellFormed, IsRun, Run
  <2>2. values[f] = Extracted(w, lo .. hi)
    BY <2>1 DEF Run
  <2>3. /\ values[f] \in Words16
        /\ \A r \in Positions : Digit(values[f], r) =
             IF r <= hi - lo THEN Digit(w, lo + r) ELSE 0
    BY <1>1, <2>1, <2>2, ExtractedDigits
  <2>4. ASSUME NEW p \in form.fields[f]
        PROVE  Digit(values[f], Rank(form.fields[f], p)) = Digit(w, p)
    <3>1. p \in lo .. hi
      BY <2>1, <2>4, Zenon DEF Run
    <3>2. p - lo \in Positions /\ p - lo <= hi - lo /\ lo + (p - lo) = p
      BY <3>1 DEF Positions
    <3>3. Rank(lo .. hi, p) = p - lo
      BY <3>1, RankInRun
    <3>4. Rank(form.fields[f], p) = p - lo
      BY <2>1, <3>3, Zenon DEF Run
    <3>5. Digit(values[f], p - lo) = Digit(w, lo + (p - lo))
      BY <2>3, <3>2
    <3> QED BY <3>2, <3>4, <3>5
  <2> QED BY <2>3, <2>4 DEF Words16
<1>3. /\ v \in Words16 /\ Matches(v, form)
      /\ \A f \in DOMAIN form.fields : \A p \in form.fields[f] :
           Digit(v, p) = Digit(values[f], Rank(form.fields[f], p))
  BY <1>2, InsertedWord
<1> HIDE DEF v
<1>4. ASSUME NEW p \in Positions PROVE Digit(v, p) = Digit(w, p)
  <2>1. CASE p \in FieldBits(form)
    <3>1. PICK f \in DOMAIN form.fields : p \in form.fields[f]
      BY <2>1 DEF FieldBits
    <3> QED BY <1>2, <1>3, <3>1
  <2>2. CASE p \notin FieldBits(form)
    BY <1>3, <2>2 DEF Matches
  <2> QED BY <2>1, <2>2
<1>5. v = w
  BY <1>3, <1>4, SameDigits
<1> QED BY <1>5 DEF v
-----------------------------------------------------------------------------
(***************************************************************************)
(* Encoding and decoding.  The operators of InstructionSet are here under  *)
(* the name of the instance.                                               *)
(***************************************************************************)
LEMMA EncDigit == \A v, i : Enc!Digit(v, i) = Digit(v, i)
BY Zenon DEF Enc!Digit, Digit

LEMMA EncExtracted == \A w, f : Enc!Extracted(w, f) = Extracted(w, f)
BY Zenon DEF Enc!Extracted, Extracted, Enc!WordOf, WordOf, Enc!Rank, Rank, Enc!Cardinality, Cardinality, Enc!Digit, Digit, Enc!Positions, Positions

LEMMA EncForms == Enc!Forms = Forms
<1>1. \A types, code, fields : Enc!Form(types, code, fields) = Form(types, code, fields)
  BY DEF Enc!Form, Form
<1>2. \A code : /\ Enc!ImmediateForm(code) = ImmediateForm(code)
                /\ Enc!MemForm(code) = MemForm(code)
                /\ Enc!IndirectForm(code) = IndirectForm(code)
                /\ Enc!PostincrementForm(code) = PostincrementForm(code)
  BY <1>1 DEF Enc!ImmediateForm, ImmediateForm, Enc!MemForm, MemForm, Enc!IndirectForm,
              IndirectForm, Enc!PostincrementForm, PostincrementForm
<1>3. \A code : Enc!OperationForms(code) = OperationForms(code)
  BY <1>2 DEF Enc!OperationForms, OperationForms
<1> QED BY <1>1, <1>2, <1>3 DEF Enc!Forms, Forms

LEMMA EncMatching == \A w : Enc!Matching(w) = Matching(w)
<1>1. \A w, form : Enc!Matches(w, form) <=> Matches(w, form)
  BY Zenon DEF Enc!Matches, Matches, Enc!FieldBits, FieldBits, Enc!Digit, Digit, Enc!Positions, Positions
<1>2. Enc!Mnemonics = Mnemonics
  BY EncForms, Zenon DEF Enc!Mnemonics, Mnemonics
<1> SUFFICES ASSUME NEW w PROVE Enc!Matching(w) = Matching(w)
  OBVIOUS
<1> DEFINE entries == UNION {{m} \X DOMAIN Forms[m] : m \in Mnemonics}
<1>3. Enc!Matching(w) = {mf \in entries : Enc!Matches(w, Forms[mf[1]][mf[2]])}
  BY <1>2, EncForms, Zenon DEF Enc!Matching
<1>4. Matching(w) = {mf \in entries : Matches(w, Forms[mf[1]][mf[2]])}
  BY Zenon DEF Matching
<1> HIDE DEF entries
<1>5. \A mf : mf \in Enc!Matching(w) <=> mf \in Matching(w)
  <2> TAKE mf
  <2>1. Enc!Matches(w, Forms[mf[1]][mf[2]]) <=> Matches(w, Forms[mf[1]][mf[2]])
    BY <1>1
  <2>2. mf \in Enc!Matching(w) <=> mf \in entries /\ Enc!Matches(w, Forms[mf[1]][mf[2]])
    BY <1>3, Zenon
  <2>3. mf \in Matching(w) <=> mf \in entries /\ Matches(w, Forms[mf[1]][mf[2]])
    BY <1>4, Zenon
  <2> QED BY <2>1, <2>2, <2>3, Zenon
<1> QED BY <1>5, SameSet, Zenon

LEMMA EncDecoded == \A w : Enc!Decoded(w) = Decoded(w)
<1>1. \A w, form, f : Enc!ExtractField(w, form, f) = ExtractField(w, form, f)
  BY EncExtracted, Zenon DEF Enc!ExtractField, ExtractField
<1> SUFFICES ASSUME NEW w PROVE Enc!Decoded(w) = Decoded(w)
  OBVIOUS
<1> DEFINE encEntry == CHOOSE mf \in Enc!Matching(w) : TRUE
           entry == CHOOSE mf \in Matching(w) : TRUE
           form  == Forms[entry[1]][entry[2]]
<1>a. Enc!Decoded(w) =
        LET f0 == Enc!Forms[encEntry[1]][encEntry[2]]
        IN  [mnem |-> encEntry[1], types |-> f0.types,
             fields |-> [f \in DOMAIN f0.fields |-> Enc!ExtractField(w, f0, f)]]
  BY Zenon DEF Enc!Decoded
<1>b. encEntry = entry
  BY EncMatching, SameChoice, Zenon
<1> HIDE DEF encEntry
<1>2. Enc!Decoded(w) =
        [mnem |-> entry[1], types |-> form.types,
         fields |-> [f \in DOMAIN form.fields |-> Enc!ExtractField(w, form, f)]]
  BY <1>a, <1>b, EncForms
<1>3. Decoded(w) =
        [mnem |-> entry[1], types |-> form.types,
         fields |-> [f \in DOMAIN form.fields |-> ExtractField(w, form, f)]]
  BY Zenon DEF Decoded
<1> HIDE DEF entry, form
<1>4. [f \in DOMAIN form.fields |-> Enc!ExtractField(w, form, f)] =
        [f \in DOMAIN form.fields |-> ExtractField(w, form, f)]
  BY <1>1
<1> QED BY <1>2, <1>3, <1>4, Zenon

LEMMA EncInsertFields ==
  \A form, values : Enc!InsertFields(form, values) = WordOf(RowOf(form, values))
<1>1. \A form, p : Enc!FieldAt(form, p) = FieldOf(form, p)
  BY Zenon DEF Enc!FieldAt, FieldOf
<1>2. \A field, p : Enc!Rank(field, p) = Rank(field, p)
  BY Zenon DEF Enc!Rank, Rank, Enc!Cardinality, Cardinality
<1>3. \A form : Enc!FieldBits(form) = FieldBits(form)
  BY Zenon DEF Enc!FieldBits, FieldBits
<1>4. \A bits : Enc!WordOf(bits) = WordOf(bits)
  BY Zenon DEF Enc!WordOf, WordOf
<1> SUFFICES ASSUME NEW form, NEW values
             PROVE  Enc!InsertFields(form, values) = WordOf(RowOf(form, values))
  OBVIOUS
<1> DEFINE row == [p \in Positions |->
                     IF p \in Enc!FieldBits(form)
                     THEN Enc!Digit(values[Enc!FieldAt(form, p)],
                                    Enc!Rank(form.fields[Enc!FieldAt(form, p)], p))
                     ELSE Enc!Digit(form.code, p)]
<1>5. Enc!InsertFields(form, values) = Enc!WordOf(row)
  BY Zenon DEF Enc!InsertFields, Enc!Positions, Positions
<1>6. row = RowOf(form, values)
  BY <1>1, <1>2, <1>3, EncDigit DEF RowOf
<1> QED BY <1>4, <1>5, <1>6, Zenon

LEMMA EncNames ==
  /\ Enc!NONE = "NONE" /\ Enc!Mnemonics = Mnemonics
  /\ Enc!OperandClassByType = OperandClassByType
  /\ "NONE" \notin Mnemonics /\ "nop" # "NONE"
<1>1. Enc!Mnemonics = Mnemonics
  BY EncForms, Zenon DEF Enc!Mnemonics, Mnemonics
<1>2. Enc!OperandClassByType = OperandClassByType
  BY DEF Enc!OperandClassByType, OperandClassByType, Enc!OT, OT
<1>3. "NONE" \notin Mnemonics
  BY Table
<1> QED BY <1>1, <1>2, <1>3 DEF Enc!NONE

(* The operands of a form have a letter each, and each letter a field.     *)
Letter(t) == Enc!FieldLetter[t]

LetteredUpTo(form, n) ==
  /\ DOMAIN form.types = 1 .. n
  /\ DOMAIN form.fields = {Letter(form.types[i]) : i \in 1 .. n}
  /\ \A i, j \in 1 .. n : Letter(form.types[i]) = Letter(form.types[j]) => i = j
  /\ \A i \in 1 .. n : Letter(form.types[i]) = "j" <=> form.types[i] = "jmp"

Lettered(form) == LetteredUpTo(form, Len(form.types))

LEMMA Letters ==
  /\ Letter("val") = "i" /\ Letter("imm") = "i" /\ Letter("mem") = "m" /\ Letter("ind") = "x"
  /\ Letter("postinc") = "x" /\ Letter("bit") = "b" /\ Letter("cond") = "c"
  /\ Letter("jmp") = "j"
BY DEF Letter, Enc!FieldLetter

LEMMA LetteredOne ==
  ASSUME NEW t \in {"val", "imm", "mem", "ind", "postinc", "jmp"}, NEW form,
         form.types = <<t>>, DOMAIN form.fields = {Letter(t)}
  PROVE  Lettered(form)
<1>1. Len(form.types) = 1 /\ form.types[1] = t /\ DOMAIN form.types = 1 .. 1
  OBVIOUS
<1>2. Letter(t) = "j" <=> t = "jmp"
  BY Letters
<1>3. \A i \in 1 .. 1 : i = 1
  OBVIOUS
<1>4. LetteredUpTo(form, 1)
  BY <1>1, <1>2, <1>3 DEF LetteredUpTo
<1> QED BY <1>1, <1>4 DEF Lettered

LEMMA AllLettered ==
  ASSUME NEW m \in Mnemonics, NEW k \in DOMAIN Forms[m]
  PROVE  Lettered(Forms[m][k])
<1> DEFINE form == Forms[m][k]
<1>1. CASE m = "opr"
  <2>1. form.types = <<"val">> /\ DOMAIN form.fields = {"i"}
    BY <1>1, Table DEF Forms, Form
  <2> QED BY <2>1, Letters, LetteredOne
<1>2. CASE m = "jump"
  <2>1. form.types = <<"jmp">> /\ DOMAIN form.fields = {"j"}
    BY <1>2, Table DEF Forms, Form
  <2> QED BY <2>1, Letters, LetteredOne
<1>3. CASE m = "call"
  <2>1. form.types = <<"jmp">> /\ DOMAIN form.fields = {"j"}
    BY <1>3, Table DEF Forms, Form
  <2> QED BY <2>1, Letters, LetteredOne
<1>4. CASE m = "br"
  <2>1. form.types = <<"cond", "jmp">> /\ DOMAIN form.fields = {"c", "j"}
    BY <1>4, Table DEF Forms, Form
  <2>2. /\ Len(form.types) = 2 /\ DOMAIN form.types = 1 .. 2
        /\ form.types[1] = "cond" /\ form.types[2] = "jmp"
    BY <2>1
  <2> HIDE DEF form
  <2>3. \A i \in 1 .. 2 : i = 1 \/ i = 2
    OBVIOUS
  <2>4. Letter(form.types[1]) = "c" /\ Letter(form.types[2]) = "j"
    BY <2>2, Letters
  <2>5. {Letter(form.types[i]) : i \in 1 .. 2} = {"c", "j"}
    BY <2>3, <2>4
  <2>6. \A i, j \in 1 .. 2 : Letter(form.types[i]) = Letter(form.types[j]) => i = j
    BY <2>3, <2>4
  <2>7. \A i \in 1 .. 2 : Letter(form.types[i]) = "j" <=> form.types[i] = "jmp"
    BY <2>2, <2>3, <2>4
  <2>8. LetteredUpTo(form, 2)
    BY <2>1, <2>2, <2>5, <2>6, <2>7, Zenon DEF LetteredUpTo
  <2>9. Lettered(form)
    BY <2>2, <2>8 DEF Lettered
  <2> QED BY <2>9 DEF form
<1>5. ASSUME NEW code, form \in {ImmediateForm(code), MemForm(code), IndirectForm(code),
                                 PostincrementForm(code)}
      PROVE  Lettered(form)
  <2>1. \/ form.types = <<"imm">> /\ DOMAIN form.fields = {"i"}
        \/ form.types = <<"mem">> /\ DOMAIN form.fields = {"m"}
        \/ form.types = <<"ind">> /\ DOMAIN form.fields = {"x"}
        \/ form.types = <<"postinc">> /\ DOMAIN form.fields = {"x"}
    <3> HIDE DEF form
    <3> QED BY <1>5, FormFields
  <2> QED BY <2>1, Letters, LetteredOne
<1>6. CASE m = "store"
  <2>1. form \in {MemForm(0), IndirectForm(0), PostincrementForm(0)}
    BY <1>6, Table DEF Forms
  <2> QED BY <2>1, <1>5
<1>7. CASE m \in {"load", "and", "xor", "adc"}
  <2>1. PICK code \in Operations : Forms[m] = OperationForms(code)
    BY <1>7, Table DEF Operations
  <2>2. k = 1 \/ k = 2 \/ k = 3 \/ k = 4
    BY <2>1, FourOperationForms
  <2>3. form \in {ImmediateForm(code), MemForm(16384 + code),
                  IndirectForm(16384 + code), PostincrementForm(16384 + code)}
    BY <2>1, <2>2 DEF OperationForms
  <2> QED BY <2>3, <1>5
<1>8. CASE m = "skb"
  <2>1. \E t \in {"mem", "ind", "postinc"} :
          /\ form.types = <<t, "bit", "val">>
          /\ DOMAIN form.fields = {Letter(t), "b", "i"}
    <3>1. k = 1 \/ k = 2 \/ k = 3
      BY <1>8, Table
    <3> QED BY <1>8, <3>1, Letters DEF Forms, Form
  <2>2. PICK t \in {"mem", "ind", "postinc"} :
          /\ form.types = <<t, "bit", "val">>
          /\ DOMAIN form.fields = {Letter(t), "b", "i"}
    BY <2>1
  <2>3. /\ Len(form.types) = 3 /\ DOMAIN form.types = 1 .. 3
        /\ form.types[1] = t /\ form.types[2] = "bit" /\ form.types[3] = "val"
    BY <2>2
  <2> HIDE DEF form
  <2>4. \A i \in 1 .. 3 : i = 1 \/ i = 2 \/ i = 3
    OBVIOUS
  <2>5. /\ Letter(form.types[1]) = Letter(t) /\ Letter(form.types[2]) = "b"
        /\ Letter(form.types[3]) = "i" /\ Letter(t) \in {"m", "x"}
    BY <2>3, Letters
  <2>6. {Letter(form.types[i]) : i \in 1 .. 3} = {Letter(t), "b", "i"}
    BY <2>4, <2>5
  <2>7. \A i, j \in 1 .. 3 : Letter(form.types[i]) = Letter(form.types[j]) => i = j
    BY <2>4, <2>5
  <2>8. \A i \in 1 .. 3 : Letter(form.types[i]) = "j" <=> form.types[i] = "jmp"
    BY <2>3, <2>4, <2>5
  <2>9. LetteredUpTo(form, 3)
    BY <2>2, <2>3, <2>6, <2>7, <2>8, Zenon DEF LetteredUpTo
  <2>10. Lettered(form)
    BY <2>3, <2>9 DEF Lettered
  <2> QED BY <2>10 DEF form
<1> QED BY Table, <1>1, <1>2, <1>3, <1>4, <1>6, <1>7, <1>8

LEMMA FittingValue ==
  ASSUME NEW field, IsRun(field), NEW v, Enc!Fits(field, v)
  PROVE  v \in Nat /\ v < 2 ^ Cardinality(field)
<1>1. PICK lo, hi \in Positions : lo <= hi /\ hi - lo + 1 \in FieldWidths /\ field = lo .. hi
  BY DEF IsRun
<1>2. Cardinality(field) = hi - lo + 1
  BY <1>1, RunWidth
<1>3. Cardinality(field) \in Positions
  BY <1>1, <1>2 DEF FieldWidths, Positions
<1> DEFINE n == 2 ^ Cardinality(field)
<1>4. n \in Nat
  BY <1>3, PowerPositive
<1>5. Enc!Cardinality(field) = Cardinality(field)
  BY Zenon DEF Enc!Cardinality, Cardinality
<1>6. v \in 0 .. n - 1
  BY <1>5 DEF Enc!Fits
<1> HIDE DEF n
<1>7. v \in Nat /\ v < n
  BY <1>4, <1>6
<1> QED BY <1>7 DEF n

(* The word the assembler makes of a mnemonic and its operands.            *)
AssembledFrom(ops, form, w) ==
  LET values == Enc!AssembleOperands(ops, form.types)
  IN  /\ Enc!OperandTypesMatch(ops, form.types)
      /\ \A f \in DOMAIN form.fields :
           f \in DOMAIN values /\ Enc!Fits(form.fields[f], values[f])
      /\ w = Enc!InsertFields(form, values)

Assembled(m, ops, w) ==
  m \in Mnemonics /\ \E k \in DOMAIN Forms[m] : AssembledFrom(ops, Forms[m][k], w)

(* The operands are in the fields of the word.                             *)
Holds(w, form, ops) ==
  \A i \in 1 .. Len(ops) :
    /\ Letter(form.types[i]) \in DOMAIN form.fields
    /\ Extracted(w, form.fields[Letter(form.types[i])]) = Enc!AssembleOperand(ops[i], form.types[i])

LEMMA AssembledForm ==
  ASSUME NEW ops, DOMAIN ops = 1 .. Len(ops), NEW form, WellFormed(form), Lettered(form),
         NEW w, AssembledFrom(ops, form, w)
  PROVE  w \in Words16 /\ Matches(w, form) /\ Holds(w, form, ops)
<1> DEFINE values == Enc!AssembleOperands(ops, form.types)
<1>1. /\ Enc!OperandTypesMatch(ops, form.types)
      /\ \A f \in DOMAIN form.fields :
           f \in DOMAIN values /\ Enc!Fits(form.fields[f], values[f])
      /\ w = WordOf(RowOf(form, values))
  BY EncInsertFields, Zenon DEF AssembledFrom
<1>2. \A f \in DOMAIN form.fields :
        values[f] \in Nat /\ values[f] < 2 ^ Cardinality(form.fields[f])
  BY <1>1, FittingValue, Zenon DEF WellFormed
<1>3. Len(ops) = Len(form.types)
  BY <1>1 DEF Enc!OperandTypesMatch
<1>4. ASSUME NEW i \in 1 .. Len(ops)
      PROVE  /\ Letter(form.types[i]) \in DOMAIN form.fields
             /\ values[Letter(form.types[i])] = Enc!AssembleOperand(ops[i], form.types[i])
  <2> DEFINE f == Letter(form.types[i])
             chosen == CHOOSE j \in DOMAIN ops : Letter(form.types[j]) = f
  <2>1. f \in DOMAIN form.fields /\ f \in {Letter(form.types[j]) : j \in DOMAIN ops}
    BY <1>3, Zenon DEF Lettered, LetteredUpTo
  <2>2. \A j \in DOMAIN ops : Letter(form.types[j]) = f => j = i
    BY <1>3, Zenon DEF Lettered, LetteredUpTo
  <2>3. i \in DOMAIN ops
    OBVIOUS
  <2>4. chosen = i
    BY <2>2, <2>3
  <2>5. values = [g \in {Letter(form.types[j]) : j \in DOMAIN ops} |->
                    LET j == CHOOSE j \in DOMAIN ops : Letter(form.types[j]) = g
                    IN  Enc!AssembleOperand(ops[j], form.types[j])]
    BY Zenon DEF Enc!AssembleOperands, Letter
  <2> HIDE DEF values
  <2>6. values[f] = Enc!AssembleOperand(ops[chosen], form.types[chosen])
    BY <2>1, <2>5
  <2> HIDE DEF chosen
  <2> QED BY <2>1, <2>4, <2>6
<1> HIDE DEF values
<1>5. w \in Words16 /\ Matches(w, form)
  BY <1>1, <1>2, InsertedWord
<1>6. \A f \in DOMAIN form.fields : Extracted(w, form.fields[f]) = values[f]
  BY <1>1, <1>2, InsertedValue
<1> QED BY <1>4, <1>5, <1>6 DEF Holds

LEMMA AssembledWord ==
  ASSUME NEW m, NEW ops, DOMAIN ops = 1 .. Len(ops), NEW w, Assembled(m, ops, w)
  PROVE  /\ w \in Words16 /\ Matching(w) # {}
         /\ \E k \in DOMAIN Forms[m] :
              DecodedAs(w, m, k) /\ Holds(w, Forms[m][k], ops)
              /\ Enc!OperandTypesMatch(ops, Forms[m][k].types)
<1>1. PICK k \in DOMAIN Forms[m] : m \in Mnemonics /\ AssembledFrom(ops, Forms[m][k], w)
  BY DEF Assembled
<1>2. w \in Words16 /\ Matches(w, Forms[m][k]) /\ Holds(w, Forms[m][k], ops)
  BY <1>1, AllWellFormed, AllLettered, AssembledForm
<1>3. Matching(w) # {}
  <2> DEFINE e == <<m, k>>
  <2>1. e[1] = m /\ e[2] = k /\ e \in {m} \X DOMAIN Forms[m]
    OBVIOUS
  <2> HIDE DEF e
  <2>2. e \in UNION {{n} \X DOMAIN Forms[n] : n \in Mnemonics}
    BY <1>1, <2>1
  <2> QED BY <1>2, <2>1, <2>2, Zenon DEF Matching
<1>4. Entry(w) = <<m, k>>
  BY <1>1, <1>2, OneEntry
<1>5. DecodedAs(w, m, k)
  BY <1>1, <1>2, <1>3, <1>4, DecodedForm
<1>6. Enc!OperandTypesMatch(ops, Forms[m][k].types)
  BY <1>1, Zenon DEF AssembledFrom
<1> QED BY <1>2, <1>3, <1>5, <1>6

(***************************************************************************)
(* The inductive invariant: a word comes from the assembler, or is one of  *)
(* those to decode, and what is decoded is that word.                      *)
(***************************************************************************)
EncInv ==
  /\ mnem = "NONE" => opcode \in Opcodes
  /\ DOMAIN operands = 1 .. Len(operands)
  /\ mnem # "NONE" /\ opcode # -1 => Assembled(mnem, operands, opcode)
  /\ opcode = -1 => decoded = Enc!NotDecoded /\ exc # "BadInstruction"
  /\ decoded # Enc!NotDecoded => decoded = Decoded(opcode) /\ Matching(opcode) # {}
  /\ exc = "BadInstruction" => opcode # -1 /\ Matching(opcode) = {}

GlacialInv == tool \in {"memory", "intelhex", "vmem", "glacial"} /\ (tool = "glacial" => EncInv)

LEMMA ListDomain == ASSUME NEW ops \in Enc!OperandLists PROVE DOMAIN ops = 1 .. Len(ops)
<1>1. \/ ops = <<>> \/ (\E o : ops = <<o>>) \/ (\E o, p : ops = <<o, p>>)
      \/ \E o, p, q : ops = <<o, p, q>>
  BY DEF Enc!OperandLists
<1> QED BY <1>1

LEMMA GivenOpcodes == \A w \in Opcodes : w \in Words16
<1>1. 2 ^ 16 - 1 = 65535
  OBVIOUS
<1> DEFINE last == 2 ^ 16 - 1
<1>2. \A w \in Opcodes : w \in 0 .. last
  BY EncodingAssumption, Zenon
<1>3. last \in Nat /\ last < 65536
  BY <1>1
<1> HIDE DEF last
<1>4. \A w \in 0 .. last : w \in Nat /\ w < 65536
  BY <1>3
<1> TAKE w \in Opcodes
<1>5. w \in Nat /\ w < 65536
  BY <1>2, <1>4, SMT
<1> QED BY <1>5, SMT DEF Words16

LEMMA EncInit == Init => GlacialInv
<1> SUFFICES ASSUME Init PROVE GlacialInv
  OBVIOUS
<1>1. tool \in {"memory", "intelhex", "vmem", "glacial"}
  BY DEF Init
<1>2. ASSUME tool = "glacial" PROVE EncInv
  <2>1. Enc!Init
    BY <1>2 DEF Init
  <2>2. /\ exc = "none" /\ decoded = Enc!NotDecoded
        /\ \/ mnem = "NONE" /\ operands = <<>> /\ opcode \in Opcodes
           \/ mnem # "NONE" /\ operands \in Enc!OperandLists /\ opcode = -1
    BY <2>1, EncNames DEF Enc!Init
  <2>3. DOMAIN operands = 1 .. Len(operands)
    BY <2>2, ListDomain
  <2>4. -1 \notin Opcodes
    BY GivenOpcodes DEF Words16
  <2> QED BY <2>2, <2>3, <2>4 DEF EncInv
<1> QED BY <1>1, <1>2 DEF GlacialInv

LEMMA LeastOfFour ==
  ASSUME NEW S, S \subseteq 1 .. 4, S # {}
  PROVE  \E x \in S : \A y \in S : x <= y
<1>1. PICK z \in S : TRUE
  OBVIOUS
<1>2. \A y \in S : y \in {1, 2, 3, 4}
  OBVIOUS
<1>3. CASE 1 \in S
  BY <1>2, <1>3
<1>4. CASE 1 \notin S /\ 2 \in S
  BY <1>2, <1>4
<1>5. CASE 1 \notin S /\ 2 \notin S /\ 3 \in S
  BY <1>2, <1>5
<1>6. CASE 1 \notin S /\ 2 \notin S /\ 3 \notin S
  <2>1. \A y \in S : y = 4
    BY <1>2, <1>6
  <2> QED BY <1>1, <2>1
<1> QED BY <1>3, <1>4, <1>5, <1>6

LEMMA AssembleStep ==
  ASSUME EncInv, Enc!AssembleInstruction
  PROVE  EncInv'
<1>1. mnem # "NONE" /\ opcode = -1 /\ exc = "none" /\ decoded = Enc!NotDecoded
  BY EncNames, Zenon DEF Enc!AssembleInstruction, EncInv
<1>2. CASE \E e \in {"UnknownMnemonic", "NoMatchingForm", "AssertionError"} : Enc!Fails(e)
  BY <1>1, <1>2 DEF Enc!Fails, EncInv
<1>3. CASE /\ mnem \in Mnemonics /\ UNCHANGED <<mnem, operands, exc, decoded>>
           /\ \E k \in DOMAIN Forms[mnem] : AssembledFrom(operands, Forms[mnem][k], opcode')
  <2>1. Assembled(mnem, operands, opcode')
    BY <1>3 DEF Assembled
  <2>2. opcode' \in Words16
    BY <2>1, AssembledWord DEF EncInv
  <2>3. opcode' # -1
    BY <2>2 DEF Words16
  <2> QED BY <1>1, <1>3, <2>1, <2>3 DEF EncInv
<1>4. \/ \E e \in {"UnknownMnemonic", "NoMatchingForm", "AssertionError"} : Enc!Fails(e)
      \/ /\ mnem \in Mnemonics /\ UNCHANGED <<mnem, operands, exc, decoded>>
         /\ \E k \in DOMAIN Forms[mnem] : AssembledFrom(operands, Forms[mnem][k], opcode')
  <2> DEFINE fit == {k \in DOMAIN Forms[mnem] :
                       Enc!OperandTypesMatch(operands, Forms[mnem][k].types)}
             form == Forms[mnem][Enc!Min(fit)]
             fields == Enc!AssembleOperands(operands, form.types)
  <2>1. CASE mnem \notin Mnemonics
    BY <2>1, EncNames, Zenon DEF Enc!AssembleInstruction
  <2>2. CASE mnem \in Mnemonics /\ fit = {}
    BY <2>2, EncNames, EncForms, Zenon DEF Enc!AssembleInstruction
  <2>3. CASE mnem \in Mnemonics /\ fit # {}
    <3>1. IF \A f \in DOMAIN form.fields :
               f \in DOMAIN fields /\ Enc!Fits(form.fields[f], fields[f])
          THEN /\ opcode' = Enc!InsertFields(form, fields)
               /\ UNCHANGED <<mnem, operands, exc, decoded>>
          ELSE Enc!Fails("AssertionError")
      BY <2>3, EncNames, EncForms, Zenon DEF Enc!AssembleInstruction
    <3>2. Enc!Min(fit) \in fit
      <4>1. DOMAIN Forms[mnem] \in {{1}, 1 .. 3, 1 .. 4}
        BY <2>3, Table, FourOperationForms
      <4>2. fit \subseteq 1 .. 4 /\ fit # {}
        BY <2>3, <4>1
      <4> HIDE DEF fit
      <4>3. \E x \in fit : \A y \in fit : x <= y
        BY <4>2, LeastOfFour
      <4> QED BY <4>3 DEF Enc!Min
    <3> QED BY <2>3, <3>1, <3>2, Zenon DEF AssembledFrom
  <2> QED BY <2>1, <2>2, <2>3
<1> QED BY <1>2, <1>3, <1>4

LEMMA DecodeStep ==
  ASSUME EncInv, Enc!DecodeInstruction
  PROVE  EncInv'
<1>1. /\ opcode # -1 /\ decoded = Enc!NotDecoded /\ exc = "none"
      /\ IF Matching(opcode) = {}
         THEN exc' = "BadInstruction" /\ UNCHANGED <<mnem, operands, opcode, decoded>>
         ELSE decoded' = Decoded(opcode) /\ UNCHANGED <<mnem, operands, opcode, exc>>
  BY EncMatching, EncDecoded, Zenon DEF Enc!DecodeInstruction, Enc!Fails
<1> QED BY <1>1 DEF EncInv

LEMMA EncStep == GlacialInv /\ [Next]_vars => GlacialInv'
<1> SUFFICES ASSUME GlacialInv, [Next]_vars PROVE GlacialInv'
  OBVIOUS
<1>1. CASE EncNext
  <2>1. tool = "glacial" /\ tool' = tool /\ Enc!Next /\ EncInv
    BY <1>1, Zenon DEF EncNext, GlacialInv
  <2>2. EncInv'
    BY <2>1, AssembleStep, DecodeStep DEF Enc!Next
  <2> QED BY <2>1, <2>2 DEF GlacialInv
<1>2. CASE OpsNext \/ HexWrite \/ HexOther \/ ImgNext
  <2>1. tool # "glacial" /\ tool' = tool
    BY <1>2, Zenon DEF OpsNext, HexWrite, HexOther, HexRest, ImgNext
  <2> QED BY <2>1 DEF GlacialInv
<1>3. CASE UNCHANGED vars
  BY <1>3 DEF vars, encvars, GlacialInv, EncInv
<1> QED BY <1>1, <1>2, <1>3 DEF Next

LEMMA EncInvariant == Spec => []GlacialInv
BY EncInit, EncStep, PTL DEF Spec

LEMMA GivenWord ==
  ASSUME EncInv, opcode # -1
  PROVE  opcode \in Words16
<1>1. CASE mnem = "NONE"
  BY <1>1, GivenOpcodes DEF EncInv
<1>2. CASE mnem # "NONE"
  BY <1>2, AssembledWord DEF EncInv
<1> QED BY <1>1, <1>2

LEMMA ReadAsWritten == EncInv => Enc!RoundTrip
<1> SUFFICES ASSUME EncInv, mnem # "NONE"
             PROVE  /\ exc # "BadInstruction"
                    /\ decoded # Enc!NotDecoded =>
                         /\ decoded.mnem = mnem /\ Len(decoded.types) = Len(operands)
                         /\ \A i \in 1 .. Len(operands) :
                              LET f == Enc!FieldLetter[decoded.types[i]]
                              IN  /\ Enc!OperandClassByType[decoded.types[i]] = operands[i].class
                                  /\ decoded.fields[f] =
                                       IF f = "j" THEN 2 * (operands[i].value \div 2)
                                       ELSE operands[i].value
  BY EncNames, Zenon DEF Enc!RoundTrip
<1>1. exc # "BadInstruction"
  BY AssembledWord DEF EncInv
<1>2. ASSUME decoded # Enc!NotDecoded
      PROVE  /\ decoded.mnem = mnem /\ Len(decoded.types) = Len(operands)
             /\ \A i \in 1 .. Len(operands) :
                  LET f == Enc!FieldLetter[decoded.types[i]]
                  IN  /\ Enc!OperandClassByType[decoded.types[i]] = operands[i].class
                      /\ decoded.fields[f] =
                           IF f = "j" THEN 2 * (operands[i].value \div 2)
                           ELSE operands[i].value
  <2>1. decoded = Decoded(opcode) /\ Assembled(mnem, operands, opcode) /\ mnem \in Mnemonics
    BY <1>2 DEF EncInv, Assembled
  <2>2. PICK k \in DOMAIN Forms[mnem] :
          /\ DecodedAs(opcode, mnem, k) /\ Holds(opcode, Forms[mnem][k], operands)
          /\ Enc!OperandTypesMatch(operands, Forms[mnem][k].types)
    BY <2>1, AssembledWord, Zenon DEF EncInv
  <2> DEFINE form == Forms[mnem][k]
  <2>3. decoded.mnem = mnem /\ decoded.types = form.types
    BY <2>1, <2>2 DEF DecodedAs
  <2>4. /\ Len(operands) = Len(form.types)
        /\ \A i \in 1 .. Len(operands) : Enc!OperandClassByType[form.types[i]] = operands[i].class
    BY <2>2 DEF Enc!OperandTypesMatch
  <2>5. ASSUME NEW i \in 1 .. Len(operands)
        PROVE  decoded.fields[Letter(form.types[i])] =
                 IF Letter(form.types[i]) = "j" THEN 2 * (operands[i].value \div 2)
                 ELSE operands[i].value
    <3> DEFINE f == Letter(form.types[i])
    <3>1. /\ f \in DOMAIN form.fields
          /\ Extracted(opcode, form.fields[f]) = Enc!AssembleOperand(operands[i], form.types[i])
      BY <2>2, Zenon DEF Holds
    <3>2. decoded.fields[f] = IF f = "j" THEN 2 * Extracted(opcode, form.fields[f])
                              ELSE 1 * Extracted(opcode, form.fields[f])
      BY <2>1, <2>2, <3>1, Zenon DEF DecodedAs
    <3>3. f = "j" <=> form.types[i] = "jmp"
      BY <2>1, <2>4, AllLettered, ZenonT(60) DEF Lettered, LetteredUpTo
    <3>4. Extracted(opcode, form.fields[f]) =
            IF f = "j" THEN operands[i].value \div 2 ELSE operands[i].value
      BY <3>1, <3>3, Zenon DEF Enc!AssembleOperand
    <3>5. Extracted(opcode, form.fields[f]) \in Nat
      <4>1. form.fields[f] \in {form.fields[g] : g \in DOMAIN form.fields}
        BY <3>1
      <4>2. IsRun(form.fields[f])
        BY <2>1, <3>1, AllWellFormed DEF WellFormed
      <4>3. opcode \in Nat
        BY <2>1, AssembledWord, SMTT(40) DEF EncInv, Words16
      <4> QED BY <4>2, <4>3, ExtractedDigits DEF IsRun, Words16
    <3> QED BY <3>2, <3>4, <3>5
  <2> HIDE DEF form
  <2> QED BY <2>3, <2>4, <2>5, Zenon DEF Letter
<1> QED BY <1>1, <1>2

(* What the assembler wrote the simulator reads: a word made of the        *)
(* operands of a form is never refused, and decode_instruction gives the   *)
(* mnemonic and the operands back, a jump target without its lowest bit.   *)
THEOREM EncodingIsReadBack == Spec => []EncodingRoundTrip
<1>1. GlacialInv => EncodingRoundTrip
  BY ReadAsWritten, Zenon DEF GlacialInv, EncodingRoundTrip
<1> QED BY <1>1, EncInvariant, PTL

LEMMA ReadInFull == EncInv => Enc!NoBitIgnored
<1> SUFFICES ASSUME EncInv, opcode # -1, decoded # Enc!NotDecoded
             PROVE  /\ Enc!Cardinality(Enc!Matching(opcode)) = 1
                    /\ \E k \in DOMAIN Enc!Forms[decoded.mnem] :
                         LET form == Enc!Forms[decoded.mnem][k]
                         IN  /\ form.types = decoded.types
                             /\ Enc!InsertFields(form, [f \in DOMAIN form.fields |->
                                  IF f = "j" THEN decoded.fields[f] \div 2
                                  ELSE decoded.fields[f]]) = opcode
  BY Zenon DEF Enc!NoBitIgnored
<1>1. opcode \in Words16 /\ decoded = Decoded(opcode) /\ Matching(opcode) # {}
  BY GivenWord DEF EncInv
<1>2. Enc!Cardinality(Enc!Matching(opcode)) = 1
  <2>1. Cardinality(Matching(opcode)) = 1
    BY <1>1, MatchingEntry, FS_Singleton
  <2>2. Enc!Cardinality(Matching(opcode)) = Cardinality(Matching(opcode))
    BY Zenon DEF Enc!Cardinality, Cardinality
  <2> QED BY <2>1, <2>2, EncMatching
<1> DEFINE m == Entry(opcode)[1]  k == Entry(opcode)[2]  form == Forms[m][k]
           values == [f \in DOMAIN form.fields |->
                        IF f = "j" THEN decoded.fields[f] \div 2 ELSE decoded.fields[f]]
<1>3. /\ m \in Mnemonics /\ k \in DOMAIN Forms[m] /\ Matches(opcode, form)
      /\ decoded = [mnem |-> m, types |-> form.types,
                    fields |-> [f \in DOMAIN form.fields |-> ExtractField(opcode, form, f)]]
  BY <1>1, DecodedEntry, Zenon
<1>4. WellFormed(form)
  BY <1>3, AllWellFormed
<1> HIDE DEF m, k, form
<1>5. decoded.mnem = m /\ decoded.types = form.types
  BY <1>3
<1>6. ASSUME NEW f \in DOMAIN form.fields
      PROVE  values[f] = Extracted(opcode, form.fields[f])
  <2>1. decoded.fields[f] = ExtractField(opcode, form, f)
    BY <1>3
  <2>2. IsRun(form.fields[f]) /\ opcode \in Nat
    BY <1>1, <1>4 DEF WellFormed, Words16
  <2>3. Extracted(opcode, form.fields[f]) \in Nat
    BY <2>2, ExtractedDigits DEF IsRun, Words16
  <2> DEFINE x == Extracted(opcode, form.fields[f])
  <2>4. decoded.fields[f] = IF f = "j" THEN 2 * x ELSE 1 * x
    BY <2>1 DEF ExtractField
  <2>5. values[f] = IF f = "j" THEN (2 * x) \div 2 ELSE 1 * x
    BY <2>4
  <2> HIDE DEF x, values
  <2>6. x \in Nat
    BY <2>3 DEF x
  <2>7. values[f] = x
    BY <2>5, <2>6
  <2> QED BY <2>7 DEF x
<1> HIDE DEF values
<1>7. WordOf(RowOf(form, values)) = opcode
  BY <1>1, <1>3, <1>4, <1>6, InsertedAgain
<1>8. Enc!InsertFields(form, values) = opcode
  BY <1>7, EncInsertFields
<1>9. k \in DOMAIN Enc!Forms[decoded.mnem] /\ Enc!Forms[decoded.mnem][k] = form
  BY <1>3, <1>5, EncForms, Zenon DEF form
<1> QED BY <1>2, <1>5, <1>8, <1>9, Zenon DEF values

(* No word has two readings (the assertion of __mnemonic_table_init), and  *)
(* the fixed bits and the fields decoded are all there is in it: words     *)
(* that differ are decoded differently.                                    *)
THEOREM EncodingIsUnambiguous == Spec => []NoBitIgnored
<1>1. GlacialInv => NoBitIgnored
  BY ReadInFull, Zenon DEF GlacialInv, NoBitIgnored
<1> QED BY <1>1, EncInvariant, PTL

(***************************************************************************)
(* A Memory is safe under an operation: it stays one, a call that raises   *)
(* changes nothing, and with write_once no valid byte is overwritten.  (Of *)
(* the operations only the stepped slice past the end is less than safe.)  *)
(***************************************************************************)
ByteValue == 0 .. 255

IsMemory(m) ==
  /\ m \in [data : Seq(ByteValue), valid : Seq(BOOLEAN), size : Nat, write_once : BOOLEAN]
  /\ Len(m.data) = Len(m.valid) /\ m.size <= Len(m.data)

Raised == {"ok", "IndexError", "ValueError", "TypeError", "Uninitialized",
           "UpdateAttempted", "AssertionError"}

Kept(m, n) ==
  \A i \in 1 .. Len(m.valid) :
    i <= Len(n.valid) /\ m.valid[i] /\ n.valid[i] => n.data[i] = m.data[i]

Safe(m, r) ==
  /\ IsMemory(r.mem)
  /\ r.exc \in Raised
  /\ r.exc # "ok" => r.mem = m
  /\ m.write_once /\ r.mem.write_once => Kept(m, r.mem)

(***************************************************************************)
(* Extremes and sequences                                                  *)
(***************************************************************************)
LEMMA MinOfTwo ==
  ASSUME NEW a \in Int, NEW b \in Int
  PROVE  Ops!Min({a, b}) = IF a <= b THEN a ELSE b
<1> DEFINE l == IF a <= b THEN a ELSE b
<1>1. l \in {a, b} /\ \A y \in {a, b} : l <= y
  OBVIOUS
<1>2. \A z \in {a, b} : (\A y \in {a, b} : z <= y) => z = l
  OBVIOUS
<1> HIDE DEF l
<1>3. Ops!Min({a, b}) = l
  BY <1>1, <1>2 DEF Ops!Min
<1> QED BY <1>3 DEF l

LEMMA MaxOfTwo ==
  ASSUME NEW a \in Int, NEW b \in Int
  PROVE  Ops!Max({a, b}) = IF a >= b THEN a ELSE b
<1> DEFINE l == IF a >= b THEN a ELSE b
<1>1. l \in {a, b} /\ \A y \in {a, b} : l >= y
  OBVIOUS
<1>2. \A z \in {a, b} : (\A y \in {a, b} : z >= y) => z = l
  OBVIOUS
<1> HIDE DEF l
<1>3. Ops!Max({a, b}) = l
  BY <1>1, <1>2 DEF Ops!Max
<1> QED BY <1>3 DEF l

LEMMA MakeSeq ==
  ASSUME NEW S, NEW n \in Nat, NEW f \in [1 .. n -> S]
  PROVE  f \in Seq(S) /\ Len(f) = n
<1>1. f \in Seq(S)
  BY SeqDef
<1>2. DOMAIN f = 1 .. Len(f) /\ Len(f) \in Nat
  BY <1>1, LenProperties
<1> QED BY <1>1, <1>2

LEMMA FilledSeq ==
  ASSUME NEW S, NEW n \in Nat, NEW v \in S
  PROVE  /\ Ops!Filled(n, v) \in Seq(S) /\ Len(Ops!Filled(n, v)) = n
         /\ \A i \in 1 .. n : Ops!Filled(n, v)[i] = v
<1>1. [i \in 1 .. n |-> v] \in [1 .. n -> S]
  OBVIOUS
<1> QED BY <1>1, MakeSeq DEF Ops!Filled

LEMMA SliceSeq ==
  ASSUME NEW S, NEW s \in Seq(S), NEW start \in Nat, NEW stop \in Int
  PROVE  LET e == IF stop <= Len(s) THEN stop ELSE Len(s)
             t == Ops!Slice(s, start, stop)
         IN  /\ t \in Seq(S)
             /\ Len(t) = IF start < e THEN e - start ELSE 0
             /\ \A i \in 1 .. Len(t) : t[i] = s[start + i]
<1> DEFINE e == IF stop <= Len(s) THEN stop ELSE Len(s)
           t == Ops!Slice(s, start, stop)
<1>1. Len(s) \in Nat /\ s \in [1 .. Len(s) -> S]
  BY LenProperties
<1>2. Ops!Min({stop, Len(s)}) = e /\ e \in Int /\ e <= Len(s)
  BY <1>1, MinOfTwo
<1>3. t = SubSeq(s, start + 1, e)
  BY <1>2 DEF Ops!Slice
<1> HIDE DEF e, t
<1>4. \A i \in start + 1 .. e : s[i] \in S
  BY <1>1, <1>2
<1>5. /\ t \in Seq(S)
      /\ Len(t) = IF start + 1 <= e THEN e - (start + 1) + 1 ELSE 0
      /\ \A i \in 1 .. e - (start + 1) + 1 : t[i] = s[(start + 1) + i - 1]
  BY <1>2, <1>3, <1>4, SubSeqProperties
<1>6. Len(t) = IF start < e THEN e - start ELSE 0
  BY <1>2, <1>5
<1>7. \A i \in 1 .. Len(t) : t[i] = s[start + i]
  BY <1>2, <1>5, <1>6
<1> QED BY <1>5, <1>6, <1>7 DEF e, t

(* A new middle between the ends of a sequence.                            *)
Middled(t, S, s, new, lo, hi) ==
  /\ t \in Seq(S) /\ Len(t) = lo + Len(new) + (Len(s) - hi)
  /\ \A i \in 1 .. lo : t[i] = s[i]
  /\ \A i \in 1 .. Len(new) : t[lo + i] = new[i]
  /\ \A i \in hi + 1 .. Len(s) : t[lo + Len(new) + (i - hi)] = s[i]

LEMMA MiddleSeq ==
  ASSUME NEW S, NEW s \in Seq(S), NEW new \in Seq(S), NEW lo \in Nat, NEW hi \in Nat,
         lo <= hi, hi <= Len(s)
  PROVE  Middled(SubSeq(s, 1, lo) \o new \o SubSeq(s, hi + 1, Len(s)), S, s, new, lo, hi)
<1> DEFINE n == Len(s)  k == Len(new)  a == SubSeq(s, 1, lo)  c == SubSeq(s, hi + 1, n)
           t == SubSeq(s, 1, lo) \o new \o SubSeq(s, hi + 1, n)
<1>1. n \in Nat /\ k \in Nat /\ \A i \in 1 .. n : s[i] \in S
  BY LenProperties
<1>2. hi <= n
  OBVIOUS
<1> HIDE DEF n, k
<1>3. /\ a \in Seq(S) /\ Len(a) = lo
      /\ \A i \in 1 .. lo : a[i] = s[i]
  <2>1. \A i \in 1 .. lo : s[i] \in S
    BY <1>1, <1>2
  <2>2. /\ a \in Seq(S) /\ Len(a) = IF 1 <= lo THEN lo - 1 + 1 ELSE 0
        /\ \A i \in 1 .. lo - 1 + 1 : a[i] = s[1 + i - 1]
    BY <2>1, SubSeqProperties
  <2> HIDE DEF a
  <2> QED BY <2>2
<1>4. /\ c \in Seq(S) /\ Len(c) = n - hi
      /\ \A i \in 1 .. n - hi : c[i] = s[hi + i]
  <2>1. \A i \in hi + 1 .. n : s[i] \in S
    BY <1>1
  <2>2. hi + 1 \in Int /\ n \in Int
    BY <1>1
  <2>3. /\ c \in Seq(S) /\ Len(c) = IF hi + 1 <= n THEN n - (hi + 1) + 1 ELSE 0
        /\ \A i \in 1 .. n - (hi + 1) + 1 : c[i] = s[(hi + 1) + i - 1]
    BY <2>1, <2>2, SubSeqProperties
  <2> HIDE DEF c
  <2> QED BY <2>3, <1>1, <1>2
<1>5. t = a \o new \o c
  OBVIOUS
<1> HIDE DEF a, c, t
<1>6. /\ a \o new \in Seq(S) /\ Len(a \o new) = lo + k
      /\ \A i \in 1 .. lo + k : (a \o new)[i] = IF i <= lo THEN a[i] ELSE new[i - lo]
  BY <1>3, ConcatProperties DEF k
<1> DEFINE b == a \o new
<1> HIDE DEF b
<1>7. /\ b \o c \in Seq(S) /\ Len(b \o c) = (lo + k) + (n - hi)
      /\ \A i \in 1 .. (lo + k) + (n - hi) :
           (b \o c)[i] = IF i <= lo + k THEN b[i] ELSE c[i - (lo + k)]
  <2>1. b \in Seq(S) /\ Len(b) = lo + k /\ c \in Seq(S) /\ Len(c) = n - hi
    BY <1>4, <1>6 DEF b
  <2>2. /\ b \o c \in Seq(S) /\ Len(b \o c) = Len(b) + Len(c)
        /\ \A i \in 1 .. Len(b) + Len(c) :
             (b \o c)[i] = IF i <= Len(b) THEN b[i] ELSE c[i - Len(b)]
    BY <2>1, ConcatProperties, Zenon
  <2> QED BY <2>1, <2>2, Zenon
<1>8. t = b \o c
  BY <1>5 DEF b
<1>9. ASSUME NEW i \in 1 .. lo PROVE t[i] = s[i]
  <2>1. i \in 1 .. lo + k /\ i <= lo + k /\ i <= lo /\ i \in 1 .. (lo + k) + (n - hi)
    BY <1>1, <1>2
  <2>2. b[i] = a[i] /\ a[i] = s[i]
    BY <1>3, <1>6, <2>1 DEF b
  <2> QED BY <1>7, <1>8, <2>1, <2>2
<1>10. ASSUME NEW i \in hi + 1 .. n PROVE t[lo + k + (i - hi)] = s[i]
  <2> DEFINE j == lo + k + (i - hi)
  <2>1. /\ j \in 1 .. (lo + k) + (n - hi) /\ ~(j <= lo + k) /\ j - (lo + k) = i - hi
        /\ i - hi \in 1 .. n - hi /\ hi + (i - hi) = i
    BY <1>1, <1>2
  <2>2. c[i - hi] = s[hi + (i - hi)]
    BY <1>4, <2>1
  <2> HIDE DEF j
  <2>3. t[j] = c[j - (lo + k)]
    BY <1>7, <1>8, <2>1
  <2>4. t[j] = s[i]
    BY <2>1, <2>2, <2>3
  <2> QED BY <2>4 DEF j
<1>11. ASSUME NEW i \in 1 .. k PROVE t[lo + i] = new[i]
  <2> DEFINE j == lo + i
  <2>1. /\ j \in 1 .. lo + k /\ j \in 1 .. (lo + k) + (n - hi)
        /\ j <= lo + k /\ ~(j <= lo) /\ j - lo = i
    BY <1>1, <1>2
  <2> HIDE DEF j
  <2>2. b[j] = new[j - lo] /\ t[j] = b[j]
    BY <1>6, <1>7, <1>8, <2>1 DEF b
  <2> QED BY <2>1, <2>2 DEF j
<1>12. Len(t) = lo + k + (n - hi)
  BY <1>1, <1>7, <1>8
<1>13. t \in Seq(S)
  BY <1>7, <1>8
<1> QED BY <1>9, <1>10, <1>11, <1>12, <1>13, Zenon DEF n, k, t, Middled

(* A slice of the length of what is stored in it.                          *)
Spliced(t, S, s, start, stop) ==
  /\ t \in Seq(S)
  /\ stop <= Len(s) => Len(t) = Len(s)
  /\ stop > Len(s) => Len(t) = stop
  /\ \A i \in 1 .. Len(s) : i <= start \/ i > stop => t[i] = s[i]

LEMMA SpliceSeq ==
  ASSUME NEW S, NEW s \in Seq(S), NEW start \in Nat, start <= Len(s), NEW stop \in Int,
         NEW new \in Seq(S),
         stop <= start => Len(new) = 0, stop > start => Len(new) = stop - start
  PROVE  Spliced(Ops!Splice(s, start, stop, new), S, s, start, stop)
<1> DEFINE n == Len(s)  k == Len(new)  t == Ops!Splice(s, start, stop, new)
<1>1. n \in Nat /\ k \in Nat
  BY LenProperties
<1>2. start <= n /\ (stop <= start => k = 0) /\ (stop > start => k = stop - start)
  OBVIOUS
<1> DEFINE e == Ops!Min({stop, n})  hi == Ops!Max({start, e})
<1>3. Ops!Min({start, n}) = start
  <2> HIDE DEF n
  <2> QED BY <1>1, <1>2, MinOfTwo
<1>4. t = SubSeq(s, 1, start) \o new \o SubSeq(s, hi + 1, n)
  BY <1>3, Zenon DEF Ops!Splice
<1> HIDE DEF n, k, t
<1>5. (stop <= n => e = stop) /\ (stop > n => e = n) /\ e \in Int
  BY <1>1, MinOfTwo
<1> HIDE DEF e
<1>6. (start >= e => hi = start) /\ (start < e => hi = e)
  BY <1>5, MaxOfTwo
<1> HIDE DEF hi
<1>7. hi \in Nat /\ start <= hi /\ hi <= n
  BY <1>1, <1>2, <1>5, <1>6
<1>8. stop <= n => start + k = hi
  BY <1>1, <1>2, <1>5, <1>6
<1>9. stop > n => hi = n /\ start + k = stop
  BY <1>1, <1>2, <1>5, <1>6
<1>10. stop <= hi \/ (stop > n /\ hi = n)
  BY <1>1, <1>2, <1>5, <1>6
<1>10a. hi <= start \/ hi <= stop
  BY <1>1, <1>2, <1>5, <1>6
<1>11. /\ t \in Seq(S) /\ Len(t) = start + k + (n - hi)
       /\ \A i \in 1 .. start : t[i] = s[i]
       /\ \A i \in hi + 1 .. n : t[start + k + (i - hi)] = s[i]
  <2>1. hi <= Len(s) /\ t = SubSeq(s, 1, start) \o new \o SubSeq(s, hi + 1, Len(s))
    BY <1>4, <1>7, Zenon DEF n
  <2>2. Middled(t, S, s, new, start, hi)
    BY <1>7, <2>1, MiddleSeq, Zenon
  <2> QED BY <2>2, Zenon DEF n, k, Middled
<1>12. stop <= n => Len(t) = n
  BY <1>1, <1>7, <1>8, <1>11
<1>13. stop > n => Len(t) = stop
  BY <1>1, <1>7, <1>9, <1>11
<1>14. ASSUME NEW i \in 1 .. n, i <= start \/ i > stop PROVE t[i] = s[i]
  <2>1. CASE i <= start
    BY <2>1, <1>11
  <2>2. CASE i > start /\ i > stop
    <3>1. stop <= n /\ i \in hi + 1 .. n /\ start + k + (i - hi) = i
      BY <2>2, <1>1, <1>7, <1>8, <1>10a
    <3> QED BY <3>1, <1>11
  <2> QED BY <2>1, <2>2, <1>1, <1>14
<1> QED BY <1>11, <1>12, <1>13, <1>14, Zenon DEF n, t, Spliced

(***************************************************************************)
(* The operations                                                          *)
(***************************************************************************)
LEMMA MemoryParts ==
  ASSUME NEW m, IsMemory(m)
  PROVE  /\ m.data \in Seq(ByteValue) /\ m.valid \in Seq(BOOLEAN)
         /\ m.size \in Nat /\ m.write_once \in BOOLEAN
         /\ Len(m.valid) \in Nat /\ Len(m.data) = Len(m.valid) /\ m.size <= Len(m.data)
         /\ m.data \in [1 .. Len(m.valid) -> ByteValue]
         /\ m.valid \in [1 .. Len(m.valid) -> BOOLEAN]
<1>1. /\ m.data \in Seq(ByteValue) /\ m.valid \in Seq(BOOLEAN)
      /\ m.size \in Nat /\ m.write_once \in BOOLEAN
      /\ Len(m.data) = Len(m.valid) /\ m.size <= Len(m.data)
  BY DEF IsMemory
<1>2. Len(m.valid) \in Nat /\ m.valid \in [1 .. Len(m.valid) -> BOOLEAN]
  BY <1>1, LenProperties
<1>3. m.data \in [1 .. Len(m.data) -> ByteValue]
  BY <1>1, LenProperties
<1> QED BY <1>1, <1>2, <1>3

(* A memory with other parts, and what EXCEPT makes of one.                *)
MemoryWith(data, valid, size, once) ==
  [data |-> data, valid |-> valid, size |-> size, write_once |-> once]

LEMMA PartsMake ==
  ASSUME NEW m, IsMemory(m)
  PROVE  m = MemoryWith(m.data, m.valid, m.size, m.write_once)
BY DEF IsMemory, MemoryWith

LEMMA MemoryWithParts ==
  ASSUME NEW d \in Seq(ByteValue), NEW v \in Seq(BOOLEAN), Len(d) = Len(v),
         NEW z \in Nat, z <= Len(d), NEW o \in BOOLEAN
  PROVE  IsMemory(MemoryWith(d, v, z, o))
BY DEF IsMemory, MemoryWith

LEMMA PartsOf ==
  ASSUME NEW d, NEW v, NEW z, NEW o
  PROVE  /\ MemoryWith(d, v, z, o).data = d /\ MemoryWith(d, v, z, o).valid = v
         /\ MemoryWith(d, v, z, o).size = z /\ MemoryWith(d, v, z, o).write_once = o
BY DEF MemoryWith

WithBoth(m, x, y)     == [m EXCEPT !.data = x, !.valid = y]
WithAll(m, size, x, y) == [m EXCEPT !.size = size, !.data = x, !.valid = y]
WithFlag(m, k, y)     == [m EXCEPT !.valid[k] = y]
WithByte(m, k, x, y)  == [m EXCEPT !.data[k] = x, !.valid[k] = y]

LEMMA BothReplaced ==
  ASSUME NEW m, IsMemory(m), NEW x, NEW y
  PROVE  WithBoth(m, x, y) = MemoryWith(x, y, m.size, m.write_once)
<1>1. PICK d, v, z, o : m = MemoryWith(d, v, z, o)
  BY PartsMake
<1>2. [m EXCEPT !.data = x, !.valid = y] = [[m EXCEPT !.data = x] EXCEPT !.valid = y]
  BY Zenon
<1>3. [m EXCEPT !.data = x] = MemoryWith(x, v, z, o)
  BY <1>1 DEF MemoryWith
<1>4. [MemoryWith(x, v, z, o) EXCEPT !.valid = y] = MemoryWith(x, y, z, o)
  BY DEF MemoryWith
<1>5. WithBoth(m, x, y) = MemoryWith(x, y, z, o)
  BY <1>2, <1>3, <1>4, Zenon DEF WithBoth
<1> QED BY <1>1, <1>5, PartsOf

LEMMA AllReplaced ==
  ASSUME NEW m, IsMemory(m), NEW size, NEW x, NEW y
  PROVE  WithAll(m, size, x, y) = MemoryWith(x, y, size, m.write_once)
<1>1. PICK d, v, z, o : m = MemoryWith(d, v, z, o)
  BY PartsMake
<1>2. [m EXCEPT !.size = size, !.data = x, !.valid = y] =
        [[[m EXCEPT !.size = size] EXCEPT !.data = x] EXCEPT !.valid = y]
  BY Zenon
<1>3. [m EXCEPT !.size = size] = MemoryWith(d, v, size, o)
  BY <1>1 DEF MemoryWith
<1>4. [MemoryWith(d, v, size, o) EXCEPT !.data = x] = MemoryWith(x, v, size, o)
  BY DEF MemoryWith
<1>5. [MemoryWith(x, v, size, o) EXCEPT !.valid = y] = MemoryWith(x, y, size, o)
  BY DEF MemoryWith
<1>6. WithAll(m, size, x, y) = MemoryWith(x, y, size, o)
  BY <1>2, <1>3, <1>4, <1>5, Zenon DEF WithAll
<1> QED BY <1>1, <1>6, PartsOf

LEMMA FlagReplaced ==
  ASSUME NEW m, IsMemory(m), NEW k, NEW y
  PROVE  WithFlag(m, k, y) = MemoryWith(m.data, [m.valid EXCEPT ![k] = y], m.size, m.write_once)
<1>1. PICK d, v, z, o : m = MemoryWith(d, v, z, o)
  BY PartsMake
<1>2. WithFlag(m, k, y) = MemoryWith(d, [v EXCEPT ![k] = y], z, o)
  BY <1>1 DEF WithFlag, MemoryWith
<1>3. m.data = d /\ m.valid = v /\ m.size = z /\ m.write_once = o
  BY <1>1, PartsOf
<1> QED BY <1>2, <1>3, Zenon

LEMMA ByteReplaced ==
  ASSUME NEW m, IsMemory(m), NEW k, NEW x, NEW y
  PROVE  WithByte(m, k, x, y) =
           MemoryWith([m.data EXCEPT ![k] = x], [m.valid EXCEPT ![k] = y], m.size, m.write_once)
<1>1. PICK d, v, z, o : m = MemoryWith(d, v, z, o)
  BY PartsMake
<1>2. [m EXCEPT !.data[k] = x, !.valid[k] = y] =
        [[m EXCEPT !.data[k] = x] EXCEPT !.valid[k] = y]
  BY Zenon
<1>3. [m EXCEPT !.data[k] = x] = MemoryWith([d EXCEPT ![k] = x], v, z, o)
  BY <1>1 DEF MemoryWith
<1>4. [MemoryWith([d EXCEPT ![k] = x], v, z, o) EXCEPT !.valid[k] = y] =
        MemoryWith([d EXCEPT ![k] = x], [v EXCEPT ![k] = y], z, o)
  BY DEF MemoryWith
<1>5. WithByte(m, k, x, y) = MemoryWith([d EXCEPT ![k] = x], [v EXCEPT ![k] = y], z, o)
  BY <1>2, <1>3, <1>4, Zenon DEF WithByte
<1>6. m.data = d /\ m.valid = v /\ m.size = z /\ m.write_once = o
  BY <1>1, PartsOf
<1> QED BY <1>5, <1>6, Zenon

(* A call that goes through, and leaves other bytes and flags.             *)
LEMMA DoneSafe ==
  ASSUME NEW m, IsMemory(m), NEW n, NEW d \in Seq(ByteValue), NEW v \in Seq(BOOLEAN),
         Len(d) = Len(v), NEW z \in Nat, z <= Len(d), NEW o \in BOOLEAN,
         n = MemoryWith(d, v, z, o),
         m.write_once /\ o =>
           \A i \in 1 .. Len(m.valid) :
             i <= Len(v) /\ m.valid[i] /\ v[i] => d[i] = m.data[i]
  PROVE  Safe(m, Ops!Done(n))
<1>1. IsMemory(n)
  BY MemoryWithParts
<1>2. n.data = d /\ n.valid = v /\ n.write_once = o
  BY PartsOf
<1>3. Ops!Done(n).exc = "ok" /\ Ops!Done(n).mem = n
  BY DEF Ops!Done
<1> QED BY <1>1, <1>2, <1>3 DEF Safe, Kept, Raised

LEMMA RaiseSafe ==
  ASSUME NEW m, IsMemory(m), NEW e \in Raised
  PROVE  Safe(m, Ops!Raise(e, m))
BY DEF Ops!Raise, Safe, Kept

LEMMA DeinitSafe ==
  ASSUME NEW m, IsMemory(m), NEW a \in Nat
  PROVE  Safe(m, Ops!Deinit(m, a))
<1>1. CASE a >= Len(m.valid)
  BY <1>1, RaiseSafe DEF Ops!Deinit, Raised
<1>2. CASE ~(a >= Len(m.valid))
  <2> DEFINE v == [m.valid EXCEPT ![a + 1] = FALSE]
  <2>1. Ops!Deinit(m, a) = Ops!Done(WithFlag(m, a + 1, FALSE))
    BY <1>2, Zenon DEF Ops!Deinit, WithFlag
  <2>2. WithFlag(m, a + 1, FALSE) = MemoryWith(m.data, v, m.size, m.write_once)
    BY FlagReplaced
  <2>3. v \in [1 .. Len(m.valid) -> BOOLEAN]
    BY MemoryParts
  <2> HIDE DEF v
  <2>4. v \in Seq(BOOLEAN) /\ Len(v) = Len(m.valid)
    BY <2>3, MemoryParts, MakeSeq
  <2> QED BY <2>1, <2>2, <2>4, MemoryParts, DoneSafe
<1> QED BY <1>1, <1>2

LEMMA SetByteSafe ==
  ASSUME NEW m, IsMemory(m), NEW a \in Nat, NEW byte
  PROVE  Safe(m, Ops!SetByte(m, a, byte))
<1> USE MemoryParts
<1>1. CASE \E e \in Raised : Ops!SetByte(m, a, byte) = Ops!Raise(e, m)
  BY <1>1, RaiseSafe
<1>2. CASE /\ a < Len(m.valid) /\ byte \in ByteValue /\ ~(m.write_once /\ m.valid[a + 1])
           /\ Ops!SetByte(m, a, byte) =
                Ops!Done(WithByte(m, a + 1, byte, TRUE))
  <2> DEFINE d == [m.data EXCEPT ![a + 1] = byte]  v == [m.valid EXCEPT ![a + 1] = TRUE]
  <2>1. WithByte(m, a + 1, byte, TRUE) = MemoryWith(d, v, m.size, m.write_once)
    BY ByteReplaced
  <2>2. v \in [1 .. Len(m.valid) -> BOOLEAN] /\ d \in [1 .. Len(m.valid) -> ByteValue]
    BY <1>2
  <2>3. \A i \in 1 .. Len(m.valid) : i # a + 1 => d[i] = m.data[i]
    OBVIOUS
  <2> HIDE DEF d, v
  <2>4. v \in Seq(BOOLEAN) /\ Len(v) = Len(m.valid)
    BY <2>2, MakeSeq
  <2>5. d \in Seq(ByteValue) /\ Len(d) = Len(m.valid)
    BY <2>2, MakeSeq
  <2> QED BY <1>2, <2>1, <2>3, <2>4, <2>5, DoneSafe
<1>3. \/ \E e \in Raised : Ops!SetByte(m, a, byte) = Ops!Raise(e, m)
      \/ /\ a < Len(m.valid) /\ byte \in ByteValue /\ ~(m.write_once /\ m.valid[a + 1])
         /\ Ops!SetByte(m, a, byte) =
              Ops!Done(WithByte(m, a + 1, byte, TRUE))
  BY DEF Ops!SetByte, WithByte, Raised, ByteValue
<1> QED BY <1>1, <1>2, <1>3

LEMMA FlagsOfSlice ==
  ASSUME NEW m, IsMemory(m), NEW start \in Nat, NEW stop \in Int,
         ~Ops!SliceHas(m, start, stop, TRUE),
         NEW i \in 1 .. Len(m.valid), start < i, i <= stop
  PROVE  ~m.valid[i]
<1> DEFINE n == Len(m.valid)  e == IF stop <= n THEN stop ELSE n
           t == Ops!Slice(m.valid, start, stop)
<1>1. n \in Nat /\ m.valid \in Seq(BOOLEAN)
  BY MemoryParts
<1>2. /\ Len(t) = IF start < e THEN e - start ELSE 0
      /\ \A j \in 1 .. Len(t) : t[j] = m.valid[start + j]
  BY <1>1, SliceSeq
<1>3. start < e /\ i - start \in 1 .. e - start /\ start + (i - start) = i
  <2> HIDE DEF t
  <2> QED BY <1>1
<1> HIDE DEF e
<1>4. i - start \in 1 .. Len(t)
  BY <1>2, <1>3
<1>5. t[i - start] = m.valid[i]
  BY <1>2, <1>3, <1>4
<1>6. ~(t[i - start] = TRUE)
  BY <1>4, Zenon DEF Ops!SliceHas
<1> QED BY <1>5, <1>6

LEMMA SliceLength ==
  ASSUME NEW start \in Int, NEW stop \in Int
  PROVE  /\ Ops!SliceLen(start, stop) \in Nat
         /\ stop <= start => Ops!SliceLen(start, stop) = 0
         /\ stop > start => Ops!SliceLen(start, stop) = stop - start
<1> DEFINE d == stop - start
<1>1. d \in Int /\ Ops!SliceLen(start, stop) = Ops!Max({0, d})
  BY DEF Ops!SliceLen
<1> HIDE DEF d
<1>2. (0 >= d => Ops!Max({0, d}) = 0) /\ (~(0 >= d) => Ops!Max({0, d}) = d)
  BY <1>1, MaxOfTwo
<1> QED BY <1>1, <1>2 DEF d

LEMMA SetSliceSafe ==
  ASSUME NEW m, IsMemory(m), NEW start \in Nat, start <= Len(m.data), NEW stop \in Nat,
         NEW byte \in ByteValue
  PROVE  Safe(m, Ops!SetSlice(m, start, stop, Ops!Filled(Ops!SliceLen(start, stop), byte)))
<1> DEFINE k == Ops!SliceLen(start, stop)
           new == Ops!Filled(k, byte)  flags == Ops!Filled(k, TRUE)
           d == Ops!Splice(m.data, start, stop, new)
           v == Ops!Splice(m.valid, start, stop, flags)
           r == Ops!SetSlice(m, start, stop, new)
           n == Len(m.valid)
<1>1. CASE m.write_once /\ Ops!SliceHas(m, start, stop, TRUE)
  <2>1. r = Ops!Raise("UpdateAttempted", m)
    BY <1>1, Zenon DEF Ops!SetSlice
  <2> QED BY <2>1, RaiseSafe DEF Raised
<1>2. CASE ~(m.write_once /\ Ops!SliceHas(m, start, stop, TRUE))
  <2>1. r = Ops!Done(WithBoth(m, d, v))
    BY <1>2, Zenon DEF Ops!SetSlice, WithBoth
  <2>2. WithBoth(m, d, v) = MemoryWith(d, v, m.size, m.write_once)
    BY BothReplaced
  <2>3. /\ new \in Seq(ByteValue) /\ Len(new) = k /\ flags \in Seq(BOOLEAN) /\ Len(flags) = k
        /\ stop <= start => k = 0
        /\ stop > start => k = stop - start
    <3>1. /\ k \in Nat
          /\ stop <= start => k = 0
          /\ stop > start => k = stop - start
      <4>1. start \in Int /\ stop \in Int
        OBVIOUS
      <4> QED BY <4>1, SliceLength, Zenon
    <3> HIDE DEF k
    <3>2. new \in Seq(ByteValue) /\ Len(new) = k
      BY <3>1, FilledSeq, Zenon
    <3>3. flags \in Seq(BOOLEAN) /\ Len(flags) = k
      <4>1. TRUE \in BOOLEAN
        OBVIOUS
      <4> QED BY <3>1, <4>1, FilledSeq, Zenon
    <3> QED BY <3>1, <3>2, <3>3
  <2> HIDE DEF new, flags, k, r
  <2>4. /\ n \in Nat /\ Len(m.data) = n /\ m.data \in Seq(ByteValue) /\ m.valid \in Seq(BOOLEAN)
        /\ m.size \in Nat /\ m.size <= n /\ m.write_once \in BOOLEAN
    BY MemoryParts
  <2>5. /\ d \in Seq(ByteValue)
        /\ stop <= n => Len(d) = n
        /\ stop > n => Len(d) = stop
        /\ \A i \in 1 .. n : i <= start \/ i > stop => d[i] = m.data[i]
    <3>1. /\ stop \in Int
          /\ stop <= start => Len(new) = 0
          /\ stop > start => Len(new) = stop - start
      BY <2>3
    <3>2. Spliced(d, ByteValue, m.data, start, stop)
      BY <2>3, <2>4, <3>1, SpliceSeq, Zenon
    <3> QED BY <2>4, <3>2, Zenon DEF Spliced
  <2>6. /\ v \in Seq(BOOLEAN)
        /\ stop <= n => Len(v) = n
        /\ stop > n => Len(v) = stop
    <3>1. /\ stop \in Int /\ start <= Len(m.valid)
          /\ stop <= start => Len(flags) = 0
          /\ stop > start => Len(flags) = stop - start
      BY <2>3, <2>4
    <3>2. Spliced(v, BOOLEAN, m.valid, start, stop)
      BY <2>3, <2>4, <3>1, SpliceSeq, Zenon
    <3> QED BY <3>2, Zenon DEF Spliced
  <2> HIDE DEF d, v, n
  <2>7. Len(d) = Len(v) /\ m.size <= Len(d)
    BY <2>4, <2>5, <2>6
  <2>8. m.write_once => \A i \in 1 .. n : m.valid[i] => d[i] = m.data[i]
    <3> SUFFICES ASSUME m.write_once, NEW i \in 1 .. n, m.valid[i]
                 PROVE  d[i] = m.data[i]
      OBVIOUS
    <3>1. ~(start < i /\ i <= stop)
      <4>1. ~Ops!SliceHas(m, start, stop, TRUE)
        BY <1>2, Zenon
      <4>2. i \in 1 .. Len(m.valid)
        BY Zenon DEF n
      <4>3. stop \in Int
        OBVIOUS
      <4> QED BY <4>1, <4>2, <4>3, FlagsOfSlice, Zenon
    <3> QED BY <2>4, <2>5, <3>1
  <2>9. Safe(m, Ops!Done(WithBoth(m, d, v)))
    BY <2>2, <2>4, <2>5, <2>6, <2>7, <2>8, DoneSafe DEF n
  <2> QED BY <2>1, <2>9 DEF r, new, k
<1> QED BY <1>1, <1>2

LEMMA LeastNatural ==
  ASSUME NEW T, T \subseteq Nat, T # {}
  PROVE  \E x \in T : \A y \in T : x <= y
<1> DEFINE less == OpToRel(<, Nat)
<1>1. \A x, y \in Nat : x < y => <<x, y>> \in less
  BY DEF OpToRel
<1>2. IsWellFoundedOn(less, Nat)
  BY NatLessThanWellFounded, Zenon
<1> HIDE DEF less
<1>3. PICK x \in T : \A y \in T : ~(<<y, x>> \in less)
  BY <1>2, WFMin
<1>4. ASSUME NEW y \in T PROVE x <= y
  <2>1. x \in Nat /\ y \in Nat /\ ~(<<y, x>> \in less)
    BY <1>3
  <2>2. ~(y < x)
    BY <1>1, <2>1, Zenon
  <2> QED BY <2>1, <2>2
<1> QED BY <1>4

LEMMA MinOfSet ==
  ASSUME NEW T, T \subseteq Nat, T # {}
  PROVE  Ops!Min(T) \in T /\ \A y \in T : Ops!Min(T) <= y
<1>1. \E x \in T : \A y \in T : x <= y
  BY LeastNatural
<1> QED BY <1>1, Zenon DEF Ops!Min

LEMMA MaxOfSet ==
  ASSUME NEW n \in Nat, NEW T, \A x \in T : x \in Nat /\ x <= n, T # {}
  PROVE  Ops!Max(T) \in T /\ \A y \in T : Ops!Max(T) >= y
<1> DEFINE U == {n - x : x \in T}
<1>1. \A u \in U : u \in Nat
  OBVIOUS
<1>2. PICK e \in T : TRUE
  OBVIOUS
<1>3. n - e \in U
  BY <1>2
<1>4. \A x \in T : n - x \in U
  OBVIOUS
<1>5. \A u \in U : \E x \in T : u = n - x
  OBVIOUS
<1> HIDE DEF U
<1>6. U \subseteq Nat /\ U # {}
  BY <1>1, <1>3
<1>7. PICK z \in U : \A y \in U : z <= y
  BY <1>6, LeastNatural
<1>8. PICK x \in T : z = n - x
  BY <1>5, <1>7
<1>9. ASSUME NEW y \in T PROVE x >= y
  <2>1. n - x <= n - y /\ x \in Nat /\ y \in Nat
    BY <1>4, <1>7, <1>8
  <2> QED BY <2>1
<1> QED BY <1>8, <1>9, Zenon DEF Ops!Max

LEMMA LastFlag ==
  ASSUME NEW m, IsMemory(m), ~(Ops!RFind(m, TRUE) < 0)
  PROVE  Ops!RFind(m, TRUE) \in Nat /\ Ops!RFind(m, TRUE) < Len(m.valid)
<1> DEFINE hits == {i \in 0 .. Len(m.valid) - 1 : m.valid[i + 1] = TRUE}  n == Len(m.valid)
<1>1. Ops!RFind(m, TRUE) = IF hits = {} THEN -1 ELSE Ops!Max(hits)
  BY Zenon DEF Ops!RFind
<1>2. n \in Nat /\ \A h \in hits : h \in Nat /\ h < n /\ h <= n
  BY MemoryParts
<1> HIDE DEF hits, n
<1>3. hits # {}
  <2> DEFINE r == Ops!RFind(m, TRUE)
  <2>1. hits = {} => r = -1
    BY <1>1, Zenon
  <2>2. ~(r < 0)
    OBVIOUS
  <2> HIDE DEF r
  <2> QED BY <2>1, <2>2
<1>4. Ops!Max(hits) \in hits
  BY <1>2, <1>3, MaxOfSet
<1>5. Ops!RFind(m, TRUE) \in hits
  BY <1>1, <1>3, <1>4
<1> QED BY <1>2, <1>5 DEF n

LEMMA PrefixSeq ==
  ASSUME NEW S, NEW s \in Seq(S), NEW stop \in Nat, stop <= Len(s)
  PROVE  /\ Ops!Slice(s, 0, stop) \in Seq(S) /\ Len(Ops!Slice(s, 0, stop)) = stop
         /\ \A i \in 1 .. stop : Ops!Slice(s, 0, stop)[i] = s[i]
<1> DEFINE n == Len(s)  t == Ops!Slice(s, 0, stop)
<1>1. n \in Nat /\ \A i \in 1 .. n : s[i] \in S
  BY LenProperties
<1>2. stop <= n
  OBVIOUS
<1>3. t = SubSeq(s, 1, Ops!Min({stop, n}))
  BY DEF Ops!Slice
<1> HIDE DEF n, t
<1>4. Ops!Min({stop, n}) = stop
  BY <1>1, <1>2, MinOfTwo
<1>5. \A i \in 1 .. stop : s[i] \in S
  BY <1>1, <1>2
<1>6. /\ SubSeq(s, 1, stop) \in Seq(S)
      /\ Len(SubSeq(s, 1, stop)) = IF 1 <= stop THEN stop - 1 + 1 ELSE 0
      /\ \A i \in 1 .. stop - 1 + 1 : SubSeq(s, 1, stop)[i] = s[1 + i - 1]
  BY <1>5, SubSeqProperties
<1>7. t = SubSeq(s, 1, stop)
  BY <1>3, <1>4
<1>8. Len(t) = stop
  BY <1>6, <1>7
<1>9. \A i \in 1 .. stop : t[i] = s[i]
  <2> TAKE i \in 1 .. stop
  <2>1. i \in 1 .. stop - 1 + 1 /\ 1 + i - 1 = i
    OBVIOUS
  <2>2. SubSeq(s, 1, stop)[i] = s[1 + i - 1]
    BY <1>6, <2>1, Zenon
  <2> QED BY <1>7, <2>1, <2>2, Zenon
<1> QED BY <1>6, <1>7, <1>8, <1>9, Zenon DEF t

LEMMA TruncateToSafe ==
  ASSUME NEW m, IsMemory(m), NEW last \in Nat, last < Len(m.data)
  PROVE  Safe(m, Ops!TruncateTo(m, last))
<1> DEFINE z == last + 1
           d == Ops!Slice(m.data, 0, z)  v == Ops!Slice(m.valid, 0, z)
<1>1. Ops!TruncateTo(m, last) = Ops!Done(WithAll(m, z, d, v))
  BY Zenon DEF Ops!TruncateTo, WithAll
<1>2. WithAll(m, z, d, v) = MemoryWith(d, v, z, m.write_once)
  BY AllReplaced
<1>3. /\ z \in Nat /\ z <= Len(m.data) /\ z <= Len(m.valid)
      /\ m.data \in Seq(ByteValue) /\ m.valid \in Seq(BOOLEAN) /\ m.write_once \in BOOLEAN
  BY MemoryParts
<1> HIDE DEF z
<1>4. d \in Seq(ByteValue) /\ Len(d) = z /\ \A i \in 1 .. z : d[i] = m.data[i]
  BY <1>3, PrefixSeq
<1>5. v \in Seq(BOOLEAN) /\ Len(v) = z
  BY <1>3, PrefixSeq
<1> HIDE DEF d, v
<1>6. Len(m.valid) \in Nat
  BY MemoryParts
<1>7. \A i \in 1 .. Len(m.valid) : i <= Len(v) => d[i] = m.data[i]
  BY <1>3, <1>4, <1>5, <1>6
<1> QED BY <1>1, <1>2, <1>3, <1>4, <1>5, <1>7, DoneSafe, SMTT(30), ZenonT(40)

LEMMA TruncateSafe ==
  ASSUME NEW m, IsMemory(m)
  PROVE  Safe(m, Ops!Truncate(m))
<1>1. CASE Ops!RFind(m, TRUE) < 0
  BY <1>1, RaiseSafe DEF Ops!Truncate, Raised
<1>2. CASE ~(Ops!RFind(m, TRUE) < 0)
  BY <1>2, LastFlag, MemoryParts, TruncateToSafe DEF Ops!Truncate
<1> QED BY <1>1, <1>2

(***************************************************************************)
(* A slice with a step                                                     *)
(***************************************************************************)
Strided(cells, c, n, start, stride) ==
  /\ c \in Nat
  /\ \A i \in cells : /\ i \in Nat /\ i < n
                     /\ (i - start) \div stride + 1 \in 1 .. c
                     /\ i = start + stride * ((i - start) \div stride)
  /\ \A j \in 1 .. c : start + stride * (j - 1) \in cells

LEMMA SteppedCells ==
  ASSUME NEW s, Len(s) \in Nat, NEW start \in Nat, NEW stop \in Nat, stop <= Len(s),
         NEW stride \in 2 .. 3
  PROVE  Strided(Ops!Stepped(s, start, stop, stride), Ops!SteppedLen(start, stop, stride),
                 Len(s), start, stride)
<1> DEFINE n == Len(s)  cells == Ops!Stepped(s, start, stop, stride)
           c == Ops!SteppedLen(start, stop, stride)
           q == (stop - start + stride - 1) \div stride
<1>1. n \in Nat /\ stop <= n
  OBVIOUS
<1>2. cells = {i \in start .. Ops!Min({stop, n}) - 1 : (i - start) % stride = 0}
  BY Zenon DEF Ops!Stepped
<1>3. c = Ops!Max({0, q})
  BY Zenon DEF Ops!SteppedLen
<1> HIDE DEF n, cells, c
<1>4. Ops!Min({stop, n}) = stop
  BY <1>1, MinOfTwo
<1>5. cells = {i \in start .. stop - 1 : (i - start) % stride = 0}
  BY <1>2, <1>4, Zenon
<1>6. stride = 2 \/ stride = 3
  OBVIOUS
<1>7. q \in Int
  BY <1>6
<1>8. (0 >= q => c = 0) /\ (~(0 >= q) => c = q)
  <2> HIDE DEF q
  <2> QED BY <1>3, <1>7, MaxOfTwo
<1>9. c \in Nat
  <2> HIDE DEF q
  <2> QED BY <1>7, <1>8
<1>10. ASSUME NEW i \in cells
       PROVE  /\ i \in Nat /\ i < n
              /\ (i - start) \div stride + 1 \in 1 .. c
              /\ i = start + stride * ((i - start) \div stride)
  <2>1. i \in start .. stop - 1 /\ (i - start) % stride = 0
    BY <1>5
  <2>2. CASE stride = 2
    BY <2>1, <2>2, <1>1, <1>8
  <2>3. CASE stride = 3
    BY <2>1, <2>3, <1>1, <1>8
  <2> QED BY <2>2, <2>3, <1>6
<1>11. ASSUME NEW j \in 1 .. c PROVE start + stride * (j - 1) \in cells
  <2> DEFINE i == start + stride * (j - 1)
  <2>1. i \in start .. stop - 1 /\ (i - start) % stride = 0
    <3>1. CASE stride = 2
      BY <3>1, <1>8
    <3>2. CASE stride = 3
      BY <3>2, <1>8
    <3> QED BY <3>1, <3>2, <1>6
  <2> HIDE DEF i
  <2>2. i \in cells
    BY <2>1, <1>5
  <2> QED BY <2>2 DEF i
<1> QED BY <1>9, <1>10, <1>11, Zenon DEF n, cells, c, Strided

(* There are as many cells as flags set.                                   *)
LEMMA SteppedCount ==
  ASSUME NEW s, Len(s) \in Nat, NEW start \in Nat, NEW stop \in Nat, stop <= Len(s),
         NEW stride \in 2 .. 3
  PROVE  Ops!Cardinality(Ops!Stepped(s, start, stop, stride)) = Ops!SteppedLen(start, stop, stride)
<1> DEFINE cells == Ops!Stepped(s, start, stop, stride)
           c == Ops!SteppedLen(start, stop, stride)
           f == [j \in 1 .. c |-> start + stride * (j - 1)]
<1>0. Strided(cells, c, Len(s), start, stride)
  BY SteppedCells, Zenon
<1> HIDE DEF cells, c
<1>1. /\ \A i \in cells : /\ i \in Nat /\ (i - start) \div stride + 1 \in 1 .. c
                          /\ i = start + stride * ((i - start) \div stride)
      /\ \A j \in 1 .. c : start + stride * (j - 1) \in cells
      /\ c \in Nat
  BY <1>0 DEF Strided
<1>2. f \in [1 .. c -> cells]
  BY <1>1
<1>3. \A i, j \in 1 .. c : f[i] = f[j] => i = j
  <2> SUFFICES ASSUME NEW i \in 1 .. c, NEW j \in 1 .. c, f[i] = f[j] PROVE i = j
    OBVIOUS
  <2>1. start + stride * (i - 1) = start + stride * (j - 1)
    OBVIOUS
  <2>2. stride = 2 \/ stride = 3
    OBVIOUS
  <2> HIDE DEF f
  <2>3. CASE stride = 2
    BY <2>1, <2>3
  <2>4. CASE stride = 3
    BY <2>1, <2>4
  <2> QED BY <2>2, <2>3, <2>4
<1>4. \A i \in cells : \E j \in 1 .. c : f[j] = i
  <2> TAKE i \in cells
  <2> DEFINE k == (i - start) \div stride
  <2>1. k + 1 \in 1 .. c /\ i = start + stride * k
    BY <1>1, Zenon
  <2>2. (k + 1) - 1 = k
    <3>1. stride = 2 \/ stride = 3
      OBVIOUS
    <3>2. k \in Int
      BY <1>1, <3>1
    <3> HIDE DEF k
    <3> QED BY <3>2
  <2> HIDE DEF k
  <2>3. f[k + 1] = start + stride * ((k + 1) - 1)
    BY <2>1
  <2> HIDE DEF f
  <2>4. f[k + 1] = i
    BY <2>1, <2>2, <2>3
  <2> QED BY <2>1, <2>4
<1> HIDE DEF f
<1>5. f \in Bijection(1 .. c, cells)
  BY <1>2, <1>3, <1>4, Fun_IsBij
<1>6. ExistsBijection(1 .. c, cells)
  BY <1>5, Zenon DEF ExistsBijection
<1>7. IsFiniteSet(1 .. c) /\ Cardinality(1 .. c) = c
  <2>1. 1 \in Int /\ c \in Int /\ (IF 1 > c THEN 0 ELSE c - 1 + 1) = c
    BY <1>1
  <2>2. IsFiniteSet(1 .. c) /\ Cardinality(1 .. c) = IF 1 > c THEN 0 ELSE c - 1 + 1
    BY <2>1, FS_Interval, Zenon
  <2> QED BY <2>1, <2>2
<1>8. Cardinality(cells) = c
  BY <1>6, <1>7, FS_Bijection
<1>9. Ops!Cardinality(cells) = Cardinality(cells)
  BY Zenon DEF Ops!Cardinality, Cardinality
<1> QED BY <1>8, <1>9 DEF cells, c

Stored(t, S, s, cells) ==
  /\ t \in Seq(S) /\ Len(t) = Len(s)
  /\ \A i \in 1 .. Len(s) : i - 1 \notin cells => t[i] = s[i]

LEMMA StoreEachSeq ==
  ASSUME NEW S, NEW s \in Seq(S), NEW new \in Seq(S), NEW cells,
         NEW start \in Nat, NEW stride \in 2 .. 3,
         Strided(cells, Len(new), Len(s), start, stride)
  PROVE  Stored(Ops!StoreEach(s, start, stride, cells, new), S, s, cells)
<1> DEFINE n == Len(s)  c == Len(new)
           t == [i \in 1 .. n |->
                   IF i - 1 \in cells THEN new[((i - 1 - start) \div stride) + 1] ELSE s[i]]
<1>1. Ops!StoreEach(s, start, stride, cells, new) = t
  BY DEF Ops!StoreEach
<1>2. /\ n \in Nat /\ \A i \in 1 .. n : s[i] \in S
      /\ \A j \in 1 .. c : new[j] \in S
  BY LenProperties
<1>3. \A i \in cells : (i - start) \div stride + 1 \in 1 .. c
  BY DEF Strided
<1> HIDE DEF n, c
<1>4. \A i \in 1 .. n : i - 1 \in cells => new[((i - 1 - start) \div stride) + 1] \in S
  <2> SUFFICES ASSUME NEW i \in 1 .. n, i - 1 \in cells
               PROVE  new[((i - 1 - start) \div stride) + 1] \in S
    OBVIOUS
  <2> DEFINE a == i - 1
  <2>1. a \in cells
    OBVIOUS
  <2> HIDE DEF a
  <2>2. (a - start) \div stride + 1 \in 1 .. c
    BY <1>3, <2>1
  <2>3. new[((a - start) \div stride) + 1] \in S
    BY <1>2, <2>2, Zenon
  <2> QED BY <2>3, Zenon DEF a
<1>5. t \in [1 .. n -> S]
  BY <1>2, <1>4
<1>6. \A i \in 1 .. n : i - 1 \notin cells => t[i] = s[i]
  OBVIOUS
<1> HIDE DEF t
<1>7. t \in Seq(S) /\ Len(t) = n
  BY <1>2, <1>5, MakeSeq
<1> QED BY <1>1, <1>6, <1>7 DEF n, Stored

LEMMA SetSteppedSafe ==
  ASSUME NEW m, IsMemory(m), NEW start \in 0 .. Len(m.data), NEW stop \in 0 .. Len(m.data),
         NEW stride \in 2 .. 3, NEW new \in Seq(ByteValue)
  PROVE  Safe(m, Ops!SetStepped(m, start, stop, stride, new))
<1> DEFINE cells == Ops!Stepped(m.data, start, stop, stride)
           c == Ops!SteppedLen(start, stop, stride)
           d == Ops!StoreEach(m.data, start, stride, cells, new)
           v == Ops!StoreEach(m.valid, start, stride, cells, Ops!Filled(c, TRUE))
           r == Ops!SetStepped(m, start, stop, stride, new)
<1>1. /\ m.data \in Seq(ByteValue) /\ m.valid \in Seq(BOOLEAN)
      /\ m.size \in Nat /\ m.write_once \in BOOLEAN
      /\ Len(m.valid) \in Nat /\ Len(m.data) = Len(m.valid) /\ m.size <= Len(m.data)
  BY MemoryParts
<1>2. start \in Nat /\ stop \in Nat /\ stop <= Len(m.data) /\ Len(m.data) \in Nat
  BY <1>1
<1>3. Ops!Stepped(m.valid, start, stop, stride) = cells
  BY <1>1, Zenon DEF Ops!Stepped
<1>4. Strided(cells, c, Len(m.data), start, stride)
  BY <1>2, SteppedCells, Zenon
<1>5. Ops!Cardinality(cells) = c
  BY <1>2, SteppedCount, Zenon
<1>6. CASE m.write_once /\ \E i \in cells : m.valid[i + 1]
  <2>1. r = Ops!Raise("UpdateAttempted", m)
    BY <1>3, <1>6, Zenon DEF Ops!SetStepped
  <2> QED BY <2>1, RaiseSafe DEF Raised
<1>7. CASE Len(new) # c /\ ~(m.write_once /\ \E i \in cells : m.valid[i + 1])
  <2>1. r = Ops!Raise("ValueError", m)
    BY <1>3, <1>5, <1>7, Zenon DEF Ops!SetStepped
  <2> QED BY <2>1, RaiseSafe DEF Raised
<1>8. CASE Len(new) = c /\ ~(m.write_once /\ \E i \in cells : m.valid[i + 1])
  <2>1. r = Ops!Done([[m EXCEPT !.data = d] EXCEPT !.valid = v])
    BY <1>3, <1>5, <1>8, Zenon DEF Ops!SetStepped
  <2>2. [[m EXCEPT !.data = d] EXCEPT !.valid = v] = WithBoth(m, d, v)
    BY Zenon DEF WithBoth
  <2>3. WithBoth(m, d, v) = MemoryWith(d, v, m.size, m.write_once)
    BY BothReplaced
  <2>4. Ops!Filled(c, TRUE) \in Seq(BOOLEAN) /\ Len(Ops!Filled(c, TRUE)) = c
    <3>1. c \in Nat /\ TRUE \in BOOLEAN
      BY <1>4, Zenon DEF Strided
    <3> QED BY <3>1, FilledSeq, Zenon
  <2> HIDE DEF r, cells, c
  <2>5. /\ d \in Seq(ByteValue) /\ Len(d) = Len(m.data)
        /\ \A i \in 1 .. Len(m.data) : i - 1 \notin cells => d[i] = m.data[i]
    <3>1. Strided(cells, Len(new), Len(m.data), start, stride)
      BY <1>4, <1>8, Zenon
    <3>2. Stored(d, ByteValue, m.data, cells)
      BY <1>1, <1>2, <3>1, StoreEachSeq, Zenon
    <3> QED BY <3>2, Zenon DEF Stored
  <2>6. v \in Seq(BOOLEAN) /\ Len(v) = Len(m.valid)
    <3>1. Strided(cells, Len(Ops!Filled(c, TRUE)), Len(m.valid), start, stride)
      BY <1>1, <1>4, <2>4, Zenon
    <3>2. Stored(v, BOOLEAN, m.valid, cells)
      BY <1>1, <1>2, <2>4, <3>1, StoreEachSeq, Zenon
    <3> QED BY <3>2, Zenon DEF Stored
  <2> HIDE DEF d, v
  <2>7. m.write_once => \A i \in 1 .. Len(m.valid) : m.valid[i] => d[i] = m.data[i]
    <3> SUFFICES ASSUME m.write_once, NEW i \in 1 .. Len(m.valid), m.valid[i]
                 PROVE  d[i] = m.data[i]
      OBVIOUS
    <3>1. ~\E a \in cells : m.valid[a + 1]
      BY <1>8, Zenon
    <3>2. (i - 1) + 1 = i
      BY <1>1
    <3>3. i - 1 \notin cells
      BY <3>1, <3>2, Zenon
    <3> QED BY <1>1, <2>5, <3>3
  <2>8. Safe(m, Ops!Done(WithBoth(m, d, v)))
    BY <1>1, <2>3, <2>5, <2>6, <2>7, DoneSafe
  <2> QED BY <2>1, <2>2, <2>8, Zenon DEF r
<1> QED BY <1>6, <1>7, <1>8, Zenon

(* A stepped slice past the end reaches the cells that it would reach if   *)
(* it stopped there, but asks for as many flags as if it did not.          *)
Contained(m, r) ==
  \/ Safe(m, r)
  \/ /\ IsMemory(r.mem)
     /\ r.exc = "ValueError"
     /\ r.mem = [m EXCEPT !.data = r.mem.data] /\ Len(r.mem.data) = Len(m.data)
     /\ m.write_once => Kept(m, r.mem)

LEMMA SteppedPastEnd ==
  ASSUME NEW s, Len(s) \in Nat, NEW start \in Nat, NEW stop \in Nat, stop > Len(s),
         NEW stride \in 2 .. 3
  PROVE  Ops!Stepped(s, start, stop, stride) = Ops!Stepped(s, start, Len(s), stride)
<1>1. Ops!Min({stop, Len(s)}) = Len(s) /\ Ops!Min({Len(s), Len(s)}) = Len(s)
  BY MinOfTwo
<1> QED BY <1>1, Zenon DEF Ops!Stepped

LEMMA DataReplaced ==
  ASSUME NEW m, IsMemory(m), NEW d
  PROVE  [m EXCEPT !.data = d] = MemoryWith(d, m.valid, m.size, m.write_once)
<1>1. PICK x, v, z, o : m = MemoryWith(x, v, z, o)
  BY PartsMake
<1>2. [m EXCEPT !.data = d] = MemoryWith(d, v, z, o)
  BY <1>1 DEF MemoryWith
<1> QED BY <1>1, <1>2, PartsOf

LEMMA SetSteppedPastEnd ==
  ASSUME NEW m, IsMemory(m), NEW start \in 0 .. Len(m.data), NEW stop \in Nat,
         stop > Len(m.data), NEW stride \in 2 .. 3, NEW new \in Seq(ByteValue)
  PROVE  Contained(m, Ops!SetStepped(m, start, stop, stride, new))
<1> DEFINE end == Len(m.data)
           cells == Ops!Stepped(m.data, start, end, stride)
           c == Ops!SteppedLen(start, end, stride)
           n == Ops!SteppedLen(start, stop, stride)
           d == Ops!StoreEach(m.data, start, stride, cells, new)
           r == Ops!SetStepped(m, start, stop, stride, new)
<1>1. /\ m.data \in Seq(ByteValue) /\ m.valid \in Seq(BOOLEAN)
      /\ m.size \in Nat /\ m.write_once \in BOOLEAN
      /\ Len(m.valid) \in Nat /\ end = Len(m.valid) /\ m.size <= end
  BY MemoryParts
<1>2. start \in Nat /\ end \in Nat /\ end \in 0 .. Len(m.data) /\ end <= Len(m.data)
  BY <1>1
<1>3. /\ Ops!Stepped(m.data, start, stop, stride) = cells
      /\ Ops!Stepped(m.valid, start, stop, stride) = Ops!Stepped(m.valid, start, end, stride)
  BY <1>1, <1>2, SteppedPastEnd
<1>4. Ops!Stepped(m.valid, start, end, stride) = cells
  BY <1>1, Zenon DEF Ops!Stepped
<1>5. Strided(cells, c, end, start, stride) /\ Ops!Cardinality(cells) = c
  BY <1>2, SteppedCells, SteppedCount, Zenon
<1>6. CASE n = c
  <2>1. r = Ops!SetStepped(m, start, end, stride, new)
    BY <1>3, <1>4, <1>6, Zenon DEF Ops!SetStepped
  <2> QED BY <1>2, <2>1, SetSteppedSafe, Zenon DEF Contained
<1>7. CASE n # c /\ m.write_once /\ \E i \in cells : m.valid[i + 1]
  <2>1. r = Ops!Raise("UpdateAttempted", m)
    BY <1>3, <1>4, <1>7, Zenon DEF Ops!SetStepped
  <2> QED BY <2>1, RaiseSafe DEF Raised, Contained
<1>8. CASE n # c /\ Len(new) # c /\ ~(m.write_once /\ \E i \in cells : m.valid[i + 1])
  <2>1. r = Ops!Raise("ValueError", m)
    BY <1>3, <1>4, <1>5, <1>8, Zenon DEF Ops!SetStepped
  <2> QED BY <2>1, RaiseSafe DEF Raised, Contained
<1>9. CASE n # c /\ Len(new) = c /\ ~(m.write_once /\ \E i \in cells : m.valid[i + 1])
  <2>1. r = Ops!Raise("ValueError", [m EXCEPT !.data = d])
    BY <1>3, <1>4, <1>5, <1>9, Zenon DEF Ops!SetStepped
  <2>2. Stored(d, ByteValue, m.data, cells)
    <3>1. Strided(cells, Len(new), Len(m.data), start, stride)
      BY <1>5, <1>9, Zenon
    <3> QED BY <1>1, <1>2, <3>1, StoreEachSeq, Zenon
  <2> HIDE DEF r, cells, c, n, d
  <2>3. /\ d \in Seq(ByteValue) /\ Len(d) = end
        /\ \A i \in 1 .. end : i - 1 \notin cells => d[i] = m.data[i]
    BY <2>2, Zenon DEF Stored
  <2>4. [m EXCEPT !.data = d] = MemoryWith(d, m.valid, m.size, m.write_once)
    BY DataReplaced
  <2> DEFINE q == MemoryWith(d, m.valid, m.size, m.write_once)
  <2>5. IsMemory(q) /\ q.data = d /\ q.valid = m.valid
    BY <1>1, <2>3, MemoryWithParts, PartsOf
  <2>6. m.write_once => Kept(m, q)
    <3> SUFFICES ASSUME m.write_once, NEW i \in 1 .. Len(m.valid), m.valid[i]
                 PROVE  d[i] = m.data[i]
      BY <2>5, Zenon DEF Kept
    <3>1. ~\E a \in cells : m.valid[a + 1]
      BY <1>9, Zenon
    <3>2. (i - 1) + 1 = i
      BY <1>1
    <3>3. i - 1 \notin cells
      BY <3>1, <3>2, Zenon
    <3> QED BY <1>1, <2>3, <3>3
  <2>7. r.exc = "ValueError" /\ r.mem = q
    BY <2>1, <2>4 DEF Ops!Raise
  <2> HIDE DEF q
  <2> QED BY <2>3, <2>4, <2>5, <2>6, <2>7, Zenon DEF Contained, q, r
<1> HIDE DEF r, cells, c, n
<1> QED BY <1>6, <1>7, <1>8, <1>9, Zenon DEF r

(***************************************************************************)
(* New memories, and the two halves of a word put together                 *)
(***************************************************************************)
LEMMA NewMemory ==
  ASSUME NEW size \in Nat, NEW once \in BOOLEAN
  PROVE  IsMemory(Ops!Memory(size, once))
<1> DEFINE d == Ops!Filled(size, 0)  v == Ops!Filled(size, FALSE)
<1>1. 0 \in ByteValue /\ FALSE \in BOOLEAN
  BY DEF ByteValue
<1>2. /\ d \in Seq(ByteValue) /\ Len(d) = size
      /\ v \in Seq(BOOLEAN) /\ Len(v) = size
  BY <1>1, FilledSeq
<1>3. Ops!Memory(size, once) = MemoryWith(d, v, size, once)
  BY Zenon DEF Ops!Memory, MemoryWith
<1> HIDE DEF d, v
<1>4. Len(d) = Len(v) /\ size <= Len(d)
  BY <1>2
<1>5. IsMemory(MemoryWith(d, v, size, once))
  BY <1>2, <1>4, MemoryWithParts, Zenon
<1> QED BY <1>3, <1>5, Zenon

LEMMA NewMemoryOf ==
  ASSUME NEW d \in Seq(ByteValue), NEW once \in BOOLEAN
  PROVE  IsMemory(Ops!MemoryOf(d, once)) /\ Ops!MemoryOf(d, once).write_once = once
<1> DEFINE z == Len(d)  v == Ops!Filled(z, TRUE)
<1>1. TRUE \in BOOLEAN /\ z \in Nat
  BY LenProperties
<1>2. v \in Seq(BOOLEAN) /\ Len(v) = z
  BY <1>1, FilledSeq
<1>3. Ops!MemoryOf(d, once) = MemoryWith(d, v, z, once)
  BY Zenon DEF Ops!MemoryOf, MemoryWith
<1> HIDE DEF v
<1>4. Len(d) = Len(v) /\ z <= Len(d)
  BY <1>1, <1>2
<1>5. IsMemory(MemoryWith(d, v, z, once))
  BY <1>1, <1>2, <1>4, MemoryWithParts, Zenon
<1>6. MemoryWith(d, v, z, once).write_once = once
  BY PartsOf
<1> QED BY <1>3, <1>5, <1>6, Zenon

LEMMA InterleaveSafe ==
  ASSUME NEW m, IsMemory(m), NEW meml, Len(meml) = 2, meml[1] = m, IsMemory(meml[2])
  PROVE  Safe(m, Ops!Interleave(meml))
<1> DEFINE each == meml[1].size
           f == [a \in 1 .. each * 2 |-> meml[((a - 1) % 2) + 1].data[((a - 1) \div 2) + 1]]
           r == Ops!Interleave(meml)
<1>1. CASE \E e \in Raised : r = Ops!Raise(e, m)
  <2> HIDE DEF r
  <2>1. Safe(m, r)
    BY <1>1, RaiseSafe
  <2> QED BY <2>1 DEF r
<1>2. CASE r = Ops!Done(Ops!MemoryOf(f, FALSE)) /\ \A i \in 1 .. 2 : Len(meml[i].data) = each
  <2> HIDE DEF r
  <2>1. \A i \in {1, 2} : meml[i].data \in Seq(ByteValue) /\ Len(meml[i].data) = each
    BY <1>2, MemoryParts
  <2>2. each \in Nat
    BY MemoryParts
  <2>3. \A i \in {1, 2} : meml[i].data \in [1 .. each -> ByteValue]
    BY <2>1, <2>2, LenProperties
  <2> HIDE DEF each
  <2>4. \A a \in 1 .. each * 2 : /\ ((a - 1) % 2) + 1 \in {1, 2}
                                 /\ ((a - 1) \div 2) + 1 \in 1 .. each
    BY <2>2
  <2>5. \A a \in 1 .. each * 2 :
          meml[((a - 1) % 2) + 1].data[((a - 1) \div 2) + 1] \in ByteValue
    BY <2>3, <2>4
  <2>6. f \in [1 .. each * 2 -> ByteValue] /\ each * 2 \in Nat
    BY <2>2, <2>5
  <2> HIDE DEF f
  <2>7. f \in Seq(ByteValue)
    BY <2>6, MakeSeq
  <2>8. FALSE \in BOOLEAN
    OBVIOUS
  <2> DEFINE n == Ops!MemoryOf(f, FALSE)
  <2>9. IsMemory(n) /\ n.write_once = FALSE
    BY <2>7, <2>8, NewMemoryOf, Zenon
  <2> HIDE DEF n
  <2>10. Ops!Done(n).exc = "ok" /\ Ops!Done(n).mem = n
    BY DEF Ops!Done
  <2>11. Safe(m, Ops!Done(n))
    BY <2>9, <2>10 DEF Safe, Raised
  <2> QED BY <1>2, <2>11, Zenon DEF n, r
<1>3. \/ \E e \in Raised : r = Ops!Raise(e, m)
      \/ r = Ops!Done(Ops!MemoryOf(f, FALSE)) /\ \A i \in 1 .. 2 : Len(meml[i].data) = each
  <2>1. "AssertionError" \in Raised /\ "Uninitialized" \in Raised /\ "ValueError" \in Raised
    BY DEF Raised
  <2> QED BY <2>1, Zenon DEF Ops!Interleave
<1> QED BY <1>1, <1>2, <1>3, Zenon

(***************************************************************************)
(* The ranges found one after another                                      *)
(***************************************************************************)
LEMMA FindIs ==
  ASSUME NEW m, IsMemory(m), NEW v, NEW from \in Nat, NEW T,
         \A i \in T : i \in from .. Len(m.valid) - 1 /\ m.valid[i + 1] = v,
         \A i \in from .. Len(m.valid) - 1 : m.valid[i + 1] = v => i \in T
  PROVE  /\ T = {} => Ops!Find(m, v, from) = -1
         /\ T # {} => /\ Ops!Find(m, v, from) = Ops!Min(T)
                      /\ Ops!Min(T) \in T /\ \A y \in T : Ops!Min(T) <= y
<1> DEFINE hits == {i \in from .. Len(m.valid) - 1 : m.valid[i + 1] = v}
<1>1. Ops!Find(m, v, from) = IF hits = {} THEN -1 ELSE Ops!Min(hits)
  BY Zenon DEF Ops!Find
<1>2. hits = T
  BY Zenon
<1> HIDE DEF hits
<1>3. T \subseteq Nat
  BY MemoryParts
<1>4. T # {} => Ops!Min(T) \in T /\ \A y \in T : Ops!Min(T) <= y
  BY <1>3, MinOfSet, Zenon
<1> QED BY <1>1, <1>2, <1>4, Zenon

(* The range found from an address, as RangesCover asks for it.            *)
Covers(m, first, r) ==
  LET ahead == {a \in first .. Len(m.valid) - 1 : m.valid[a + 1]}
  IN  IF ahead = {} THEN r.exc = "Uninitialized"
      ELSE /\ r.exc = "ok" /\ r.start = Ops!Min(ahead) /\ r.stop > r.start
           /\ \A a \in r.start .. r.stop - 1 : a \in ahead
           /\ r.stop \notin ahead

LEMMA RangeFound ==
  ASSUME NEW m, IsMemory(m), m.size > 0, ~m.valid[Len(m.valid)],
         NEW first \in 0 .. Len(m.valid)
  PROVE  Covers(m, first, Ops!NextValidRange(m, first))
<1> DEFINE n == Len(m.valid)  r == Ops!NextValidRange(m, first)
           ahead == {a \in first .. n - 1 : m.valid[a + 1]}
           begin == Ops!Find(m, TRUE, first)
           end == Ops!Find(m, FALSE, begin + 1)
           behind == {i \in begin + 1 .. n - 1 : ~m.valid[i + 1]}
<1>1. n \in Nat /\ n > 0 /\ m.valid \in [1 .. n -> BOOLEAN] /\ m.size \in Nat
  BY MemoryParts
<1>2. \A i \in 0 .. n - 1 : m.valid[i + 1] \in BOOLEAN
  BY <1>1
<1>3. first \in Nat /\ 0 <= first /\ first <= n
  BY <1>1
<1>4. /\ ahead = {} => begin = -1
      /\ ahead # {} => /\ begin = Ops!Min(ahead)
                       /\ Ops!Min(ahead) \in ahead /\ \A y \in ahead : Ops!Min(ahead) <= y
  <2>1. \A i \in ahead : i \in first .. n - 1 /\ m.valid[i + 1] = TRUE
    BY <1>2, <1>3
  <2>2. \A i \in first .. n - 1 : m.valid[i + 1] = TRUE => i \in ahead
    OBVIOUS
  <2> HIDE DEF ahead
  <2> QED BY <1>3, <2>1, <2>2, FindIs, Zenon
<1>5. CASE ahead = {}
  <2>1. begin = -1
    BY <1>4, <1>5
  <2>2. begin < 0
    <3> HIDE DEF begin
    <3> QED BY <2>1
  <2>3. r = [exc |-> "Uninitialized"]
    BY <2>2, Zenon DEF Ops!NextValidRange
  <2>4. r.exc = "Uninitialized"
    <3> HIDE DEF r
    <3> QED BY <2>3
  <2> QED BY <1>5, <2>4, Zenon DEF Covers
<1>6. CASE ahead # {}
  <2>1. begin = Ops!Min(ahead) /\ begin \in ahead /\ \A y \in ahead : begin <= y
    BY <1>4, <1>6, Zenon
  <2>2. begin \in first .. n - 1 /\ m.valid[begin + 1]
    <3> HIDE DEF begin
    <3> QED BY <2>1
  <2> DEFINE last == n - 1
  <2>3. /\ begin + 1 \in Nat /\ begin \in Int /\ first <= begin /\ begin < last /\ last \in Int
        /\ ~m.valid[last + 1]
    <3> HIDE DEF begin
    <3> QED BY <1>1, <1>3, <2>2
  <2>4. last \in behind
    <3> HIDE DEF begin
    <3> QED BY <1>1, <2>3
  <2>5. end = Ops!Min(behind) /\ end \in behind /\ \A y \in behind : end <= y
    <3> DEFINE no == FALSE
    <3>1. \A i \in behind : i \in begin + 1 .. n - 1 /\ m.valid[i + 1] = no
      <4> HIDE DEF begin
      <4> QED BY <1>2, <2>3
    <3>2. \A i \in begin + 1 .. n - 1 : m.valid[i + 1] = no => i \in behind
      <4> HIDE DEF begin
      <4> QED OBVIOUS
    <3>3. end = Ops!Find(m, no, begin + 1)
      OBVIOUS
    <3> HIDE DEF behind, begin, end, no
    <3>4. /\ Ops!Find(m, no, begin + 1) = Ops!Min(behind)
          /\ Ops!Min(behind) \in behind /\ \A y \in behind : Ops!Min(behind) <= y
      BY <2>3, <2>4, <3>1, <3>2, FindIs, Zenon
    <3> QED BY <3>3, <3>4, Zenon
  <2>6. ~(begin < 0) /\ ~(end < 0) /\ end > begin /\ end \in Int /\ end <= last
        /\ ~m.valid[end + 1]
    <3> HIDE DEF begin, end
    <3> QED BY <1>3, <2>3, <2>4, <2>5
  <2>7. r = [exc |-> "ok", start |-> begin, stop |-> end]
    BY <2>6, Zenon DEF Ops!NextValidRange
  <2> HIDE DEF begin, end, r
  <2>8. r.exc = "ok" /\ r.start = begin /\ r.stop = end
    BY <2>7
  <2>9. ASSUME NEW a \in begin .. end - 1 PROVE a \in ahead
    <3>1. a \in first .. n - 1 /\ a <= end - 1
      BY <1>1, <1>3, <2>3, <2>6
    <3>2. CASE a = begin
      BY <2>1, <3>2
    <3>3. CASE a # begin
      <4>1. a \in begin + 1 .. n - 1
        BY <2>3, <3>1, <3>3
      <4>2. a \notin behind
        <5> HIDE DEF behind
        <5> QED BY <2>5, <2>6, <3>1
      <4> QED BY <3>1, <4>1, <4>2
    <3> QED BY <3>2, <3>3
  <2>10. end \notin ahead
    BY <2>6
  <2>11. /\ r.exc = "ok" /\ r.start = Ops!Min(ahead) /\ r.stop > r.start
         /\ \A a \in r.start .. r.stop - 1 : a \in ahead
         /\ r.stop \notin ahead
    <3> HIDE DEF ahead
    <3> QED BY <2>1, <2>6, <2>8, <2>9, <2>10
  <2> QED BY <1>6, <2>11, Zenon DEF Covers, r, n
<1> QED BY <1>5, <1>6, Zenon DEF r

(***************************************************************************)
(* A Memory under any sequence of calls                                    *)
(***************************************************************************)
MemoryInv == tool = "memory" => IsMemory(mem) /\ result \in Raised

(* What a call does to the memory it is given.                             *)
SafeStep ==
  /\ IsMemory(mem') /\ result' \in Raised
  /\ Ops!FailureIsContained
  /\ mem.write_once /\ mem'.write_once => Kept(mem, mem')

LEMMA ReturnsSafe ==
  ASSUME NEW r, Safe(mem, r), Ops!Returns(r)
  PROVE  SafeStep
BY Zenon DEF Safe, Ops!Returns, SafeStep, Ops!FailureIsContained

LEMMA ReturnsContained ==
  ASSUME NEW r, Contained(mem, r), Ops!Returns(r), Ops!StoreSteppedPastEnd
  PROVE  SafeStep
<1>1. mem' = r.mem /\ result' = r.exc
  BY Zenon DEF Ops!Returns
<1>2. CASE Safe(mem, r)
  BY <1>2, ReturnsSafe
<1>3. CASE ~Safe(mem, r)
  <2>1. /\ IsMemory(mem') /\ result' = "ValueError"
        /\ mem' = [mem EXCEPT !.data = mem'.data] /\ Len(mem'.data) = Len(mem.data)
        /\ mem.write_once => Kept(mem, mem')
    BY <1>1, <1>3, Zenon DEF Contained
  <2>2. result' \in Raised
    BY <2>1 DEF Raised
  <2> QED BY <2>1, <2>2, Zenon DEF SafeStep, Ops!FailureIsContained, Ops!OnlyDataStored
<1> QED BY <1>2, <1>3

LEMMA AnswersSafe ==
  ASSUME NEW e \in Raised, IsMemory(mem), Ops!Answers(e)
  PROVE  SafeStep
<1>1. result' = e /\ mem' = mem
  BY DEF Ops!Answers
<1>2. Kept(mem, mem)
  BY DEF Kept
<1> QED BY <1>1, <1>2, Zenon DEF SafeStep, Ops!FailureIsContained

LEMMA BytesStored ==
  ASSUME NEW byte \in Ops!Byte, NEW n \in Nat
  PROVE  Ops!Filled(n, byte) \in Seq(ByteValue) /\ byte \in ByteValue
<1>1. byte \in ByteValue
  BY Zenon DEF Ops!Byte, ByteValue
<1> QED BY <1>1, FilledSeq, Zenon

LEMMA MemoryInit ==
  ASSUME OpsAssumption, Ops!Init
  PROVE  IsMemory(mem) /\ result \in Raised
<1>1. Size \in Nat
  BY DEF OpsAssumption
<1>2. PICK once \in BOOLEAN : \/ mem = Ops!Memory(Size, once)
                              \/ \E byte \in Ops!Byte : mem = Ops!MemoryOf(Ops!Filled(Size, byte), once)
  BY Zenon DEF Ops!Init
<1>3. IsMemory(mem)
  <2>1. CASE mem = Ops!Memory(Size, once)
    BY <1>1, <2>1, NewMemory, Zenon
  <2>2. CASE \E byte \in Ops!Byte : mem = Ops!MemoryOf(Ops!Filled(Size, byte), once)
    <3>1. PICK byte \in Ops!Byte : mem = Ops!MemoryOf(Ops!Filled(Size, byte), once)
      BY <2>2
    <3>2. Ops!Filled(Size, byte) \in Seq(ByteValue)
      BY <1>1, BytesStored, Zenon
    <3> QED BY <3>1, <3>2, NewMemoryOf, Zenon
  <2> QED BY <1>2, <2>1, <2>2, Zenon
<1>4. result \in Raised
  BY DEF Ops!Init, Raised
<1> QED BY <1>3, <1>4

LEMMA MemoryStep ==
  ASSUME OpsAssumption, IsMemory(mem), Ops!Next
  PROVE  SafeStep
<1> DEFINE n == Len(mem.data)
<1>1. n \in Nat /\ mem.size \in Nat /\ mem.size <= n /\ Size \in Nat /\ MaxLen \in Nat
  BY MemoryParts DEF OpsAssumption
<1>2. Ops!Address \subseteq Nat
  BY <1>1 DEF Ops!Address
<1>3. CASE Ops!StoreByte
  <2>1. PICK a \in Ops!Address, byte \in Values : Ops!Returns(Ops!SetByte(mem, a, byte))
    BY <1>3, Zenon DEF Ops!StoreByte
  <2>2. a \in Nat
    BY <1>2, Zenon
  <2> QED BY <2>1, <2>2, SetByteSafe, ReturnsSafe, Zenon
<1>4. CASE Ops!StoreSlice
  <2>1. PICK start \in 0 .. n, stop \in 0 .. MaxLen, byte \in Ops!Byte :
          Ops!Returns(Ops!SetSlice(mem, start, stop, Ops!Filled(Ops!SliceLen(start, stop), byte)))
    BY <1>4, Zenon DEF Ops!StoreSlice
  <2>2. start \in Nat /\ start <= n /\ stop \in Nat
    BY <1>1
  <2>3. byte \in ByteValue
    BY <1>1, BytesStored, Zenon
  <2> QED BY <2>1, <2>2, <2>3, SetSliceSafe, ReturnsSafe, Zenon
<1>5. CASE Ops!StoreStepped
  <2>1. PICK start \in 0 .. n, stop \in 0 .. n, stride \in 2 .. 3,
             k \in 1 .. 2, byte \in Ops!Byte :
          Ops!Returns(Ops!SetStepped(mem, start, stop, stride, Ops!Filled(k, byte)))
    BY <1>5, Zenon DEF Ops!StoreStepped
  <2>2. k \in Nat
    OBVIOUS
  <2>3. Ops!Filled(k, byte) \in Seq(ByteValue)
    BY <2>2, BytesStored, Zenon
  <2> QED BY <2>1, <2>3, SetSteppedSafe, ReturnsSafe, Zenon
<1>10. CASE Ops!StoreSteppedPastEnd
  <2>1. PICK start \in 0 .. n, stop \in n + 1 .. MaxLen + 1, stride \in 2 .. 3,
             k \in 1 .. 2, byte \in Ops!Byte :
          Ops!Returns(Ops!SetStepped(mem, start, stop, stride, Ops!Filled(k, byte)))
    BY <1>10, Zenon DEF Ops!StoreSteppedPastEnd
  <2>2. k \in Nat /\ stop \in Nat /\ stop > n
    BY <1>1
  <2>3. Ops!Filled(k, byte) \in Seq(ByteValue)
    BY <2>2, BytesStored, Zenon
  <2>4. Contained(mem, Ops!SetStepped(mem, start, stop, stride, Ops!Filled(k, byte)))
    BY <2>2, <2>3, SetSteppedPastEnd, Zenon
  <2> QED BY <1>10, <2>1, <2>4, ReturnsContained, Zenon
<1>6. CASE Ops!Forget
  <2>1. CASE \E a \in Ops!Address : Ops!Returns(Ops!Deinit(mem, a))
    BY <1>2, <2>1, DeinitSafe, ReturnsSafe, Zenon
  <2>2. CASE \E start, stop \in Ops!Address : Ops!Returns(Ops!DeinitSlice(mem, start, stop))
    <3>1. Ops!Returns(Ops!Raise("TypeError", mem))
      BY <2>2, Zenon DEF Ops!DeinitSlice
    <3>2. "TypeError" \in Raised
      BY DEF Raised
    <3> QED BY <3>1, <3>2, RaiseSafe, ReturnsSafe, Zenon
  <2> QED BY <1>6, <2>1, <2>2, Zenon DEF Ops!Forget
<1>7. CASE Ops!Shorten
  <2>1. CASE Ops!Returns(Ops!Truncate(mem))
    BY <2>1, TruncateSafe, ReturnsSafe, Zenon
  <2>2. CASE \E last \in 0 .. n - 1 : Ops!Returns(Ops!TruncateTo(mem, last))
    <3>1. PICK last \in 0 .. n - 1 : Ops!Returns(Ops!TruncateTo(mem, last))
      BY <2>2
    <3>2. last \in Nat /\ last < n
      BY <1>1
    <3> QED BY <3>1, <3>2, TruncateToSafe, ReturnsSafe, Zenon
  <2> QED BY <1>7, <2>1, <2>2, Zenon DEF Ops!Shorten
<1>8. CASE Ops!Load
  <2>1. PICK e \in Raised : Ops!Answers(e)
    <3>1. \A a : Ops!GetByte(mem, a) \in Raised
      BY DEF Ops!GetByte, Raised
    <3>2. \A start, stop : Ops!GetSlice(mem, start, stop) \in Raised
      BY DEF Ops!GetSlice, Raised
    <3>3. \A start, stop : Ops!GetStepped(mem, start, stop, 2) \in Raised
      BY DEF Ops!GetStepped, Raised
    <3> QED BY <1>8, <3>1, <3>2, <3>3, Zenon DEF Ops!Load
  <2> QED BY <2>1, AnswersSafe
<1>9. CASE Ops!Combine
  <2>1. PICK other \in {mem, Ops!Memory(Size, FALSE), Ops!MemoryOf(Ops!Filled(Size, 1), FALSE)} :
          Ops!Returns(Ops!Interleave(<<mem, other>>))
    BY <1>9, Zenon DEF Ops!Combine
  <2>2. IsMemory(other)
    <3>1. FALSE \in BOOLEAN /\ 1 \in ByteValue
      BY DEF ByteValue
    <3>2. IsMemory(Ops!Memory(Size, FALSE))
      BY <1>1, <3>1, NewMemory, Zenon
    <3>3. Ops!Filled(Size, 1) \in Seq(ByteValue)
      BY <1>1, <3>1, FilledSeq, Zenon
    <3>4. IsMemory(Ops!MemoryOf(Ops!Filled(Size, 1), FALSE))
      BY <3>1, <3>3, NewMemoryOf, Zenon
    <3> QED BY <3>2, <3>4, Zenon
  <2> DEFINE meml == <<mem, other>>
  <2>3. Len(meml) = 2 /\ meml[1] = mem /\ meml[2] = other
    OBVIOUS
  <2> HIDE DEF meml
  <2>4. Ops!Returns(Ops!Interleave(meml))
    BY <2>1, Zenon DEF meml
  <2>5. IsMemory(meml[2])
    BY <2>2, <2>3, Zenon
  <2> QED BY <2>3, <2>4, <2>5, InterleaveSafe, ReturnsSafe, Zenon
<1> QED BY <1>3, <1>4, <1>5, <1>6, <1>7, <1>8, <1>9, <1>10, Zenon DEF Ops!Next

LEMMA MemoryCall ==
  ASSUME MemoryInv, Next, tool = "memory"
  PROVE  tool' = tool /\ SafeStep
<1>1. IsMemory(mem)
  BY Zenon DEF MemoryInv
<1>2. "memory" # "intelhex" /\ "memory" # "vmem" /\ "memory" # "glacial"
  OBVIOUS
<1>3. OpsNext
  BY <1>2, Zenon DEF Next, HexWrite, HexOther, ImgNext, EncNext
<1>4. tool' = tool /\ Ops!Next
  BY <1>3, Zenon DEF OpsNext
<1> QED BY <1>1, <1>4, MemoryStep, OpsAssumption, Zenon

LEMMA OtherTool ==
  ASSUME Next, tool # "memory"
  PROVE  tool' = tool
BY Zenon DEF Next, OpsNext, HexWrite, HexOther, HexRest, ImgNext, EncNext

LEMMA MemoryInvariant == Spec => []MemoryInv
<1>1. Init => MemoryInv
  <2>1. "memory" # "intelhex" /\ "memory" # "vmem" /\ "memory" # "glacial"
    OBVIOUS
  <2> QED BY <2>1, MemoryInit, OpsAssumption, Zenon DEF Init, MemoryInv
<1>2. MemoryInv /\ [Next]_vars => MemoryInv'
  <2> SUFFICES ASSUME MemoryInv, [Next]_vars PROVE MemoryInv'
    OBVIOUS
  <2>1. CASE Next /\ tool = "memory"
    BY <2>1, MemoryCall, Zenon DEF SafeStep, MemoryInv
  <2>2. CASE Next /\ tool # "memory"
    BY <2>2, OtherTool, Zenon DEF MemoryInv
  <2>3. CASE UNCHANGED vars
    BY <2>3, Zenon DEF vars, MemoryInv
  <2> QED BY <2>1, <2>2, <2>3, Zenon
<1> QED BY <1>1, <1>2, PTL DEF Spec

(* memory.py: a call that raises leaves the memory as it was, whatever was *)
(* done to it before.  The exception is a stepped slice that ends past the *)
(* end: it may have stored data, but no flag and no byte more.             *)
THEOREM FailedCallsAreContained == Spec => FailureIsContained
<1>1. MemoryInv /\ [Next]_vars => [tool = "memory" => Ops!FailureIsContained]_vars
  BY MemoryCall, Zenon DEF SafeStep
<1> QED BY <1>1, MemoryInvariant, PTL DEF Spec, FailureIsContained

(* memory.py: with write_once a byte that stays valid keeps its value,     *)
(* whichever assignment is used.                                           *)
THEOREM WrittenBytesStay == Spec => WriteOnce
<1>1. MemoryInv /\ [Next]_vars => [tool = "memory" => Ops!KeepsWritten]_vars
  <2> SUFFICES ASSUME MemoryInv, Next, tool = "memory" PROVE Ops!KeepsWritten
    BY Zenon
  <2> DEFINE n == Len(mem.valid)  k == Len(mem'.valid)
  <2>1. IsMemory(mem) /\ SafeStep
    BY MemoryCall, Zenon DEF MemoryInv
  <2>2. n \in Nat /\ k \in Nat
    BY <2>1, MemoryParts, Zenon DEF SafeStep
  <2> HIDE DEF n, k
  <2>3. \A i \in 1 .. Ops!Min({n, k}) : i \in 1 .. n /\ i <= k
    BY <2>2, MinOfTwo
  <2>4. mem.write_once /\ mem'.write_once => Kept(mem, mem')
    BY <2>1, Zenon DEF SafeStep
  <2> QED BY <2>3, <2>4, Zenon DEF Kept, Ops!KeepsWritten, n, k
<1> QED BY <1>1, MemoryInvariant, PTL DEF Spec, WriteOnce

(* memory.py: the ranges found one after another from address 0 visit each *)
(* valid byte once and end, as long as the last byte is not valid.         *)
THEOREM RangesCoverValidBytes == Spec => []RangesCover
<1>1. MemoryInv => RangesCover
  <2> SUFFICES ASSUME MemoryInv, tool = "memory" PROVE Ops!RangesCover
    BY Zenon DEF RangesCover
  <2>1. IsMemory(mem)
    BY Zenon DEF MemoryInv
  <2>2. mem.size > 0 /\ ~mem.valid[Len(mem.valid)] =>
          \A first \in 0 .. Len(mem.valid) : Covers(mem, first, Ops!NextValidRange(mem, first))
    BY <2>1, RangeFound, Zenon
  <2> QED BY <2>2, Zenon DEF Covers, Ops!RangesCover
<1> QED BY <1>1, MemoryInvariant, PTL

(***************************************************************************)
(* Induction on the index of a sequence, as a fact about a set, and the    *)
(* functions that are defined by it                                        *)
(***************************************************************************)
LEMMA IndexInduction ==
  ASSUME NEW n \in Nat, NEW T, 0 \in T, \A i \in 1 .. n : i - 1 \in T => i \in T
  PROVE  \A i \in 0 .. n : i \in T
<1> SUFFICES ASSUME NEW j \in 0 .. n, j \notin T PROVE FALSE
  OBVIOUS
<1> DEFINE U == {i \in 0 .. n : i \notin T}
<1>1. U \subseteq Nat /\ U # {}
  OBVIOUS
<1>2. PICK x \in U : \A y \in U : x <= y
  <2> HIDE DEF U
  <2> QED BY <1>1, LeastNatural
<1>3. x \in 0 .. n /\ x \notin T /\ x # 0
  BY <1>2
<1>4. x \in 1 .. n /\ x - 1 \in 0 .. n /\ ~(x <= x - 1)
  BY <1>3
<1>5. x - 1 \notin U
  <2> HIDE DEF U
  <2> QED BY <1>2, <1>4
<1> QED BY <1>3, <1>4, <1>5

(* h is the function on 0 .. n that begins at base and goes on by F.       *)
Iterates(h, n, base, F) ==
  h = [i \in 0 .. n |-> IF i = 0 THEN base ELSE F[<<h[i - 1], i>>]]

LEMMA Iteration ==
  ASSUME NEW n \in Nat, NEW S, NEW base \in S, NEW F \in [S \X (1 .. n) -> S]
  PROVE  \E h \in [0 .. n -> S] : Iterates(h, n, base, F)
<1> DEFINE T == {k \in 0 .. n : \E h \in [0 .. k -> S] : Iterates(h, k, base, F)}
<1>1. 0 \in T
  <2> DEFINE h == [i \in 0 .. 0 |-> base]
  <2>1. h \in [0 .. 0 -> S] /\ Iterates(h, 0, base, F)
    BY DEF Iterates
  <2> QED BY <2>1
<1>2. ASSUME NEW k \in 1 .. n, k - 1 \in T PROVE k \in T
  <2>1. PICK h \in [0 .. k - 1 -> S] : Iterates(h, k - 1, base, F)
    BY <1>2
  <2> DEFINE g == [i \in 0 .. k |-> IF i = k THEN F[<<h[k - 1], k>>] ELSE h[i]]
  <2>2. h[k - 1] \in S /\ <<h[k - 1], k>> \in S \X (1 .. n)
    BY <2>1
  <2>3. F[<<h[k - 1], k>>] \in S
    BY <2>2
  <2>4. g \in [0 .. k -> S]
    BY <2>1, <2>3
  <2>5. \A i \in 0 .. k - 1 : g[i] = h[i]
    OBVIOUS
  <2>6. g[k] = F[<<h[k - 1], k>>]
    OBVIOUS
  <2>7. \A i \in 0 .. k - 1 : h[i] = IF i = 0 THEN base ELSE F[<<h[i - 1], i>>]
    BY <2>1, Zenon DEF Iterates
  <2> HIDE DEF g
  <2>8. ASSUME NEW i \in 0 .. k PROVE g[i] = IF i = 0 THEN base ELSE F[<<g[i - 1], i>>]
    <3>1. CASE i = k
      <4>1. i # 0 /\ k - 1 \in 0 .. k - 1
        BY <3>1
      <4>2. g[k - 1] = h[k - 1]
        BY <2>5, <4>1
      <4> QED BY <2>6, <3>1, <4>1, <4>2
    <3>2. CASE i = 0
      <4>1. 0 \in 0 .. k - 1
        OBVIOUS
      <4> QED BY <2>5, <2>7, <3>2, <4>1
    <3>3. CASE i # k /\ i # 0
      <4>1. i \in 0 .. k - 1 /\ i - 1 \in 0 .. k - 1
        BY <3>3
      <4>2. g[i] = h[i] /\ g[i - 1] = h[i - 1]
        BY <2>5, <4>1
      <4>3. h[i] = F[<<h[i - 1], i>>]
        BY <2>7, <3>3, <4>1
      <4> QED BY <3>3, <4>2, <4>3
    <3> QED BY <3>1, <3>2, <3>3
  <2>9. Iterates(g, k, base, F)
    <3> DEFINE f == [i \in 0 .. k |-> IF i = 0 THEN base ELSE F[<<g[i - 1], i>>]]
    <3>1. DOMAIN g = 0 .. k /\ g = [i \in 0 .. k |-> g[i]]
      BY <2>4
    <3>2. \A i \in 0 .. k : g[i] = f[i]
      BY <2>8
    <3>3. f = [i \in 0 .. k |-> f[i]]
      OBVIOUS
    <3> HIDE DEF f
    <3>4. g = f
      BY <3>1, <3>2, <3>3
    <3> QED BY <3>4 DEF f, Iterates
  <2> QED BY <2>4, <2>9
<1> HIDE DEF T
<1>3. \A k \in 0 .. n : k \in T
  BY <1>1, <1>2, IndexInduction, Zenon
<1>4. n \in T
  BY <1>3
<1> QED BY <1>4 DEF T

(***************************************************************************)
(* The segments of an executable                                           *)
(***************************************************************************)
ProgHeader == [p_type : Nat, p_offset : Nat, p_paddr : Nat, p_filesz : Nat]

(* How many elements of t the sort leaves before x.                        *)
Ahead(t, x) == Img!Cardinality({i \in 1 .. Len(t) : t[i].p_paddr <= x.p_paddr})

Inserted(t, x) == SubSeq(t, 1, Ahead(t, x)) \o <<x>> \o SubSeq(t, Ahead(t, x) + 1, Len(t))

LEMMA AheadIsIndex ==
  ASSUME NEW t, Len(t) \in Nat, NEW x
  PROVE  Ahead(t, x) \in Nat /\ Ahead(t, x) <= Len(t)
<1> DEFINE n == Len(t)  T == {i \in 1 .. n : t[i].p_paddr <= x.p_paddr}
<1>1. T \subseteq 1 .. n /\ n \in Nat
  OBVIOUS
<1>2. Ahead(t, x) = Img!Cardinality(T)
  BY Zenon DEF Ahead
<1>3. Img!Cardinality(T) = Cardinality(T)
  BY Zenon DEF Img!Cardinality, Cardinality
<1> HIDE DEF T, n
<1>4. IsFiniteSet(1 .. n) /\ Cardinality(1 .. n) = n
  <2>1. 1 \in Int /\ n \in Int /\ (IF 1 > n THEN 0 ELSE n - 1 + 1) = n
    BY <1>1
  <2>2. IsFiniteSet(1 .. n) /\ Cardinality(1 .. n) = IF 1 > n THEN 0 ELSE n - 1 + 1
    BY <2>1, FS_Interval, Zenon
  <2> QED BY <2>1, <2>2
<1>5. IsFiniteSet(T) /\ Cardinality(T) <= Cardinality(1 .. n)
  BY <1>1, <1>4, FS_Subset
<1>6. Cardinality(T) \in Nat
  BY <1>5, FS_CardinalityType
<1> QED BY <1>2, <1>3, <1>4, <1>5, <1>6 DEF n

LEMMA InsertedSeq ==
  ASSUME NEW H, NEW t \in Seq(H), NEW x \in H
  PROVE  Middled(Inserted(t, x), H, t, <<x>>, Ahead(t, x), Ahead(t, x))
<1>1. Len(t) \in Nat
  BY LenProperties
<1> DEFINE k == Ahead(t, x)  one == <<x>>
<1>2. k \in Nat /\ k <= Len(t) /\ k <= k
  BY <1>1, AheadIsIndex
<1>3. one \in Seq(H)
  OBVIOUS
<1>4. Inserted(t, x) = SubSeq(t, 1, k) \o one \o SubSeq(t, k + 1, Len(t))
  BY Zenon DEF Inserted
<1> HIDE DEF k, one
<1>5. Middled(SubSeq(t, 1, k) \o one \o SubSeq(t, k + 1, Len(t)), H, t, one, k, k)
  BY <1>2, <1>3, MiddleSeq, Zenon
<1> QED BY <1>4, <1>5, Zenon DEF k, one

(* The rounds of the sort.                                                 *)
Sorts(h, s, H) ==
  /\ h \in [0 .. Len(s) -> Seq(H)] /\ h[0] = <<>>
  /\ \A i \in 1 .. Len(s) : h[i] = Inserted(h[i - 1], s[i])

LEMMA SortRounds ==
  ASSUME NEW H, NEW s \in Seq(H)
  PROVE  \E h : Sorts(h, s, H) /\ h[Len(s)] = Img!SortedByAddress(s)
<1> DEFINE n == Len(s)
           sorted[i \in 0 .. n] ==
             IF i = 0 THEN <<>> ELSE Inserted(sorted[i - 1], s[i])
           F == [z \in Seq(H) \X (1 .. n) |-> Inserted(z[1], s[z[2]])]
<1>1. Img!SortedByAddress(s) = sorted[n]
  BY Zenon DEF Img!SortedByAddress, Inserted, Ahead
<1>2. n \in Nat /\ \A i \in 1 .. n : s[i] \in H
  BY LenProperties
<1>3. \A t \in Seq(H), x \in H : Inserted(t, x) \in Seq(H)
  BY InsertedSeq, Zenon DEF Middled
<1> HIDE DEF n
<1>4. F \in [Seq(H) \X (1 .. n) -> Seq(H)]
  BY <1>2, <1>3
<1>5. PICK f \in [0 .. n -> Seq(H)] : Iterates(f, n, <<>>, F)
  <2>1. <<>> \in Seq(H)
    OBVIOUS
  <2> HIDE DEF F
  <2> QED BY <1>2, <1>4, <2>1, Iteration, Zenon
<1>6. f = [i \in 0 .. n |-> IF i = 0 THEN <<>> ELSE Inserted(f[i - 1], s[i])]
  <2>1. \A i \in 0 .. n : i # 0 => F[<<f[i - 1], i>>] = Inserted(f[i - 1], s[i])
    <3> SUFFICES ASSUME NEW i \in 0 .. n, i # 0
                 PROVE  F[<<f[i - 1], i>>] = Inserted(f[i - 1], s[i])
      OBVIOUS
    <3>1. i - 1 \in 0 .. n /\ i \in 1 .. n
      BY <1>2
    <3>2. f[i - 1] \in Seq(H)
      BY <1>5, <3>1
    <3> QED BY <3>1, <3>2
  <2>2. f = [i \in 0 .. n |-> IF i = 0 THEN <<>> ELSE F[<<f[i - 1], i>>]]
    BY <1>5, Zenon DEF Iterates
  <2> HIDE DEF F
  <2> QED BY <2>1, <2>2
<1>7. sorted = [i \in 0 .. n |-> IF i = 0 THEN <<>> ELSE Inserted(sorted[i - 1], s[i])]
  BY <1>6
<1> HIDE DEF sorted
<1>8. sorted[0] = <<>> /\ \A i \in 1 .. n : sorted[i] = Inserted(sorted[i - 1], s[i])
  <2>1. \A i \in 0 .. n : sorted[i] = IF i = 0 THEN <<>> ELSE Inserted(sorted[i - 1], s[i])
    BY <1>7, Zenon
  <2> QED BY <1>2, <2>1
<1>9. \A i \in 0 .. n : sorted[i] \in Seq(H)
  <2> DEFINE T == {i \in 0 .. n : sorted[i] \in Seq(H)}
  <2>1. 0 \in T
    <3>1. <<>> \in Seq(H)
      OBVIOUS
    <3>2. sorted[0] \in Seq(H) /\ 0 \in 0 .. n
      BY <1>2, <1>8, <3>1
    <3> QED BY <3>2
  <2>2. ASSUME NEW i \in 1 .. n, i - 1 \in T PROVE i \in T
    <3>1. sorted[i - 1] \in Seq(H) /\ i \in 0 .. n
      BY <2>2
    <3>2. sorted[i] \in Seq(H)
      BY <1>2, <1>3, <1>8, <3>1
    <3> QED BY <3>1, <3>2
  <2> HIDE DEF T
  <2>3. \A i \in 0 .. n : i \in T
    BY <1>2, <2>1, <2>2, IndexInduction, Zenon
  <2> QED BY <2>3 DEF T
<1>10. sorted = [i \in 0 .. n |-> sorted[i]]
  BY <1>7
<1>11. sorted \in [0 .. n -> Seq(H)]
  BY <1>9, <1>10
<1> QED BY <1>1, <1>8, <1>11, Zenon DEF n, Sorts

(***************************************************************************)
(* The operators of ByteMemory are here under a name of each instance.     *)
(***************************************************************************)
LEMMA ImgMin == \A S : Img!Min(S) = Ops!Min(S)
BY Zenon DEF Img!Min, Ops!Min

LEMMA ImgMax == \A S : Img!Max(S) = Ops!Max(S)
BY Zenon DEF Img!Max, Ops!Max

LEMMA ImgSlice == \A s, i, j : Img!Slice(s, i, j) = Ops!Slice(s, i, j)
BY ImgMin, Zenon DEF Img!Slice, Ops!Slice

LEMMA ImgSplice == \A s, i, j, new : Img!Splice(s, i, j, new) = Ops!Splice(s, i, j, new)
BY ImgMin, ImgMax, Zenon DEF Img!Splice, Ops!Splice

LEMMA ImgSetSlice == \A m, i, j, new : Img!SetSlice(m, i, j, new) = Ops!SetSlice(m, i, j, new)
<1>1. \A m, i, j : Img!SliceHas(m, i, j, TRUE) = Ops!SliceHas(m, i, j, TRUE)
  BY ImgSlice, Zenon DEF Img!SliceHas, Ops!SliceHas
<1>2. \A i, j : Img!SliceLen(i, j) = Ops!SliceLen(i, j)
  BY ImgMax, Zenon DEF Img!SliceLen, Ops!SliceLen
<1>3. \A n, v : Img!Filled(n, v) = Ops!Filled(n, v)
  BY Zenon DEF Img!Filled, Ops!Filled
<1>4. \A e, m : Img!Raise(e, m) = Ops!Raise(e, m) /\ Img!Done(m) = Ops!Done(m)
  BY Zenon DEF Img!Raise, Ops!Raise, Img!Done, Ops!Done
<1> QED BY <1>1, <1>2, <1>3, <1>4, ImgSplice, ZenonT(40) DEF Img!SetSlice, Ops!SetSlice

(***************************************************************************)
(* A segment is placed                                                     *)
(***************************************************************************)
MemoryShape == [data : Seq(ByteValue), valid : Seq(BOOLEAN), size : Nat, write_once : BOOLEAN]

LEMMA ShapeMakes ==
  ASSUME NEW m \in MemoryShape, NEW x \in Seq(ByteValue), NEW y \in Seq(BOOLEAN)
  PROVE  /\ WithBoth(m, x, y) \in MemoryShape
         /\ WithBoth(m, x, y).data = x /\ WithBoth(m, x, y).valid = y
         /\ WithBoth(m, x, y).write_once = m.write_once
<1> DEFINE p == [m EXCEPT !.data = x]  q == [p EXCEPT !.valid = y]
<1>1. WithBoth(m, x, y) = q
  BY Zenon DEF WithBoth
<1>2. p \in MemoryShape /\ p.data = x /\ p.write_once = m.write_once
  BY DEF MemoryShape
<1> HIDE DEF p
<1>3. /\ q \in MemoryShape /\ q.data = p.data /\ q.valid = y
      /\ q.write_once = p.write_once
  BY <1>2 DEF MemoryShape
<1> HIDE DEF q
<1> QED BY <1>1, <1>2, <1>3

(* What stands before a slice, and behind it if it fits, stays.            *)
Resliced(t, S, s, new, start, stop, lo, hi) ==
  /\ lo <= hi /\ hi <= Len(s)
  /\ start <= Len(s) => lo = start
  /\ start > Len(s) => lo = Len(s)
  /\ start <= stop /\ stop <= Len(s) => hi = stop
  /\ stop > Len(s) => hi = Len(s)
  /\ Middled(t, S, s, new, lo, hi)

LEMMA SpliceKeeps ==
  ASSUME NEW S, NEW s \in Seq(S), NEW start \in Nat, NEW stop \in Int, NEW new \in Seq(S)
  PROVE  \E lo, hi \in Nat :
           Resliced(Ops!Splice(s, start, stop, new), S, s, new, start, stop, lo, hi)
<1> DEFINE n == Len(s)  lo == Ops!Min({start, n})  e == Ops!Min({stop, n})
           hi == Ops!Max({lo, e})
<1>1. n \in Nat
  BY LenProperties
<1>2. Ops!Splice(s, start, stop, new) = SubSeq(s, 1, lo) \o new \o SubSeq(s, hi + 1, n)
  BY Zenon DEF Ops!Splice
<1> HIDE DEF n
<1>3. (start <= n => lo = start) /\ (start > n => lo = n)
  BY <1>1, MinOfTwo
<1> HIDE DEF lo
<1>4. (stop <= n => e = stop) /\ (stop > n => e = n) /\ e \in Int /\ e <= n
  BY <1>1, MinOfTwo
<1> HIDE DEF e
<1>5. lo \in Nat /\ lo <= n
  BY <1>1, <1>3
<1>6. (lo >= e => hi = lo) /\ (lo < e => hi = e)
  BY <1>4, <1>5, MaxOfTwo
<1> HIDE DEF hi
<1>7. hi \in Nat /\ lo <= hi /\ hi <= n
  BY <1>1, <1>4, <1>5, <1>6
<1>8. (start <= stop /\ stop <= n => hi = stop) /\ (stop > n => hi = n)
  BY <1>1, <1>3, <1>4, <1>6
<1>9. Middled(SubSeq(s, 1, lo) \o new \o SubSeq(s, hi + 1, n), S, s, new, lo, hi)
  <2>1. hi <= Len(s)
    BY <1>7, Zenon DEF n
  <2> QED BY <1>5, <1>7, <2>1, MiddleSeq, Zenon DEF n
<1> QED BY <1>2, <1>3, <1>5, <1>7, <1>8, <1>9, Zenon DEF n, Resliced

LEMMA SliceFlags ==
  ASSUME NEW start \in Int, NEW stop \in Int
  PROVE  /\ Ops!Filled(Ops!SliceLen(start, stop), TRUE) \in Seq(BOOLEAN)
         /\ stop <= start => Len(Ops!Filled(Ops!SliceLen(start, stop), TRUE)) = 0
         /\ stop > start => Len(Ops!Filled(Ops!SliceLen(start, stop), TRUE)) = stop - start
<1> DEFINE k == Ops!SliceLen(start, stop)  flags == Ops!Filled(k, TRUE)
<1>1. k \in Nat /\ (stop <= start => k = 0) /\ (stop > start => k = stop - start)
  BY SliceLength, Zenon
<1>2. TRUE \in BOOLEAN
  OBVIOUS
<1> HIDE DEF k
<1>3. flags \in Seq(BOOLEAN) /\ Len(flags) = k
  BY <1>1, <1>2, FilledSeq, Zenon
<1> HIDE DEF flags
<1> QED BY <1>1, <1>3 DEF flags, k

(* r, made from m, still has the first o bytes of m.                       *)
BelowKept(r, m, o) ==
  /\ r \in MemoryShape
  /\ \A a \in 1 .. o : a <= Len(r.data) /\ r.data[a] = m.data[a]

(* No byte below a slice is reached by an assignment to it.                *)
LEMMA PlacedBelow ==
  ASSUME NEW m \in MemoryShape, NEW start \in Nat, NEW stop \in Int, NEW new \in Seq(ByteValue),
         NEW o \in Nat, o <= start, o <= Len(m.data)
  PROVE  BelowKept(Ops!SetSlice(m, start, stop, new).mem, m, o)
<1> DEFINE r == Ops!SetSlice(m, start, stop, new)
           flags == Ops!Filled(Ops!SliceLen(start, stop), TRUE)
           d == Ops!Splice(m.data, start, stop, new)
           v == Ops!Splice(m.valid, start, stop, flags)
<1>1. m.data \in Seq(ByteValue) /\ m.valid \in Seq(BOOLEAN)
  BY DEF MemoryShape
<1>2. Len(m.data) \in Nat
  BY <1>1, LenProperties
<1>3. CASE m.write_once /\ Ops!SliceHas(m, start, stop, TRUE)
  <2>1. r = Ops!Raise("UpdateAttempted", m)
    BY <1>3, Zenon DEF Ops!SetSlice
  <2>2. r.mem = m
    <3> HIDE DEF r
    <3> QED BY <2>1 DEF Ops!Raise
  <2> HIDE DEF r
  <2>3. \A a \in 1 .. o : a <= Len(m.data)
    BY <1>2
  <2> QED BY <2>2, <2>3, Zenon DEF r, BelowKept
<1>4. CASE ~(m.write_once /\ Ops!SliceHas(m, start, stop, TRUE))
  <2>1. r = Ops!Done(WithBoth(m, d, v))
    BY <1>4, Zenon DEF Ops!SetSlice, WithBoth
  <2>2. r.mem = WithBoth(m, d, v)
    <3> HIDE DEF r
    <3> QED BY <2>1 DEF Ops!Done
  <2> HIDE DEF r
  <2>3. flags \in Seq(BOOLEAN)
    <3>1. start \in Int
      OBVIOUS
    <3> QED BY <3>1, SliceFlags, Zenon
  <2> HIDE DEF flags
  <2>4. v \in Seq(BOOLEAN)
    BY <1>1, <2>3, SpliceKeeps, Zenon DEF Middled, Resliced
  <2>5. PICK lo, hi \in Nat : Resliced(d, ByteValue, m.data, new, start, stop, lo, hi)
    BY <1>1, SpliceKeeps, Zenon
  <2> HIDE DEF d, v
  <2> DEFINE n == Len(m.data)  k == Len(new)
  <2>6. /\ d \in Seq(ByteValue) /\ Len(d) = lo + k + (n - hi) /\ hi <= n
        /\ \A i \in 1 .. lo : d[i] = m.data[i]
    BY <2>5, Zenon DEF Middled, Resliced
  <2>7. k \in Nat /\ n \in Nat /\ o <= lo
    BY <1>2, <2>5, LenProperties DEF Resliced
  <2> HIDE DEF n, k
  <2>8. ASSUME NEW a \in 1 .. o PROVE a <= Len(d) /\ d[a] = m.data[a]
    <3>1. a \in 1 .. lo /\ lo <= lo + k + (n - hi)
      BY <2>6, <2>7
    <3> QED BY <2>6, <2>7, <3>1
  <2>9. WithBoth(m, d, v) \in MemoryShape /\ WithBoth(m, d, v).data = d
    BY <2>4, <2>6, ShapeMakes
  <2> QED BY <2>2, <2>8, <2>9, Zenon DEF r, BelowKept
<1> QED BY <1>3, <1>4, Zenon

(***************************************************************************)
(* vmem: types, and the microcode                                          *)
(***************************************************************************)
Segment == [paddr : Nat, eaddr : Int, data : Seq(ByteValue)]

VmemInv ==
  /\ mem \in MemoryShape /\ elf \in Objects
  /\ prog_headers \in Seq(ProgHeader) /\ segments \in Seq(Segment)
  /\ Img!MicrocodeKept
  /\ Img!TypeOK

LEMMA ObjectParts ==
  ASSUME NEW object \in Objects
  PROVE  /\ object.phdrs \in Seq(ProgHeader) /\ object.contents \in Seq(ByteValue)
         /\ Len(object.phdrs) \in Nat
         /\ \A i \in 1 .. Len(object.phdrs) : object.phdrs[i] \in ProgHeader
<1>1. object.phdrs \in Seq(ProgHeader) /\ object.contents \in Seq(ByteValue)
  BY ImageAssumption, Zenon DEF ProgHeader, ByteValue
<1> QED BY <1>1, LenProperties

LEMMA MicrocodeParts ==
  /\ Microcode \in MemoryShape /\ MaxObjects \in Nat
  /\ Img!RiscvMemOffset \in Nat /\ Img!RiscvMemOffset <= Len(Microcode.data)
<1>1. Microcode \in MemoryShape /\ MaxObjects \in Nat
  BY ImageAssumption, Zenon DEF MemoryShape, ByteValue
<1>2. Microcode.data \in Seq(ByteValue) /\ Len(Microcode.data) >= 4
  BY <1>1, ImageAssumption DEF MemoryShape
<1>3. Microcode.data[3] \in ByteValue /\ Microcode.data[4] \in ByteValue
  <2>1. 3 \in 1 .. Len(Microcode.data) /\ 4 \in 1 .. Len(Microcode.data)
    BY <1>2, LenProperties
  <2> QED BY <1>2, <2>1
<1>4. Img!RiscvMemOffset \in Nat
  <2> DEFINE x == Microcode.data[3]  y == Microcode.data[4]
  <2>1. x \in Nat /\ y \in Nat
    BY <1>3 DEF ByteValue
  <2>2. Img!RiscvMemOffset = x + 256 * y
    BY Zenon DEF Img!RiscvMemOffset
  <2> HIDE DEF x, y
  <2> QED BY <2>1, <2>2
<1>5. Img!RiscvMemOffset <= Len(Microcode.data)
  BY ImageAssumption, Zenon DEF Img!RiscvMemOffset
<1> QED BY <1>1, <1>4, <1>5

LEMMA SegmentType ==
  ASSUME NEW contents \in Seq(ByteValue), NEW ph \in ProgHeader
  PROVE  Img!ElfSegment(contents, ph) \in Segment
<1> DEFINE e == ph.p_paddr + ph.p_filesz - 1
           i == ph.p_offset + ph.p_paddr  j == ph.p_offset + e + 1
<1>1. ph.p_paddr \in Nat /\ e \in Int /\ i \in Nat /\ j \in Int
  BY DEF ProgHeader
<1>2. Img!ElfSegment(contents, ph) =
        [paddr |-> ph.p_paddr, eaddr |-> e, data |-> Img!Slice(contents, i, j)]
  BY Zenon DEF Img!ElfSegment
<1> HIDE DEF e, i, j
<1>3. Ops!Slice(contents, i, j) \in Seq(ByteValue)
  BY <1>1, SliceSeq
<1> QED BY <1>1, <1>2, <1>3, ImgSlice DEF Segment

LEMMA SegmentsType ==
  ASSUME NEW contents \in Seq(ByteValue), NEW q \in Seq(ProgHeader)
  PROVE  /\ [i \in 1 .. Len(q) |-> Img!ElfSegment(contents, q[i])] \in Seq(Segment)
         /\ Len([i \in 1 .. Len(q) |-> Img!ElfSegment(contents, q[i])]) = Len(q)
<1> DEFINE n == Len(q)  f == [i \in 1 .. n |-> Img!ElfSegment(contents, q[i])]
<1>1. n \in Nat /\ \A i \in 1 .. n : q[i] \in ProgHeader
  BY LenProperties
<1> HIDE DEF n
<1>2. f \in [1 .. n -> Segment]
  BY <1>1, SegmentType
<1> HIDE DEF f
<1>3. f \in Seq(Segment) /\ Len(f) = n
  BY <1>1, <1>2, MakeSeq
<1> QED BY <1>3 DEF f, n

LEMMA SortedType ==
  ASSUME NEW q \in Seq(ProgHeader)
  PROVE  Img!SortedByAddress(q) \in Seq(ProgHeader)
<1>1. PICK h : Sorts(h, q, ProgHeader) /\ h[Len(q)] = Img!SortedByAddress(q)
  BY SortRounds, Zenon
<1>2. Len(q) \in 0 .. Len(q)
  BY LenProperties
<1> QED BY <1>1, <1>2 DEF Sorts

LEMMA VmemInit ==
  ASSUME Img!Init
  PROVE  VmemInv
<1>1. /\ step = "object" /\ exc = "ok" /\ opened = 0 /\ mem = Microcode /\ elf \in Objects
      /\ endian = "" /\ width = 0 /\ ph_index = 0 /\ prog_headers = <<>> /\ segments = <<>>
  BY DEF Img!Init
<1>2. mem \in MemoryShape /\ mem.data \in Seq(ByteValue) /\ mem.valid \in Seq(BOOLEAN)
  BY <1>1, MicrocodeParts DEF MemoryShape
<1>3. Img!MicrocodeKept
  <2> DEFINE o == Img!RiscvMemOffset
  <2>1. o \in Nat /\ o <= Len(mem.data) /\ Len(mem.data) \in Nat
    BY <1>1, <1>2, MicrocodeParts, LenProperties
  <2> HIDE DEF o
  <2>2. \A a \in 1 .. o : a <= Len(mem.data)
    BY <2>1
  <2> QED BY <1>1, <2>2, Zenon DEF Img!MicrocodeKept, o
<1>4. Img!TypeOK
  <2> DEFINE n == Len(elf.phdrs)
  <2>1. n \in Nat /\ MaxObjects \in Nat
    BY <1>1, MicrocodeParts, ObjectParts, Zenon
  <2> HIDE DEF n
  <2>2. opened \in 0 .. MaxObjects /\ ph_index \in 0 .. n
    <3>1. opened = 0 /\ ph_index = 0
      BY <1>1, Zenon
    <3>2. 0 \in 0 .. n /\ 0 \in 0 .. MaxObjects
      BY <2>1
    <3> QED BY <3>1, <3>2, Zenon
  <2> QED BY <1>1, <1>2, <2>2 DEF Img!TypeOK, ByteValue, n
<1>5. prog_headers \in Seq(ProgHeader) /\ segments \in Seq(Segment)
  <2>1. \A S : <<>> \in Seq(S)
    BY EmptySeq, Zenon
  <2> QED BY <1>1, <2>1, Zenon
<1> QED BY <1>1, <1>2, <1>3, <1>4, <1>5 DEF VmemInv

LEMMA ErrorsNamed ==
  /\ \A ident : Img!IdentError(ident) \in {"ok", "ElfError", "NameError"}
  /\ \A header : Img!HeaderError(header) \in {"ok", "ElfError"}
BY DEF Img!IdentError, Img!HeaderError

(* A step that leaves the memory alone.                                    *)
LEMMA VmemKeeps ==
  ASSUME VmemInv, UNCHANGED mem, elf' \in Objects,
         prog_headers' \in Seq(ProgHeader), segments' \in Seq(Segment),
         step' \in {"object", "ident", "header", "programs", "segments", "stopped"},
         exc' \in {"ok", "ElfError", "NameError", "IndexError"},
         opened' \in 0 .. MaxObjects, ph_index' \in 0 .. Len(elf'.phdrs),
         endian' \in {"", "<", ">"}, width' \in {0, 32, 64}
  PROVE  VmemInv'
<1>1. Img!MicrocodeKept' /\ mem' \in MemoryShape
  BY Zenon DEF VmemInv, Img!MicrocodeKept, Img!RiscvMemOffset
<1>2. mem'.data \in Seq(0 .. 255) /\ mem'.valid \in Seq(BOOLEAN)
  BY <1>1 DEF MemoryShape, ByteValue
<1> QED BY <1>1, <1>2, Zenon DEF VmemInv, Img!TypeOK

LEMMA VmemStep ==
  ASSUME VmemInv, Img!Next
  PROVE  VmemInv'
<1>1. /\ mem \in MemoryShape /\ elf \in Objects
      /\ prog_headers \in Seq(ProgHeader) /\ segments \in Seq(Segment)
      /\ step \in {"object", "ident", "header", "programs", "segments", "stopped"}
      /\ exc \in {"ok", "ElfError", "NameError", "IndexError"}
      /\ opened \in 0 .. MaxObjects /\ ph_index \in 0 .. Len(elf.phdrs)
      /\ endian \in {"", "<", ">"} /\ width \in {0, 32, 64}
  BY Zenon DEF VmemInv, Img!TypeOK
<1>2. CASE Img!OpenObject
  <2>1. /\ elf' \in Objects /\ opened' = opened + 1 /\ opened < MaxObjects /\ step' = "ident"
        /\ ph_index' = 0 /\ prog_headers' = <<>>
        /\ UNCHANGED <<exc, mem, endian, width, segments>>
    BY <1>2 DEF Img!OpenObject
  <2> DEFINE n == Len(elf'.phdrs)
  <2>2. n \in Nat /\ MaxObjects \in Nat
    BY <2>1, MicrocodeParts, ObjectParts, Zenon
  <2> HIDE DEF n
  <2>3. opened' \in 0 .. MaxObjects /\ ph_index' \in 0 .. n
    <3>1. opened \in 0 .. MaxObjects /\ opened < MaxObjects /\ opened' = opened + 1
      BY <1>1, <2>1, Zenon
    <3>2. opened + 1 \in 0 .. MaxObjects /\ 0 \in 0 .. n
      BY <2>2, <3>1
    <3> QED BY <2>1, <3>1, <3>2, Zenon
  <2>4. prog_headers' \in Seq(ProgHeader)
    BY <2>1, EmptySeq, Zenon
  <2> QED BY <1>1, <2>1, <2>3, <2>4, VmemKeeps, SMTT(30), ZenonT(60) DEF n
<1>3. CASE Img!ReadIdent
  <2>1. UNCHANGED <<mem, opened, elf, ph_index, prog_headers, segments>>
    BY <1>3 DEF Img!ReadIdent
  <2>2. /\ step' \in {"header", "stopped"} /\ exc' \in {exc, "ElfError", "NameError", "ok"}
        /\ width' \in {width, 32, 64} /\ endian' \in {endian, "<", ">"}
    BY <1>3, ErrorsNamed DEF Img!ReadIdent, Img!Stop
  <2> QED BY <1>1, <2>1, <2>2, VmemKeeps, SMTT(30), ZenonT(60)
<1>4. CASE Img!ReadHeader
  <2>1. UNCHANGED <<mem, opened, elf, endian, width, ph_index, prog_headers, segments>>
    BY <1>4 DEF Img!ReadHeader, Img!ivars
  <2>2. step' \in {"programs", "stopped"} /\ exc' \in {exc, "ElfError", "ok"}
    BY <1>4, ErrorsNamed DEF Img!ReadHeader, Img!Stop
  <2> QED BY <1>1, <2>1, <2>2, VmemKeeps, SMTT(30), ZenonT(60)
<1>5. CASE Img!ReadProgHeader
  <2> DEFINE ph == elf.phdrs[ph_index + 1]
  <2>1. /\ ph_index < Len(elf.phdrs) /\ ph_index' = ph_index + 1
        /\ prog_headers' = IF Img!Loaded(ph) THEN Append(prog_headers, ph) ELSE prog_headers
        /\ UNCHANGED <<step, exc, mem, opened, elf, endian, width, segments>>
    BY <1>5 DEF Img!ReadProgHeader
  <2>2. ph_index + 1 \in 1 .. Len(elf.phdrs) /\ ph_index' \in 0 .. Len(elf'.phdrs)
    <3> DEFINE n == Len(elf.phdrs)
    <3>1. n \in Nat /\ ph_index \in 0 .. n /\ ph_index < n /\ ph_index' = ph_index + 1
      BY <1>1, <2>1, ObjectParts, Zenon
    <3>2. Len(elf'.phdrs) = n
      BY <2>1, Zenon
    <3> HIDE DEF n
    <3>3. ph_index + 1 \in 1 .. n /\ ph_index' \in 0 .. n
      BY <3>1
    <3> QED BY <3>2, <3>3, Zenon DEF n
  <2>3. ph \in ProgHeader
    BY <1>1, <2>2, ObjectParts
  <2> HIDE DEF ph
  <2>4. prog_headers' \in Seq(ProgHeader)
    <3>1. Append(prog_headers, ph) \in Seq(ProgHeader)
      BY <1>1, <2>3, AppendProperties
    <3> QED BY <1>1, <2>1, <3>1, Zenon
  <2> QED BY <1>1, <2>1, <2>2, <2>4, VmemKeeps
<1>6. CASE Img!MakeSegments
  <2> DEFINE q == Img!SortedByAddress(prog_headers)
  <2>1. /\ segments' = [i \in 1 .. Len(q) |-> Img!ElfSegment(elf.contents, q[i])]
        /\ step' = "segments"
        /\ UNCHANGED <<exc, mem, opened, elf, endian, width, ph_index, prog_headers>>
    BY <1>6, Zenon DEF Img!MakeSegments
  <2>2. q \in Seq(ProgHeader)
    BY <1>1, SortedType
  <2> HIDE DEF q
  <2>3. segments' \in Seq(Segment)
    BY <1>1, <2>1, <2>2, ObjectParts, SegmentsType, SMTT(20), ZenonT(40)
  <2> QED BY <1>1, <2>1, <2>3, VmemKeeps, SMTT(30), ZenonT(60)
<1>7. CASE Img!PlaceSegment
  <2> DEFINE s == Head(segments)  o == Img!RiscvMemOffset
             i == s.paddr + o  j == s.eaddr + 1 + o
             r == Ops!SetSlice(mem, i, j, s.data)
  <2>1. /\ segments # <<>> /\ segments' = Tail(segments)
        /\ mem' = Img!SetSlice(mem, i, j, s.data).mem
        /\ UNCHANGED <<step, exc, opened, elf, endian, width, ph_index, prog_headers>>
    BY <1>7, Zenon DEF Img!PlaceSegment
  <2>2. mem' = r.mem
    BY <2>1, ImgSetSlice, Zenon
  <2>3. s \in Segment /\ segments' \in Seq(Segment)
    BY <1>1, <2>1, HeadTailProperties
  <2> HIDE DEF s
  <2>4. s.paddr \in Nat /\ s.eaddr \in Int /\ s.data \in Seq(ByteValue)
    BY <2>3 DEF Segment
  <2>5. o \in Nat /\ o <= Len(Microcode.data)
    BY MicrocodeParts
  <2>6. \A a \in 1 .. o : a <= Len(mem.data) /\ mem.data[a] = Microcode.data[a]
    BY Zenon DEF VmemInv, Img!MicrocodeKept
  <2> HIDE DEF o
  <2>7. i \in Nat /\ j \in Int /\ o <= i
    BY <2>4, <2>5
  <2>8. o <= Len(mem.data)
    <3>1. Len(mem.data) \in Nat
      BY <1>1, LenProperties DEF MemoryShape
    <3>2. CASE o = 0
      BY <3>1, <3>2
    <3>3. CASE o # 0
      BY <2>5, <2>6, <3>3
    <3> QED BY <3>2, <3>3
  <2> HIDE DEF i, j
  <2>9. /\ r.mem \in MemoryShape
        /\ \A a \in 1 .. o : a <= Len(r.mem.data) /\ r.mem.data[a] = mem.data[a]
    <3>1. i \in Nat /\ j \in Int /\ o <= i
      BY <2>7
    <3>2. BelowKept(r.mem, mem, o)
      BY <1>1, <2>4, <2>5, <3>1, <2>8, PlacedBelow, ZenonT(40)
    <3> QED BY <3>2, Zenon DEF BelowKept
  <2> HIDE DEF r
  <2>10. Img!MicrocodeKept'
    BY <2>2, <2>6, <2>9, Zenon DEF Img!MicrocodeKept, Img!RiscvMemOffset, o
  <2>11. mem' \in MemoryShape /\ mem'.data \in Seq(0 .. 255) /\ mem'.valid \in Seq(BOOLEAN)
    BY <2>2, <2>9 DEF MemoryShape, ByteValue
  <2>12. Img!TypeOK'
    BY <1>1, <2>1, <2>11 DEF Img!TypeOK
  <2> QED BY <1>1, <2>1, <2>3, <2>10, <2>11, <2>12, Zenon DEF VmemInv
<1>8. CASE Img!NextObject
  <2>1. /\ step' = "object"
        /\ UNCHANGED <<exc, mem, opened, elf, endian, width, ph_index, prog_headers, segments>>
    BY <1>8 DEF Img!NextObject, Img!ivars
  <2> QED BY <1>1, <2>1, VmemKeeps
<1>9. CASE Img!PrintReadmemh \/ Img!PrintCoe
  <2>1. /\ step' = "stopped" /\ exc' \in {"ok", "IndexError"}
        /\ UNCHANGED <<mem, opened, elf, endian, width, ph_index, prog_headers, segments>>
    BY <1>9 DEF Img!PrintReadmemh, Img!PrintCoe, Img!Stop, Img!ivars
  <2> QED BY <1>1, <2>1, VmemKeeps
<1> QED BY <1>2, <1>3, <1>4, <1>5, <1>6, <1>7, <1>8, <1>9 DEF Img!Next

(* The tool that runs is vmem, and its step.                               *)
VmemHolds == tool = "vmem" => VmemInv

LEMMA VmemInvariant == Spec => []VmemHolds
<1>1. Init => VmemHolds
  <2>1. "vmem" # "intelhex" /\ "vmem" # "memory" /\ "vmem" # "glacial"
    OBVIOUS
  <2> QED BY <2>1, VmemInit, Zenon DEF Init, VmemHolds
<1>2. VmemHolds /\ [Next]_vars => VmemHolds'
  <2> SUFFICES ASSUME VmemHolds, [Next]_vars PROVE VmemHolds'
    OBVIOUS
  <2>1. CASE Next /\ tool = "vmem"
    <3>1. "vmem" # "intelhex" /\ "vmem" # "memory" /\ "vmem" # "glacial"
      OBVIOUS
    <3>2. Img!Next
      BY <2>1, <3>1, Zenon DEF Next, OpsNext, HexWrite, HexOther, ImgNext, EncNext
    <3> QED BY <2>1, <3>2, VmemStep, Zenon DEF VmemHolds
  <2>2. CASE Next /\ tool # "vmem"
    <3>1. tool' = tool
      BY <2>2, Zenon DEF Next, OpsNext, HexWrite, HexOther, HexRest, ImgNext, EncNext
    <3> QED BY <2>2, <3>1, Zenon DEF VmemHolds
  <2>3. CASE UNCHANGED vars
    BY <2>3, ZenonT(40) DEF vars, imgvars, VmemHolds, VmemInv, Img!TypeOK, Img!MicrocodeKept,
                       Img!RiscvMemOffset
  <2> QED BY <2>1, <2>2, <2>3, Zenon
<1> QED BY <1>1, <1>2, PTL DEF Spec

(* vmem, elf.py: wherever the segments of however many executables are     *)
(* placed, and whatever their program headers say, they stay behind the    *)
(* microcode, and where it ends is not read again.                         *)
THEOREM MicrocodeIsKept == Spec => []MicrocodeKept
<1>1. VmemHolds => MicrocodeKept
  BY Zenon DEF VmemHolds, VmemInv, MicrocodeKept
<1> QED BY <1>1, VmemInvariant, PTL

(***************************************************************************)
(* Who gives an address its byte: in the order of the file the last of the *)
(* headers with the greatest address that hold it, after the sort the last *)
(* that holds it                                                           *)
(***************************************************************************)
Hits(ph, a) == Img!Loaded(ph) /\ ph.p_paddr <= a /\ a < ph.p_paddr + ph.p_filesz

Yields(x, j, y, i) == x.p_paddr < y.p_paddr \/ (x.p_paddr = y.p_paddr /\ j <= i)

OwnsAt(s, n, a, i) == Hits(s[i], a) /\ \A j \in 1 .. n : Hits(s[j], a) => Yields(s[j], j, s[i], i)
LastAt(t, n, a, i) == Hits(t[i], a) /\ \A j \in i + 1 .. n : ~Hits(t[j], a)

OwnedBy(s, n, a, ph)   == \E i \in 1 .. n : s[i] = ph /\ OwnsAt(s, n, a, i)
WrittenBy(t, n, a, ph) == \E i \in 1 .. n : t[i] = ph /\ LastAt(t, n, a, i)

(* Every element of t is one of the first n of s.                          *)
Among(t, s, n) == \A i \in 1 .. Len(t) : \E j \in 1 .. n : t[i] = s[j]

LEMMA HeaderNumbers ==
  ASSUME NEW ph \in ProgHeader
  PROVE  ph.p_paddr \in Nat /\ ph.p_filesz \in Nat /\ ph.p_offset \in Nat
BY DEF ProgHeader

LEMMA YieldsMeans ==
  ASSUME NEW x \in ProgHeader, NEW y \in ProgHeader, NEW j, NEW i
  PROVE  /\ Yields(x, j, y, i) => x.p_paddr <= y.p_paddr
         /\ x.p_paddr <= y.p_paddr /\ j <= i => Yields(x, j, y, i)
<1> DEFINE p == x.p_paddr  q == y.p_paddr
<1>1. p \in Nat /\ q \in Nat
  BY HeaderNumbers
<1>2. Yields(x, j, y, i) <=> p < q \/ (p = q /\ j <= i)
  BY Zenon DEF Yields
<1> HIDE DEF p, q
<1>3. (p < q \/ p = q) <=> p <= q
  BY <1>1
<1> QED BY <1>2, <1>3, Zenon DEF p, q

(* The owner among n + 1 headers is the last, or that among n.             *)
LEMMA OneMoreHeader ==
  ASSUME NEW s \in Seq(ProgHeader), NEW n \in Nat, n < Len(s), NEW a \in Int,
         NEW ph \in ProgHeader, OwnedBy(s, n + 1, a, ph)
  PROVE  \/ /\ ph = s[n + 1] /\ Hits(ph, a)
            /\ \A j \in 1 .. n : Hits(s[j], a) => s[j].p_paddr <= ph.p_paddr
         \/ /\ OwnedBy(s, n, a, ph)
            /\ Hits(s[n + 1], a) => s[n + 1].p_paddr < ph.p_paddr
<1>0. Len(s) \in Nat /\ \A j \in 1 .. Len(s) : s[j] \in ProgHeader
  BY LenProperties
<1>1. PICK i \in 1 .. n + 1 : s[i] = ph /\ OwnsAt(s, n + 1, a, i)
  BY Zenon DEF OwnedBy
<1>2. /\ Hits(ph, a)
      /\ \A j \in 1 .. n + 1 : Hits(s[j], a) => Yields(s[j], j, ph, i)
  BY <1>1, Zenon DEF OwnsAt
<1>3. CASE i = n + 1
  <2>1. ASSUME NEW j \in 1 .. n, Hits(s[j], a) PROVE s[j].p_paddr <= ph.p_paddr
    <3>1. j \in 1 .. n + 1 /\ s[j] \in ProgHeader
      BY <1>0
    <3>2. Yields(s[j], j, ph, i)
      BY <1>2, <2>1, <3>1, Zenon
    <3> QED BY <3>1, <3>2, YieldsMeans, Zenon
  <2> QED BY <1>1, <1>2, <1>3, <2>1, Zenon
<1>4. CASE i # n + 1
  <2>1. i \in 1 .. n /\ n + 1 \in 1 .. n + 1 /\ ~(n + 1 <= i)
    BY <1>4
  <2>2. \A j \in 1 .. n : j \in 1 .. n + 1
    OBVIOUS
  <2>3. OwnsAt(s, n, a, i)
    BY <1>1, <1>2, <2>2, Zenon DEF OwnsAt
  <2>4. Hits(s[n + 1], a) => s[n + 1].p_paddr < ph.p_paddr
    BY <1>2, <2>1, Zenon DEF Yields
  <2> QED BY <1>1, <2>1, <2>3, <2>4, Zenon DEF OwnedBy
<1> QED BY <1>3, <1>4, Zenon

(***************************************************************************)
(* parse_headers collects the headers that are loaded.                     *)
(***************************************************************************)
Collected(s, n, t) ==
  /\ t \in Seq(ProgHeader) /\ Among(t, s, n)
  /\ \A i \in 1 .. Len(t) : Img!Loaded(t[i])
  /\ \A a \in Int, ph \in ProgHeader : OwnedBy(s, n, a, ph) => OwnedBy(t, Len(t), a, ph)

LEMMA NothingCollected == ASSUME NEW s PROVE Collected(s, 0, <<>>)
<1>1. <<>> \in Seq(ProgHeader) /\ Len(<<>>) = 0
  BY EmptySeq
<1>2. \A i \in 1 .. 0 : FALSE
  OBVIOUS
<1> QED BY <1>1, <1>2, Zenon DEF Collected, Among, OwnedBy

LEMMA CollectedMore ==
  ASSUME NEW s \in Seq(ProgHeader), NEW n \in Nat, n < Len(s), NEW t, Collected(s, n, t)
  PROVE  Collected(s, n + 1, IF Img!Loaded(s[n + 1]) THEN Append(t, s[n + 1]) ELSE t)
<1> DEFINE x == s[n + 1]  u == Append(t, x)  k == Len(t)
<1>1. /\ Len(s) \in Nat /\ n + 1 \in 1 .. Len(s) /\ n \in Int
      /\ \A j \in 1 .. n : j \in 1 .. n + 1 /\ j \in 1 .. Len(s)
  BY LenProperties
<1>2. x \in ProgHeader /\ \A j \in 1 .. n : s[j] \in ProgHeader
  BY <1>1, ElementOfSeq
<1>3. /\ t \in Seq(ProgHeader) /\ Among(t, s, n) /\ \A i \in 1 .. k : Img!Loaded(t[i])
      /\ \A a \in Int, ph \in ProgHeader : OwnedBy(s, n, a, ph) => OwnedBy(t, k, a, ph)
  BY Zenon DEF Collected
<1>4. k \in Nat /\ n + 1 \in 1 .. n + 1
  BY <1>3, LenProperties
<1>5. ASSUME NEW a \in Int, NEW ph \in ProgHeader, OwnedBy(s, n + 1, a, ph)
      PROVE  \/ /\ ph = x /\ Hits(ph, a)
                /\ \A j \in 1 .. n : Hits(s[j], a) => s[j].p_paddr <= ph.p_paddr
             \/ /\ OwnedBy(s, n, a, ph)
                /\ Hits(x, a) => x.p_paddr < ph.p_paddr
  BY <1>5, OneMoreHeader, Zenon
<1>6. CASE ~Img!Loaded(x)
  <2>1. Among(t, s, n + 1)
    BY <1>1, <1>3, Zenon DEF Among
  <2>2. ASSUME NEW a \in Int, NEW ph \in ProgHeader, OwnedBy(s, n + 1, a, ph)
        PROVE  OwnedBy(t, k, a, ph)
    BY <1>3, <1>5, <1>6, <2>2, Zenon DEF Hits
  <2>3. Collected(s, n + 1, t)
    BY <1>3, <2>1, <2>2, Zenon DEF Collected
  <2> QED BY <1>6, <2>3, Zenon
<1>7. CASE Img!Loaded(x)
  <2>1. u \in Seq(ProgHeader) /\ Len(u) = k + 1 /\ u[k + 1] = x /\ \A i \in 1 .. k : u[i] = t[i]
    BY <1>2, <1>3, AppendProperties
  <2> HIDE DEF u, x, k
  <2>2. /\ k + 1 \in 1 .. k + 1 /\ \A i \in 1 .. k + 1 : i \in 1 .. k \/ i = k + 1
        /\ \A i \in 1 .. k : i \in 1 .. k + 1 /\ i <= k + 1 /\ ~(k + 1 <= i)
    BY <1>4
  <2>3. Among(u, s, n + 1)
    <3>1. ASSUME NEW i \in 1 .. k PROVE \E j \in 1 .. n + 1 : u[i] = s[j]
      <4>1. \E j \in 1 .. n : t[i] = s[j]
        BY <1>3, Zenon DEF Among, k
      <4> QED BY <1>1, <2>1, <4>1, Zenon
    <3>2. u[k + 1] = s[n + 1]
      BY <2>1 DEF x
    <3> QED BY <1>4, <2>1, <2>2, <3>1, <3>2, Zenon DEF Among
  <2>4. \A i \in 1 .. k + 1 : Img!Loaded(u[i])
    BY <1>3, <1>7, <2>1, <2>2, Zenon
  <2>5. ASSUME NEW a \in Int, NEW ph \in ProgHeader, OwnedBy(s, n + 1, a, ph)
        PROVE  OwnedBy(u, k + 1, a, ph)
    <3>1. CASE /\ ph = x /\ Hits(ph, a)
               /\ \A j \in 1 .. n : Hits(s[j], a) => s[j].p_paddr <= ph.p_paddr
      <4>1. ASSUME NEW j \in 1 .. k, Hits(u[j], a) PROVE Yields(u[j], j, ph, k + 1)
        <5>1. PICK i \in 1 .. n : t[j] = s[i]
          BY <1>3, Zenon DEF Among, k
        <5>2. u[j] = s[i] /\ s[i] \in ProgHeader /\ j <= k + 1
          BY <1>2, <2>1, <2>2, <5>1, Zenon
        <5>3. s[i].p_paddr <= ph.p_paddr
          BY <3>1, <4>1, <5>2, Zenon
        <5>4. Yields(s[i], j, ph, k + 1)
          BY <5>2, <5>3, YieldsMeans, Zenon
        <5> QED BY <5>2, <5>4, Zenon
      <4>2. Yields(ph, k + 1, ph, k + 1)
        BY <1>4 DEF Yields
      <4> QED BY <2>1, <2>2, <3>1, <4>1, <4>2, Zenon DEF OwnedBy, OwnsAt
    <3>2. CASE OwnedBy(s, n, a, ph) /\ (Hits(x, a) => x.p_paddr < ph.p_paddr)
      <4>1. PICK i \in 1 .. k : t[i] = ph /\ OwnsAt(t, k, a, i)
        BY <1>3, <3>2, Zenon DEF OwnedBy
      <4>2. Hits(x, a) => Yields(x, k + 1, ph, i)
        BY <3>2, Zenon DEF Yields
      <4>3. OwnsAt(u, k + 1, a, i)
        BY <2>1, <2>2, <4>1, <4>2, Zenon DEF OwnsAt
      <4> QED BY <2>1, <2>2, <4>1, <4>3, Zenon DEF OwnedBy
    <3> QED BY <1>5, <2>5, <3>1, <3>2, Zenon
  <2>6. Collected(s, n + 1, u)
    BY <2>1, <2>3, <2>4, <2>5, Zenon DEF Collected
  <2> QED BY <1>7, <2>6, Zenon DEF u, x
<1> QED BY <1>6, <1>7, Zenon

(***************************************************************************)
(* The sort                                                                *)
(***************************************************************************)
LEMMA DownClosed ==
  ASSUME NEW n \in Nat, NEW T, T \subseteq 1 .. n,
         \A i \in T, j \in 1 .. n : j <= i => j \in T
  PROVE  T = 1 .. Cardinality(T)
<1>1. PICK k \in 0 .. n : T = 1 .. k
  <2>1. CASE T = 1 .. n
    <3>1. n \in 0 .. n
      OBVIOUS
    <3> QED BY <2>1, <3>1
  <2>2. CASE T # 1 .. n
    <3> DEFINE U == {i \in 1 .. n : i \notin T}
    <3>1. U \subseteq Nat /\ U # {}
      <4>1. U \subseteq Nat
        OBVIOUS
      <4>2. U # {}
        BY <2>2, Zenon
      <4> QED BY <4>1, <4>2
    <3>2. PICK x \in U : \A y \in U : x <= y
      <4> HIDE DEF U
      <4> QED BY <3>1, LeastNatural
    <3>3. x \in 1 .. n /\ x \notin T
      BY <3>2
    <3>4. \A j \in 1 .. n : j \notin T => x <= j
      BY <3>2
    <3> HIDE DEF U
    <3>5. \A j \in T : j < x
      <4> SUFFICES ASSUME NEW j \in T, ~(j < x) PROVE FALSE
        OBVIOUS
      <4>1. j \in 1 .. n /\ x <= j
        BY <3>3
      <4> QED BY <3>3, <4>1
    <3>6. T = 1 .. x - 1
      <4>1. ASSUME NEW j \in 1 .. x - 1 PROVE j \in T
        <5>1. j \in 1 .. n /\ ~(x <= j)
          BY <3>3
        <5> QED BY <3>4, <5>1, Zenon
      <4>2. ASSUME NEW j \in T PROVE j \in 1 .. x - 1
        <5>1. j \in 1 .. n /\ j < x
          BY <3>5
        <5> QED BY <3>3, <5>1
      <4> QED BY <4>1, <4>2, Zenon
    <3>7. x - 1 \in 0 .. n
      BY <3>3
    <3> QED BY <3>6, <3>7
  <2> QED BY <2>1, <2>2
<1>2. Cardinality(1 .. k) = IF 1 > k THEN 0 ELSE k - 1 + 1
  <2>1. 1 \in Int /\ k \in Int
    OBVIOUS
  <2> QED BY <2>1, FS_Interval, Zenon
<1>3. Cardinality(1 .. k) = k
  BY <1>2
<1> QED BY <1>1, <1>3, Zenon

Ordered(t) ==
  \A i, j \in 1 .. Len(t) : i <= j => t[i].p_paddr <= t[j].p_paddr

LEMMA AheadIs ==
  ASSUME NEW t \in Seq(ProgHeader), NEW x \in ProgHeader, Ordered(t), NEW i \in 1 .. Len(t)
  PROVE  i <= Ahead(t, x) <=> t[i].p_paddr <= x.p_paddr
<1> DEFINE n == Len(t)  T == {j \in 1 .. n : t[j].p_paddr <= x.p_paddr}
<1>1. n \in Nat /\ \A j \in 1 .. n : t[j] \in ProgHeader
  BY LenProperties
<1>2. Ahead(t, x) = Cardinality(T)
  BY Zenon DEF Ahead, Img!Cardinality, Cardinality
<1>3. \A j \in T, l \in 1 .. n : l <= j => l \in T
  <2> SUFFICES ASSUME NEW j \in 1 .. n, NEW l \in 1 .. n, t[j].p_paddr <= x.p_paddr, l <= j
               PROVE  t[l].p_paddr <= x.p_paddr
    OBVIOUS
  <2> DEFINE p == t[l].p_paddr  q == t[j].p_paddr  r == x.p_paddr
  <2>1. p \in Nat /\ q \in Nat /\ r \in Nat
    BY <1>1, HeaderNumbers
  <2>2. p <= q /\ q <= r
    BY Zenon DEF Ordered
  <2> HIDE DEF p, q, r
  <2>3. p <= r
    BY <2>1, <2>2
  <2> QED BY <2>3 DEF p, r
<1>4. T \subseteq 1 .. n
  OBVIOUS
<1>5. i \in T <=> t[i].p_paddr <= x.p_paddr
  OBVIOUS
<1>6. i \in 1 .. n /\ Ahead(t, x) \in Nat
  BY <1>1, AheadIsIndex
<1> HIDE DEF T, n
<1>7. T = 1 .. Ahead(t, x)
  BY <1>1, <1>2, <1>3, <1>4, DownClosed, Zenon
<1>8. i \in 1 .. Ahead(t, x) <=> i <= Ahead(t, x)
  BY <1>1, <1>6
<1> QED BY <1>5, <1>7, <1>8, Zenon

(* Where each element comes from when x is inserted.                       *)
LEMMA InsertedAt ==
  ASSUME NEW t \in Seq(ProgHeader), NEW x \in ProgHeader
  PROVE  /\ Inserted(t, x) \in Seq(ProgHeader) /\ Len(Inserted(t, x)) = Len(t) + 1
         /\ Ahead(t, x) \in 0 .. Len(t)
         /\ \A i \in 1 .. Ahead(t, x) : Inserted(t, x)[i] = t[i]
         /\ Inserted(t, x)[Ahead(t, x) + 1] = x
         /\ \A i \in Ahead(t, x) + 1 .. Len(t) : Inserted(t, x)[i + 1] = t[i]
<1> DEFINE u == Inserted(t, x)  k == Ahead(t, x)  n == Len(t)  one == <<x>>
<1>1. n \in Nat
  BY LenProperties
<1>2. k \in Nat /\ k <= n
  BY <1>1, AheadIsIndex
<1>3. Len(one) = 1 /\ one[1] = x
  OBVIOUS
<1>4. Middled(u, ProgHeader, t, one, k, k)
  BY InsertedSeq, Zenon
<1> HIDE DEF u, k, n, one
<1>5. /\ u \in Seq(ProgHeader) /\ Len(u) = k + 1 + (n - k)
      /\ \A i \in 1 .. k : u[i] = t[i]
      /\ \A i \in 1 .. 1 : u[k + i] = one[i]
      /\ \A i \in k + 1 .. n : u[k + 1 + (i - k)] = t[i]
  BY <1>3, <1>4, Zenon DEF Middled, n
<1>6. u[k + 1] = x
  BY <1>3, <1>5
<1>7. \A i \in k + 1 .. n : u[i + 1] = t[i]
  <2> SUFFICES ASSUME NEW i \in k + 1 .. n PROVE u[i + 1] = t[i]
    OBVIOUS
  <2>1. k + 1 + (i - k) = i + 1
    BY <1>1, <1>2
  <2> QED BY <1>5, <2>1
<1>8. k \in 0 .. n /\ k + 1 + (n - k) = n + 1
  BY <1>1, <1>2
<1> QED BY <1>5, <1>6, <1>7, <1>8 DEF u, k, n

SortedFrom(s, n, t) ==
  /\ t \in Seq(ProgHeader) /\ Among(t, s, n) /\ Ordered(t)
  /\ \A a \in Int, ph \in ProgHeader : OwnedBy(s, n, a, ph) => WrittenBy(t, Len(t), a, ph)

LEMMA SortedOneMore ==
  ASSUME NEW s \in Seq(ProgHeader), NEW n \in Nat, n < Len(s), NEW t, SortedFrom(s, n, t)
  PROVE  SortedFrom(s, n + 1, Inserted(t, s[n + 1]))
<1> DEFINE x == s[n + 1]  u == Inserted(t, x)  k == Ahead(t, x)  m == Len(t)
<1>1. /\ Len(s) \in Nat /\ n + 1 \in 1 .. Len(s) /\ n \in Int /\ n + 1 \in 1 .. n + 1
      /\ \A j \in 1 .. n : j \in 1 .. n + 1 /\ j \in 1 .. Len(s)
  BY LenProperties
<1>2. x \in ProgHeader /\ \A j \in 1 .. n : s[j] \in ProgHeader
  BY <1>1, ElementOfSeq
<1>3. /\ t \in Seq(ProgHeader) /\ Among(t, s, n) /\ Ordered(t)
      /\ \A a \in Int, ph \in ProgHeader : OwnedBy(s, n, a, ph) => WrittenBy(t, m, a, ph)
  BY Zenon DEF SortedFrom
<1>4. m \in Nat /\ \A i \in 1 .. m : t[i] \in ProgHeader
  BY <1>3, LenProperties, ElementOfSeq
<1>5. /\ u \in Seq(ProgHeader) /\ Len(u) = m + 1 /\ k \in 0 .. m
      /\ \A i \in 1 .. k : u[i] = t[i]
      /\ u[k + 1] = x
      /\ \A i \in k + 1 .. m : u[i + 1] = t[i]
  BY <1>2, <1>3, InsertedAt, Zenon
<1>6. \A i \in 1 .. m : i <= k <=> t[i].p_paddr <= x.p_paddr
  BY <1>2, <1>3, AheadIs, Zenon
<1> HIDE DEF u, k, m
<1>7. ASSUME NEW i \in 1 .. m + 1
      PROVE  \/ i <= k /\ i \in 1 .. m /\ u[i] = t[i]
             \/ i = k + 1 /\ u[i] = x
             \/ i > k + 1 /\ i - 1 > k /\ i - 1 \in 1 .. m /\ u[i] = t[i - 1]
  <2>1. CASE i <= k
    BY <1>4, <1>5, <2>1
  <2>2. CASE i = k + 1
    BY <1>5, <2>2
  <2>3. CASE i > k + 1
    <3>1. i - 1 \in k + 1 .. m /\ (i - 1) + 1 = i /\ i - 1 > k /\ i - 1 \in 1 .. m
      BY <1>4, <1>5, <2>3
    <3> QED BY <1>5, <2>3, <3>1
  <2> QED BY <1>4, <1>5, <2>1, <2>2, <2>3
<1>8. Among(u, s, n + 1)
  <2>1. ASSUME NEW i \in 1 .. m PROVE \E j \in 1 .. n + 1 : t[i] = s[j]
    BY <1>1, <1>3, Zenon DEF Among, m
  <2> QED BY <1>1, <1>5, <1>7, <2>1, ZenonT(40) DEF Among, x
<1>9. Ordered(u)
  <2> SUFFICES ASSUME NEW i \in 1 .. m + 1, NEW j \in 1 .. m + 1, i <= j
               PROVE  u[i].p_paddr <= u[j].p_paddr
    BY <1>5, Zenon DEF Ordered
  <2>1. \A a, b \in 1 .. m : a <= b => t[a].p_paddr <= t[b].p_paddr
    BY <1>3, Zenon DEF Ordered, m
  <2>2. \A a \in 1 .. m : a > k => x.p_paddr <= t[a].p_paddr
    <3> SUFFICES ASSUME NEW a \in 1 .. m, a > k PROVE x.p_paddr <= t[a].p_paddr
      OBVIOUS
    <3> DEFINE p == x.p_paddr  q == t[a].p_paddr
    <3>1. p \in Nat /\ q \in Nat
      BY <1>2, <1>4, HeaderNumbers
    <3>2. ~(a <= k)
      BY <1>4, <1>5
    <3>3. ~(q <= p)
      BY <1>6, <3>2
    <3> HIDE DEF p, q
    <3>4. p <= q
      BY <3>1, <3>3
    <3> QED BY <3>4 DEF p, q
  <2>3. x.p_paddr <= x.p_paddr
    <3>1. x.p_paddr \in Nat
      BY <1>2, HeaderNumbers
    <3> QED BY <3>1
  <2>4. CASE i <= k /\ i \in 1 .. m /\ u[i] = t[i]
    <3>1. t[i].p_paddr <= x.p_paddr
      BY <1>6, <2>4
    <3>2. j > k + 1 => i <= j - 1
      BY <1>5, <2>4
    <3> QED BY <1>7, <2>1, <2>4, <3>1, <3>2
  <2>5. CASE i = k + 1 /\ u[i] = x
    <3>1. ~(j <= k)
      BY <1>5, <2>5
    <3> QED BY <1>7, <2>2, <2>3, <2>5, <3>1, Zenon
  <2>6. CASE i > k + 1 /\ i - 1 > k /\ i - 1 \in 1 .. m /\ u[i] = t[i - 1]
    <3>1. j > k + 1 /\ ~(j <= k) /\ j # k + 1 /\ i - 1 <= j - 1
      BY <1>5, <2>6
    <3> QED BY <1>7, <2>1, <2>6, <3>1, Zenon
  <2> QED BY <1>7, <2>4, <2>5, <2>6, Zenon
<1>10. ASSUME NEW a \in Int, NEW ph \in ProgHeader, OwnedBy(s, n + 1, a, ph)
       PROVE  WrittenBy(u, m + 1, a, ph)
  <2>1. CASE /\ ph = x /\ Hits(ph, a)
             /\ \A j \in 1 .. n : Hits(s[j], a) => s[j].p_paddr <= ph.p_paddr
    <3>1. ASSUME NEW j \in (k + 1) + 1 .. m + 1 PROVE ~Hits(u[j], a)
      <4>1. j \in 1 .. m + 1 /\ ~(j <= k) /\ j # k + 1
        BY <1>4, <1>5
      <4>2. j - 1 > k /\ j - 1 \in 1 .. m /\ u[j] = t[j - 1]
        BY <1>7, <4>1, Zenon
      <4>3. PICK i \in 1 .. n : t[j - 1] = s[i]
        BY <1>3, <4>2, Zenon DEF Among, m
      <4>4. ~(j - 1 <= k)
        BY <1>5, <4>2
      <4>5. ~(t[j - 1].p_paddr <= x.p_paddr)
        BY <1>6, <4>2, <4>4, Zenon
      <4> QED BY <2>1, <4>2, <4>3, <4>5, Zenon
    <3>2. k + 1 \in 1 .. m + 1
      BY <1>4, <1>5
    <3> QED BY <1>5, <2>1, <3>1, <3>2, Zenon DEF WrittenBy, LastAt
  <2>2. CASE OwnedBy(s, n, a, ph) /\ (Hits(x, a) => x.p_paddr < ph.p_paddr)
    <3>1. PICK i \in 1 .. m : t[i] = ph /\ LastAt(t, m, a, i)
      BY <1>3, <2>2, Zenon DEF WrittenBy
    <3>2. Hits(ph, a) /\ \A j \in i + 1 .. m : ~Hits(t[j], a)
      BY <3>1, Zenon DEF LastAt
    <3>3. CASE i <= k
      <4>1. i \in 1 .. m + 1 /\ i \in 1 .. k
        BY <1>4, <1>5, <3>3
      <4>2. u[i] = ph
        BY <1>5, <3>1, <4>1, Zenon
      <4>3. ~Hits(x, a)
        <5> DEFINE p == x.p_paddr  q == ph.p_paddr
        <5>1. p \in Nat /\ q \in Nat /\ q <= p
          BY <1>2, <1>6, <3>1, <3>3, HeaderNumbers
        <5> HIDE DEF p, q
        <5>2. ~(p < q)
          BY <5>1
        <5> QED BY <2>2, <5>2, Zenon DEF p, q
      <4>4. ASSUME NEW j \in i + 1 .. m + 1 PROVE ~Hits(u[j], a)
        <5>1. /\ j \in 1 .. m + 1
              /\ j \in 1 .. m => j \in i + 1 .. m
              /\ j > k + 1 => j - 1 \in i + 1 .. m
          BY <1>4, <1>5, <3>3
        <5> QED BY <1>7, <3>2, <4>3, <5>1, Zenon
      <4> QED BY <3>2, <4>1, <4>2, <4>4, Zenon DEF WrittenBy, LastAt
    <3>4. CASE ~(i <= k)
      <4>1. i + 1 \in 1 .. m + 1 /\ i \in k + 1 .. m
        BY <1>4, <1>5, <3>4
      <4>2. u[i + 1] = ph
        BY <1>5, <3>1, <4>1, Zenon
      <4>3. ASSUME NEW j \in (i + 1) + 1 .. m + 1 PROVE ~Hits(u[j], a)
        <5>1. j \in 1 .. m + 1 /\ ~(j <= k) /\ j # k + 1 /\ j - 1 \in i + 1 .. m
          BY <1>4, <1>5, <3>4
        <5> QED BY <1>7, <3>2, <5>1, Zenon
      <4> QED BY <3>2, <4>1, <4>2, <4>3, Zenon DEF WrittenBy, LastAt
    <3> QED BY <3>3, <3>4, Zenon
  <2> QED BY <1>10, <2>1, <2>2, OneMoreHeader, Zenon
<1> QED BY <1>5, <1>8, <1>9, <1>10, Zenon DEF SortedFrom, u

LEMMA SortsByAddress ==
  ASSUME NEW s \in Seq(ProgHeader)
  PROVE  SortedFrom(s, Len(s), Img!SortedByAddress(s))
<1> DEFINE n == Len(s)
<1>1. n \in Nat
  BY LenProperties
<1>2. PICK h : Sorts(h, s, ProgHeader) /\ h[n] = Img!SortedByAddress(s)
  BY SortRounds, Zenon
<1>3. h[0] = <<>> /\ \A i \in 1 .. n : h[i] = Inserted(h[i - 1], s[i])
  BY <1>2, Zenon DEF Sorts
<1> DEFINE T == {i \in 0 .. n : SortedFrom(s, i, h[i])}
<1>4. 0 \in T
  <2>1. <<>> \in Seq(ProgHeader) /\ Len(<<>>) = 0
    BY EmptySeq
  <2>2. 0 \in 0 .. n /\ \A i \in 1 .. 0 : FALSE
    BY <1>1
  <2>3. SortedFrom(s, 0, <<>>)
    BY <2>1, <2>2, Zenon DEF SortedFrom, Among, Ordered, OwnedBy
  <2> QED BY <1>3, <2>2, <2>3, Zenon
<1>5. ASSUME NEW i \in 1 .. n, i - 1 \in T PROVE i \in T
  <2>1. i - 1 \in Nat /\ i - 1 < n /\ (i - 1) + 1 = i /\ i \in 0 .. n
    BY <1>1
  <2>2. SortedFrom(s, i - 1, h[i - 1])
    BY <1>5
  <2>3. SortedFrom(s, (i - 1) + 1, Inserted(h[i - 1], s[(i - 1) + 1]))
    <3>1. i - 1 < Len(s)
      BY <2>1
    <3> QED BY <2>1, <2>2, <3>1, SortedOneMore, Zenon
  <2>4. SortedFrom(s, i, h[i])
    BY <1>3, <2>1, <2>3, Zenon
  <2> QED BY <2>1, <2>4
<1>6. n \in 0 .. n
  BY <1>1
<1> HIDE DEF T, n
<1>7. n \in T
  BY <1>1, <1>4, <1>5, <1>6, IndexInduction, Zenon
<1> QED BY <1>2, <1>7 DEF T, n

(***************************************************************************)
(* The owner of an address                                                 *)
(***************************************************************************)
LEMMA SomeOwner ==
  ASSUME NEW s \in Seq(ProgHeader), NEW a \in Int
  PROVE  (\E i \in 1 .. Len(s) : Hits(s[i], a)) => \E i \in 1 .. Len(s) : OwnsAt(s, Len(s), a, i)
<1> DEFINE n == Len(s)
           Found(k) == (\E i \in 1 .. k : Hits(s[i], a)) => \E i \in 1 .. k : OwnsAt(s, k, a, i)
           T == {k \in 0 .. n : Found(k)}
<1>1. n \in Nat /\ \A j \in 1 .. n : s[j] \in ProgHeader
  BY LenProperties
<1> HIDE DEF n
<1>2. 0 \in T
  <2>1. 0 \in 0 .. n /\ \A i \in 1 .. 0 : FALSE
    BY <1>1
  <2> QED BY <2>1, Zenon
<1>3. ASSUME NEW k \in 1 .. n, k - 1 \in T PROVE k \in T
  <2>1. /\ k \in 0 .. n /\ k \in 1 .. k
        /\ \A i \in 1 .. k : i \in 1 .. k - 1 \/ i = k
        /\ \A i \in 1 .. k - 1 : i \in 1 .. k /\ i <= k /\ i \in 1 .. n
    BY <1>1
  <2>2. Found(k - 1)
    BY <1>3
  <2>3. s[k] \in ProgHeader /\ Yields(s[k], k, s[k], k)
    <3>1. s[k].p_paddr <= s[k].p_paddr /\ k <= k /\ s[k] \in ProgHeader
      BY <1>1, HeaderNumbers
    <3> QED BY <3>1, YieldsMeans, Zenon
  <2>4. CASE ~Hits(s[k], a)
    <3>1. \A i : OwnsAt(s, k - 1, a, i) => OwnsAt(s, k, a, i)
      BY <2>1, <2>4, Zenon DEF OwnsAt
    <3> QED BY <2>1, <2>2, <2>4, <3>1, Zenon
  <2>5. CASE Hits(s[k], a) /\ ~\E i \in 1 .. k - 1 : Hits(s[i], a)
    <3>1. OwnsAt(s, k, a, k)
      BY <2>1, <2>3, <2>5, Zenon DEF OwnsAt
    <3> QED BY <2>1, <3>1, Zenon
  <2>6. CASE Hits(s[k], a) /\ \E i \in 1 .. k - 1 : Hits(s[i], a)
    <3>1. PICK i \in 1 .. k - 1 : OwnsAt(s, k - 1, a, i)
      BY <2>2, <2>6, Zenon
    <3> DEFINE p == s[i].p_paddr  q == s[k].p_paddr
    <3>2. p \in Nat /\ q \in Nat /\ s[i] \in ProgHeader
      BY <1>1, <2>1, HeaderNumbers
    <3>3. CASE q < p
      <4>1. Yields(s[k], k, s[i], i)
        BY <3>3, Zenon DEF Yields
      <4>2. OwnsAt(s, k, a, i)
        BY <2>1, <3>1, <4>1, Zenon DEF OwnsAt
      <4> QED BY <2>1, <4>2, Zenon
    <3>4. CASE p <= q
      <4>1. ASSUME NEW j \in 1 .. k - 1, Hits(s[j], a) PROVE Yields(s[j], j, s[k], k)
        <5> DEFINE r == s[j].p_paddr
        <5>1. s[j] \in ProgHeader /\ r \in Nat /\ j <= k
          BY <1>1, <2>1, HeaderNumbers
        <5>2. Yields(s[j], j, s[i], i)
          BY <3>1, <4>1, Zenon DEF OwnsAt
        <5>3. r <= p
          BY <3>2, <5>1, <5>2, YieldsMeans, Zenon
        <5>4. p <= q
          BY <3>4
        <5> HIDE DEF p, q, r
        <5>5. r <= q
          BY <3>2, <3>4, <5>1, <5>3
        <5> QED BY <2>3, <5>1, <5>5, YieldsMeans, Zenon DEF q, r
      <4>2. OwnsAt(s, k, a, k)
        BY <2>1, <2>3, <2>6, <4>1, Zenon DEF OwnsAt
      <4> QED BY <2>1, <4>2, Zenon
    <3>5. q < p \/ p <= q
      <4> HIDE DEF p, q
      <4> QED BY <3>2
    <3> QED BY <3>3, <3>4, <3>5, Zenon
  <2>7. Found(k)
    BY <2>4, <2>5, <2>6, Zenon
  <2> HIDE DEF Found
  <2> QED BY <2>1, <2>7
<1>4. n \in 0 .. n
  BY <1>1
<1> HIDE DEF T
<1>5. n \in T
  BY <1>1, <1>2, <1>3, <1>4, IndexInduction, Zenon
<1>6. Found(n)
  <2> HIDE DEF Found
  <2> QED BY <1>5 DEF T
<1> QED BY <1>6, Zenon DEF n

LEMMA OwnerIs ==
  ASSUME NEW object \in Objects, NEW a \in Int
  PROVE  LET s == object.phdrs
             i == Img!Owner(object, a)
         IN  \/ i = 0 /\ \A j \in 1 .. Len(s) : ~Hits(s[j], a)
             \/ i # 0 /\ i \in 1 .. Len(s) /\ OwnedBy(s, Len(s), a, s[i])
<1> DEFINE s == object.phdrs  n == Len(s)  o == Img!Owner(object, a)
           hits == {i \in 1 .. n : Hits(s[i], a)}
<1>1. s \in Seq(ProgHeader) /\ n \in Nat
  BY ObjectParts
<1>2. o = IF hits = {} THEN 0
          ELSE CHOOSE i \in hits : \A j \in hits : Yields(s[j], j, s[i], i)
  BY Zenon DEF Img!Owner, Hits, Yields
<1>3. \A i : i \in hits <=> i \in 1 .. n /\ Hits(s[i], a)
  OBVIOUS
<1>4. \A i \in 1 .. n : i # 0
  OBVIOUS
<1> HIDE DEF o, hits
<1>5. CASE hits = {}
  BY <1>2, <1>3, <1>5, Zenon DEF o
<1>6. CASE hits # {}
  <2>1. \E i \in 1 .. n : Hits(s[i], a)
    <3>1. \E i : i \in hits
      BY <1>6
    <3> QED BY <1>3, <3>1, Zenon
  <2>2. \E i \in 1 .. n : OwnsAt(s, n, a, i)
    BY <1>1, <2>1, SomeOwner, Zenon
  <2>3. \E i \in hits : \A j \in hits : Yields(s[j], j, s[i], i)
    BY <1>3, <2>2, Zenon DEF OwnsAt
  <2>4. o \in hits /\ \A j \in hits : Yields(s[j], j, s[o], o)
    BY <1>2, <1>6, <2>3, Zenon
  <2>5. o \in 1 .. n /\ OwnsAt(s, n, a, o)
    BY <1>3, <2>4, Zenon DEF OwnsAt
  <2> QED BY <1>4, <2>5, Zenon DEF OwnedBy, o
<1> QED BY <1>5, <1>6, Zenon

(***************************************************************************)
(* A segment that lies within the memory                                   *)
(***************************************************************************)
PlacedIn(r, m, start, stop, new) ==
  /\ r \in MemoryShape /\ ~r.write_once
  /\ Len(r.data) = Len(m.data) /\ Len(r.valid) = Len(m.valid)
  /\ \A i \in 1 .. Len(new) : r.data[start + i] = new[i]
  /\ \A i \in 1 .. Len(m.data) : i <= start \/ i > stop => r.data[i] = m.data[i]

LEMMA PlacedWhole ==
  ASSUME NEW m \in MemoryShape, ~m.write_once, Len(m.valid) = Len(m.data),
         NEW start \in Nat, NEW stop \in Int, NEW new \in Seq(ByteValue),
         stop = start + Len(new), stop <= Len(m.data)
  PROVE  PlacedIn(Ops!SetSlice(m, start, stop, new).mem, m, start, stop, new)
<1> DEFINE r == Ops!SetSlice(m, start, stop, new)
           flags == Ops!Filled(Ops!SliceLen(start, stop), TRUE)
           d == Ops!Splice(m.data, start, stop, new)
           v == Ops!Splice(m.valid, start, stop, flags)
           n == Len(m.data)  k == Len(new)
<1>1. m.data \in Seq(ByteValue) /\ m.valid \in Seq(BOOLEAN)
  BY DEF MemoryShape
<1>2. n \in Nat /\ k \in Nat /\ Len(m.valid) = n /\ stop = start + k /\ stop <= n
  BY <1>1, LenProperties
<1>3. r = Ops!Done(WithBoth(m, d, v))
  BY Zenon DEF Ops!SetSlice, WithBoth
<1>4. r.mem = WithBoth(m, d, v)
  <2> HIDE DEF r
  <2> QED BY <1>3 DEF Ops!Done
<1> HIDE DEF r, n, k
<1>5. start \in Int /\ stop \in Int /\ (stop <= start => k = 0) /\ (stop > start => stop - start = k)
  BY <1>2
<1>6. flags \in Seq(BOOLEAN) /\ Len(flags) = k
  <2>1. /\ flags \in Seq(BOOLEAN)
        /\ stop <= start => Len(flags) = 0
        /\ stop > start => Len(flags) = stop - start
    BY <1>5, SliceFlags, Zenon
  <2> HIDE DEF flags
  <2> QED BY <1>2, <1>5, <2>1
<1> HIDE DEF flags
<1>7. start <= n /\ start <= stop
  BY <1>2
<1>8. PICK lo, hi \in Nat : Resliced(d, ByteValue, m.data, new, start, stop, lo, hi)
  BY <1>1, SpliceKeeps, Zenon
<1>9. PICK lv, hv \in Nat : Resliced(v, BOOLEAN, m.valid, flags, start, stop, lv, hv)
  BY <1>1, <1>6, SpliceKeeps, Zenon
<1> HIDE DEF d, v
<1>10. lo = start /\ hi = stop /\ Middled(d, ByteValue, m.data, new, start, stop)
  BY <1>2, <1>7, <1>8, Zenon DEF Resliced, n
<1>11. lv = start /\ hv = stop /\ Middled(v, BOOLEAN, m.valid, flags, start, stop)
  BY <1>2, <1>7, <1>9, Zenon DEF Resliced, n
<1>12. /\ d \in Seq(ByteValue) /\ Len(d) = start + k + (n - stop)
       /\ \A i \in 1 .. start : d[i] = m.data[i]
       /\ \A i \in 1 .. k : d[start + i] = new[i]
       /\ \A i \in stop + 1 .. n : d[start + k + (i - stop)] = m.data[i]
  BY <1>10, Zenon DEF Middled, n, k
<1>13. v \in Seq(BOOLEAN) /\ Len(v) = start + k + (n - stop)
  BY <1>2, <1>6, <1>11, Zenon DEF Middled
<1>14. start + k + (n - stop) = n
  BY <1>2
<1>15. ASSUME NEW i \in 1 .. n, i <= start \/ i > stop PROVE d[i] = m.data[i]
  <2>1. CASE i <= start
    BY <1>12, <2>1
  <2>2. CASE i > stop
    <3>1. i \in stop + 1 .. n /\ start + k + (i - stop) = i
      BY <1>2, <2>2
    <3> QED BY <1>12, <3>1
  <2> QED BY <1>15, <2>1, <2>2
<1>16. /\ WithBoth(m, d, v) \in MemoryShape /\ WithBoth(m, d, v).data = d
       /\ WithBoth(m, d, v).valid = v /\ WithBoth(m, d, v).write_once = m.write_once
  BY <1>12, <1>13, ShapeMakes
<1> QED BY <1>2, <1>4, <1>12, <1>13, <1>14, <1>15, <1>16, Zenon DEF PlacedIn, r, n, k

(***************************************************************************)
(* The first k segments of t are placed, and nothing else.                 *)
(***************************************************************************)
ByteFrom(contents, ph, a) == contents[ph.p_offset + (a - Img!RiscvMemOffset - ph.p_paddr) + 1]

Free(t, k, a) == a < Img!RiscvMemOffset \/ \A i \in 1 .. k : ~Hits(t[i], a - Img!RiscvMemOffset)

ImageHolds(m, contents, t, k) ==
  /\ m \in MemoryShape /\ ~m.write_once /\ Len(m.data) = MemSize /\ Len(m.valid) = MemSize
  /\ \A a \in 0 .. MemSize - 1 :
       /\ \A ph \in ProgHeader :
            a >= Img!RiscvMemOffset /\ WrittenBy(t, k, a - Img!RiscvMemOffset, ph)
              => m.data[a + 1] = ByteFrom(contents, ph, a)
       /\ Free(t, k, a) => m.data[a + 1] = Microcode.data[a + 1]

(* A header that Fits and TrueContents speak of.                           *)
Sound(contents, ph) ==
  /\ ph.p_offset + ph.p_filesz <= Len(contents)
  /\ ph.p_paddr + ph.p_filesz + Img!RiscvMemOffset <= MemSize
  /\ Img!ElfSegment(contents, ph).data
       = Img!Slice(contents, ph.p_offset, ph.p_offset + ph.p_filesz)

LEMMA MicrocodeFits ==
  /\ Microcode \in MemoryShape /\ ~Microcode.write_once
  /\ Len(Microcode.data) = MemSize /\ Len(Microcode.valid) = MemSize
  /\ MemSize \in Nat /\ Img!RiscvMemOffset \in Nat
<1>1. Microcode \in MemoryShape /\ Img!RiscvMemOffset \in Nat
  BY MicrocodeParts, Zenon
<1>2. /\ ~Microcode.write_once /\ Len(Microcode.data) = MemSize
      /\ Len(Microcode.valid) = Len(Microcode.data)
  BY ImageAssumption, Zenon
<1>3. Len(Microcode.data) \in Nat
  BY <1>1, LenProperties DEF MemoryShape
<1> QED BY <1>1, <1>2, <1>3, Zenon

LEMMA SegmentData ==
  ASSUME NEW contents \in Seq(ByteValue), NEW ph \in ProgHeader, Img!Loaded(ph),
         Sound(contents, ph)
  PROVE  LET d == Img!ElfSegment(contents, ph).data
         IN  /\ d \in Seq(ByteValue) /\ Len(d) = ph.p_filesz
             /\ \A i \in 1 .. ph.p_filesz : d[i] = contents[ph.p_offset + i]
<1> DEFINE p == ph.p_offset  z == ph.p_filesz  n == Len(contents)
           d == Img!ElfSegment(contents, ph).data
<1>1. p \in Nat /\ z \in Nat /\ z # 0
  BY HeaderNumbers DEF Img!Loaded
<1>2. n \in Nat
  BY LenProperties
<1>3. d = Ops!Slice(contents, p, p + z) /\ p + z <= n
  BY ImgSlice, Zenon DEF Sound
<1> HIDE DEF p, z, d
<1> DEFINE e == IF p + z <= Len(contents) THEN p + z ELSE Len(contents)
           t == Ops!Slice(contents, p, p + z)
<1>4. p \in Nat /\ p + z \in Int
  BY <1>1
<1>5. /\ t \in Seq(ByteValue) /\ Len(t) = IF p < e THEN e - p ELSE 0
      /\ \A i \in 1 .. Len(t) : t[i] = contents[p + i]
  BY <1>4, SliceSeq, Zenon
<1>6. e = p + z
  BY <1>3
<1> HIDE DEF e, t, n
<1>7. (IF p < e THEN e - p ELSE 0) = z
  BY <1>1, <1>6
<1>8. d = t
  BY <1>3 DEF t
<1> QED BY <1>5, <1>7, <1>8, Zenon DEF d, z, p

LEMMA WrittenOneMore ==
  ASSUME NEW t, NEW k \in Nat, NEW a, NEW ph, WrittenBy(t, k + 1, a, ph)
  PROVE  \/ ph = t[k + 1] /\ Hits(ph, a)
         \/ ~Hits(t[k + 1], a) /\ WrittenBy(t, k, a, ph)
<1>1. PICK i \in 1 .. k + 1 : t[i] = ph /\ LastAt(t, k + 1, a, i)
  BY Zenon DEF WrittenBy
<1>2. CASE i = k + 1
  BY <1>1, <1>2, Zenon DEF LastAt
<1>3. CASE i # k + 1
  <2>1. /\ i \in 1 .. k /\ k + 1 \in i + 1 .. k + 1
        /\ \A j \in i + 1 .. k : j \in i + 1 .. k + 1
    BY <1>3
  <2> QED BY <1>1, <2>1, Zenon DEF LastAt, WrittenBy
<1> QED BY <1>2, <1>3, Zenon

LEMMA HoldsNext ==
  ASSUME NEW contents \in Seq(ByteValue), NEW t \in Seq(ProgHeader), NEW k \in Nat,
         k < Len(t), NEW m, ImageHolds(m, contents, t, k), NEW x, x = t[k + 1],
         Img!Loaded(x), Sound(contents, x), NEW start, NEW stop,
         start = x.p_paddr + Img!RiscvMemOffset,
         stop = x.p_paddr + x.p_filesz - 1 + 1 + Img!RiscvMemOffset
  PROVE  ImageHolds(Ops!SetSlice(m, start, stop, Img!ElfSegment(contents, x).data).mem,
               contents, t, k + 1)
<1> DEFINE d == Img!ElfSegment(contents, x).data
           r == Ops!SetSlice(m, start, stop, d).mem
           o == Img!RiscvMemOffset  p == x.p_paddr  z == x.p_filesz  f == x.p_offset
<1>1. x \in ProgHeader
  <2>1. k + 1 \in 1 .. Len(t)
    BY LenProperties
  <2> QED BY <2>1, ElementOfSeq
<1>2. p \in Nat /\ z \in Nat /\ f \in Nat /\ o \in Nat /\ MemSize \in Nat
  BY <1>1, HeaderNumbers, MicrocodeFits
<1>3. d \in Seq(ByteValue) /\ Len(d) = z /\ \A i \in 1 .. z : d[i] = contents[f + i]
  BY <1>1, SegmentData, Zenon
<1>4. m \in MemoryShape /\ ~m.write_once /\ Len(m.data) = MemSize /\ Len(m.valid) = MemSize
  BY Zenon DEF ImageHolds
<1>5. p + z + o <= MemSize
  BY Zenon DEF Sound
<1>6. start = p + o /\ stop = p + z - 1 + 1 + o
  BY Zenon
<1>7. \A b : Hits(x, b) <=> p <= b /\ b < p + z
  BY Zenon DEF Hits
<1> HIDE DEF d, o, p, z, f
<1>8. start \in Nat /\ stop \in Int /\ stop = start + z /\ stop <= MemSize
  BY <1>2, <1>5, <1>6
<1>9. PlacedIn(r, m, start, stop, d)
  <2>1. stop = start + Len(d) /\ stop <= Len(m.data) /\ Len(m.valid) = Len(m.data)
    BY <1>3, <1>4, <1>8, Zenon
  <2> QED BY <1>3, <1>4, <1>8, <2>1, PlacedWhole, Zenon
<1> HIDE DEF r
<1>10. /\ r \in MemoryShape /\ ~r.write_once /\ Len(r.data) = MemSize /\ Len(r.valid) = MemSize
       /\ \A i \in 1 .. z : r.data[start + i] = d[i]
       /\ \A i \in 1 .. MemSize : i <= start \/ i > stop => r.data[i] = m.data[i]
  BY <1>3, <1>4, <1>9, Zenon DEF PlacedIn
<1>11. ASSUME NEW a \in 0 .. MemSize - 1
       PROVE  /\ a >= o /\ Hits(x, a - o) => r.data[a + 1] = contents[f + (a - o - p) + 1]
              /\ ~(a >= o /\ Hits(x, a - o)) => r.data[a + 1] = m.data[a + 1]
  <2>1. CASE a >= o /\ Hits(x, a - o)
    <3> DEFINE i == a - o - p + 1
    <3>1. p <= a - o /\ a - o < p + z
      BY <1>7, <2>1
    <3>2. i \in 1 .. z /\ start + i = a + 1 /\ f + i = f + (a - o - p) + 1
      BY <1>2, <1>6, <3>1
    <3> HIDE DEF i
    <3>3. r.data[start + i] = d[i] /\ d[i] = contents[f + i]
      BY <1>3, <1>10, <3>2, Zenon
    <3> QED BY <2>1, <3>2, <3>3
  <2>2. CASE ~(a >= o /\ Hits(x, a - o))
    <3>1. ~(a >= o) \/ ~(p <= a - o /\ a - o < p + z)
      BY <1>7, <2>2, Zenon
    <3>2. a + 1 \in 1 .. MemSize /\ (a + 1 <= start \/ a + 1 > stop)
      BY <1>2, <1>6, <1>8, <3>1
    <3> QED BY <1>10, <2>2, <3>2, Zenon
  <2> QED BY <2>1, <2>2, Zenon
<1>12. ASSUME NEW a \in 0 .. MemSize - 1, NEW ph \in ProgHeader, a >= o,
              WrittenBy(t, k + 1, a - o, ph)
       PROVE  r.data[a + 1] = ByteFrom(contents, ph, a)
  <2>1. CASE ph = x /\ Hits(ph, a - o)
    BY <1>11, <1>12, <2>1, Zenon DEF ByteFrom, o, f, p
  <2>2. CASE ~Hits(x, a - o) /\ WrittenBy(t, k, a - o, ph)
    <3>1. m.data[a + 1] = ByteFrom(contents, ph, a)
      BY <1>12, <2>2, Zenon DEF ImageHolds, o
    <3> QED BY <1>11, <2>2, <3>1, Zenon
  <2> QED BY <1>12, <2>1, <2>2, WrittenOneMore, Zenon
<1>13. ASSUME NEW a \in 0 .. MemSize - 1, Free(t, k + 1, a)
       PROVE  r.data[a + 1] = Microcode.data[a + 1]
  <2>1. k + 1 \in 1 .. k + 1 /\ \A i \in 1 .. k : i \in 1 .. k + 1
    OBVIOUS
  <2>2. a < o \/ \A i \in 1 .. k + 1 : ~Hits(t[i], a - o)
    BY <1>13, Zenon DEF Free, o
  <2>3. a < o => ~(a >= o)
    BY <1>2
  <2>4. Free(t, k, a) /\ ~(a >= o /\ Hits(x, a - o))
    BY <2>1, <2>2, <2>3, Zenon DEF Free, o
  <2>5. m.data[a + 1] = Microcode.data[a + 1]
    BY <2>4, Zenon DEF ImageHolds
  <2> QED BY <1>11, <2>4, <2>5, Zenon
<1> QED BY <1>10, <1>12, <1>13, Zenon DEF ImageHolds, r, d, o

(***************************************************************************)
(* vmem with one executable                                                *)
(***************************************************************************)
(* t has the loaded headers of s, and its last for an address is the owner.*)
Describes(t, s) ==
  /\ t \in Seq(ProgHeader) /\ Among(t, s, Len(s)) /\ \A i \in 1 .. Len(t) : Img!Loaded(t[i])
  /\ \A a \in Int, ph \in ProgHeader : OwnedBy(s, Len(s), a, ph) => WrittenBy(t, Len(t), a, ph)

(* k segments are placed, the others are to come.                          *)
PlacedSome(t, k) ==
  /\ Describes(t, elf.phdrs) /\ Len(t) = k + Len(segments)
  /\ \A j \in 1 .. Len(segments) : segments[j] = Img!ElfSegment(elf.contents, t[k + j])
  /\ ImageHolds(mem, elf.contents, t, k)

Placed == \E t, k : k \in Nat /\ PlacedSome(t, k)

PlaceInv ==
  /\ opened = 0 => step \in {"object", "stopped"} /\ mem = Microcode
  /\ opened = 1 =>
       /\ step \in {"ident", "header"} => mem = Microcode /\ ph_index = 0 /\ prog_headers = <<>>
       /\ step = "programs" => mem = Microcode /\ Collected(elf.phdrs, ph_index, prog_headers)
       /\ step \in {"segments", "object"} /\ Img!Fits(elf) /\ Img!TrueContents(elf) => Placed
       /\ step = "object" => segments = <<>>

LEMMA SortDescribes ==
  ASSUME NEW s \in Seq(ProgHeader), NEW q, Collected(s, Len(s), q)
  PROVE  Describes(Img!SortedByAddress(q), s)
<1> DEFINE t == Img!SortedByAddress(q)
<1>1. /\ q \in Seq(ProgHeader) /\ Among(q, s, Len(s)) /\ \A i \in 1 .. Len(q) : Img!Loaded(q[i])
      /\ \A a \in Int, ph \in ProgHeader : OwnedBy(s, Len(s), a, ph) => OwnedBy(q, Len(q), a, ph)
  BY Zenon DEF Collected
<1>2. SortedFrom(q, Len(q), t)
  BY <1>1, SortsByAddress, Zenon
<1> HIDE DEF t
<1>3. /\ t \in Seq(ProgHeader) /\ Among(t, q, Len(q))
      /\ \A a \in Int, ph \in ProgHeader : OwnedBy(q, Len(q), a, ph) => WrittenBy(t, Len(t), a, ph)
  BY <1>2, Zenon DEF SortedFrom
<1>4. Among(t, s, Len(s))
  BY <1>1, <1>3, ZenonT(40) DEF Among
<1>5. \A i \in 1 .. Len(t) : Img!Loaded(t[i])
  BY <1>1, <1>3, Zenon DEF Among
<1> QED BY <1>1, <1>3, <1>4, <1>5, Zenon DEF Describes, t

LEMMA MicrocodeHolds ==
  ASSUME NEW contents, NEW t
  PROVE  ImageHolds(Microcode, contents, t, 0)
<1>1. \A i \in 1 .. 0 : FALSE
  OBVIOUS
<1> QED BY <1>1, MicrocodeFits, Zenon DEF ImageHolds, WrittenBy

(* What Fits and TrueContents say of the headers that are sorted.          *)
LEMMA SoundOf ==
  ASSUME NEW object, Img!Fits(object), Img!TrueContents(object), NEW t,
         Describes(t, object.phdrs), NEW i \in 1 .. Len(t)
  PROVE  Img!Loaded(t[i]) /\ Sound(object.contents, t[i])
<1>1. Img!Loaded(t[i])
  BY Zenon DEF Describes
<1>2. PICK j \in 1 .. Len(object.phdrs) : t[i] = object.phdrs[j]
  BY Zenon DEF Describes, Among
<1>3. Sound(object.contents, object.phdrs[j])
  BY <1>1, <1>2, Zenon DEF Img!Fits, Img!TrueContents, Sound
<1> QED BY <1>1, <1>2, <1>3, Zenon

LEMMA PlaceInit == ASSUME Img!Init PROVE PlaceInv
<1>1. opened = 0 /\ step = "object" /\ mem = Microcode
  BY Zenon DEF Img!Init
<1>2. 0 # 1
  OBVIOUS
<1>3. step \in {"object", "stopped"}
  BY <1>1
<1> QED BY <1>1, <1>2, <1>3, Zenon DEF PlaceInv

LEMMA PlaceStep ==
  ASSUME VmemInv, VmemInv', PlaceInv, Img!Next
  PROVE  PlaceInv'
<1>1. /\ elf \in Objects /\ opened \in Nat /\ ph_index \in 0 .. Len(elf.phdrs)
      /\ prog_headers \in Seq(ProgHeader) /\ segments \in Seq(Segment)
  <2>1. /\ elf \in Objects /\ prog_headers \in Seq(ProgHeader) /\ segments \in Seq(Segment)
        /\ opened \in 0 .. MaxObjects /\ ph_index \in 0 .. Len(elf.phdrs)
    BY Zenon DEF VmemInv, Img!TypeOK
  <2>2. MaxObjects \in Nat
    BY MicrocodeParts, Zenon
  <2>3. opened \in Nat
    BY <2>1, <2>2
  <2> QED BY <2>1, <2>3, Zenon
<1>2. 0 # 1
  OBVIOUS
<1>3. CASE Img!OpenObject
  <2>1. /\ opened' = opened + 1 /\ step = "object" /\ step' = "ident" /\ mem' = mem
        /\ ph_index' = 0 /\ prog_headers' = <<>>
    BY <1>3, Zenon DEF Img!OpenObject
  <2>2. opened' # 0 /\ (opened' = 1 => opened = 0)
    BY <1>1, <2>1
  <2>3. opened' = 1 => mem' = Microcode
    BY <2>1, <2>2, Zenon DEF PlaceInv
  <2>4. step' \notin {"segments", "object", "programs"}
    BY <2>1
  <2>5. step' # "programs" /\ step' # "object"
    BY <2>4
  <2> QED BY <2>1, <2>2, <2>3, <2>4, <2>5, Zenon DEF PlaceInv
<1>4. ASSUME step \notin {"object", "stopped"} PROVE opened # 0
  BY <1>4, Zenon DEF PlaceInv
<1>5. CASE Img!ReadIdent
  <2>1. /\ step = "ident" /\ step' \in {"header", "stopped"}
        /\ UNCHANGED <<mem, opened, elf, ph_index, prog_headers, segments>>
    BY <1>5 DEF Img!ReadIdent, Img!Stop
  <2>2. /\ step \notin {"object", "stopped"} /\ step \in {"ident", "header"}
        /\ step' \notin {"segments", "object"} /\ step' # "programs" /\ step' # "object"
    BY <2>1
  <2> QED BY <1>4, <2>1, <2>2, Zenon DEF PlaceInv
<1>6. CASE Img!ReadHeader
  <2>1. /\ step = "header" /\ step' \in {"programs", "stopped"}
        /\ UNCHANGED <<mem, opened, elf, ph_index, prog_headers, segments>>
    BY <1>6 DEF Img!ReadHeader, Img!Stop, Img!ivars
  <2>2. /\ step \notin {"object", "stopped"} /\ step \in {"ident", "header"}
        /\ step' \notin {"segments", "object"} /\ step' \notin {"ident", "header"}
        /\ step' # "object"
    BY <2>1
  <2>3. opened = 1 => mem = Microcode /\ ph_index = 0 /\ prog_headers = <<>>
    BY <2>2, Zenon DEF PlaceInv
  <2>4. opened = 1 => Collected(elf'.phdrs, ph_index', prog_headers')
    BY <2>1, <2>3, NothingCollected, Zenon
  <2> QED BY <1>4, <2>1, <2>2, <2>3, <2>4, Zenon DEF PlaceInv
<1>7. CASE Img!ReadProgHeader
  <2> DEFINE s == elf.phdrs  x == s[ph_index + 1]
  <2>1. /\ step = "programs" /\ ph_index < Len(s) /\ ph_index' = ph_index + 1
        /\ prog_headers' = IF Img!Loaded(x) THEN Append(prog_headers, x) ELSE prog_headers
        /\ UNCHANGED <<step, mem, opened, elf, segments>>
    BY <1>7, Zenon DEF Img!ReadProgHeader
  <2>2. /\ step \notin {"object", "stopped"} /\ step \notin {"ident", "header"}
        /\ step \notin {"segments", "object"} /\ step # "object"
    BY <2>1
  <2>3. s \in Seq(ProgHeader) /\ ph_index \in Nat
    BY <1>1, ObjectParts
  <2>4. ASSUME opened = 1 PROVE Collected(s, ph_index + 1, prog_headers')
    <3>1. Collected(s, ph_index, prog_headers)
      BY <2>1, <2>4, Zenon DEF PlaceInv
    <3>2. Collected(s, ph_index + 1,
                    IF Img!Loaded(x) THEN Append(prog_headers, x) ELSE prog_headers)
      BY <2>1, <2>3, <3>1, CollectedMore, Zenon
    <3> QED BY <2>1, <3>2, Zenon
  <2> QED BY <1>4, <2>1, <2>2, <2>4, Zenon DEF PlaceInv
<1>8. CASE Img!MakeSegments
  <2> DEFINE s == elf.phdrs
  <2>0. PICK t : t = Img!SortedByAddress(prog_headers)
    OBVIOUS
  <2>1. /\ step = "programs" /\ step' = "segments" /\ ph_index = Len(s)
        /\ segments' = [i \in 1 .. Len(t) |-> Img!ElfSegment(elf.contents, t[i])]
        /\ UNCHANGED <<mem, opened, elf>>
    BY <1>8, <2>0, Zenon DEF Img!MakeSegments
  <2>2. /\ step \notin {"object", "stopped"} /\ step' \notin {"ident", "header"}
        /\ step' # "programs" /\ step' # "object"
    BY <2>1
  <2>3. s \in Seq(ProgHeader) /\ elf.contents \in Seq(ByteValue)
    BY <1>1, ObjectParts
  <2>4. ASSUME opened = 1 PROVE Placed'
    <3>1. mem = Microcode /\ Collected(s, Len(s), prog_headers)
      BY <2>1, <2>4, Zenon DEF PlaceInv
    <3>2. Describes(t, s)
      BY <2>0, <2>3, <3>1, SortDescribes, Zenon
    <3>3. t \in Seq(ProgHeader)
      BY <3>2, Zenon DEF Describes
    <3>4. Len(segments') = Len(t)
      BY <2>1, <2>3, <3>3, SegmentsType, Zenon
    <3>5. Len(t) \in Nat
      BY <3>3, LenProperties
    <3>6. Len(t) = 0 + Len(segments') /\ \A j \in 1 .. Len(segments') : 0 + j = j
      BY <3>4, <3>5
    <3>7. \A j \in 1 .. Len(segments') : segments'[j] = Img!ElfSegment(elf.contents, t[j])
      BY <2>1, <3>4, Zenon
    <3>8. ImageHolds(mem', elf'.contents, t, 0)
      BY <2>1, <3>1, MicrocodeHolds, Zenon
    <3>9. Describes(t, elf'.phdrs) /\ elf' = elf /\ 0 \in Nat
      BY <2>1, <3>2, Zenon
    <3>10. PlacedSome(t, 0)'
      BY <3>6, <3>7, <3>8, <3>9, Zenon DEF PlacedSome
    <3> QED BY <3>9, <3>10, Zenon DEF Placed
  <2> QED BY <1>4, <2>1, <2>2, <2>4, Zenon DEF PlaceInv
<1>9. CASE Img!PlaceSegment
  <2> DEFINE o == Img!RiscvMemOffset
  <2>0. PICK h : h = Head(segments)
    OBVIOUS
  <2>1. /\ step = "segments" /\ segments # <<>> /\ segments' = Tail(segments)
        /\ mem' = Img!SetSlice(mem, h.paddr + o, h.eaddr + 1 + o, h.data).mem
        /\ UNCHANGED <<step, opened, elf>>
    BY <1>9, <2>0, Zenon DEF Img!PlaceSegment
  <2>2. /\ step \notin {"object", "stopped"} /\ step \notin {"ident", "header"}
        /\ step # "programs" /\ step # "object" /\ step \in {"segments", "object"}
    BY <2>1
  <2>3. /\ Len(segments) \in Nat /\ Len(segments) > 0 /\ h = segments[1]
        /\ Len(segments') = Len(segments) - 1
        /\ \A j \in 1 .. Len(segments) - 1 : segments'[j] = segments[j + 1]
    BY <1>1, <2>0, <2>1, HeadTailProperties, EmptySeq
  <2>4. ASSUME opened = 1, Img!Fits(elf), Img!TrueContents(elf) PROVE Placed'
    <3>1. PICK t, k : k \in Nat /\ PlacedSome(t, k)
      BY <2>2, <2>4, Zenon DEF PlaceInv, Placed
    <3>2. /\ Describes(t, elf.phdrs) /\ Len(t) = k + Len(segments)
          /\ \A j \in 1 .. Len(segments) : segments[j] = Img!ElfSegment(elf.contents, t[k + j])
          /\ ImageHolds(mem, elf.contents, t, k)
      BY <3>1, Zenon DEF PlacedSome
    <3>3. t \in Seq(ProgHeader) /\ elf.contents \in Seq(ByteValue)
      BY <1>1, <3>2, ObjectParts, Zenon DEF Describes
    <3>4. /\ k < Len(t) /\ k + 1 \in 1 .. Len(t) /\ k + 1 \in Nat /\ 1 \in 1 .. Len(segments)
          /\ Len(t) = (k + 1) + (Len(segments) - 1)
          /\ \A j \in 1 .. Len(segments) - 1 :
               j + 1 \in 1 .. Len(segments) /\ k + (j + 1) = (k + 1) + j
      BY <2>3, <3>1, <3>2
    <3>5. PICK x : x = t[k + 1]
      OBVIOUS
    <3>6. Img!Loaded(x) /\ Sound(elf.contents, x)
      BY <2>4, <3>2, <3>4, <3>5, SoundOf, Zenon
    <3>7. /\ h = Img!ElfSegment(elf.contents, x)
          /\ h.paddr = x.p_paddr /\ h.eaddr = x.p_paddr + x.p_filesz - 1
      <4>1. h = Img!ElfSegment(elf.contents, x)
        BY <2>3, <3>2, <3>4, <3>5, Zenon
      <4> DEFINE e == x.p_paddr + x.p_filesz - 1
                 d == Img!Slice(elf.contents, x.p_offset + x.p_paddr, x.p_offset + e + 1)
      <4>2. h = [paddr |-> x.p_paddr, eaddr |-> e, data |-> d]
        BY <4>1, Zenon DEF Img!ElfSegment
      <4>3. h.paddr = x.p_paddr /\ h.eaddr = e
        <5> HIDE DEF e, d
        <5> QED BY <4>2
      <4> QED BY <4>1, <4>3, Zenon
    <3> DEFINE start == x.p_paddr + o  stop == x.p_paddr + x.p_filesz - 1 + 1 + o
    <3>8. mem' = Ops!SetSlice(mem, start, stop, Img!ElfSegment(elf.contents, x).data).mem
      BY <2>1, <3>7, ImgSetSlice, Zenon
    <3>9. start = x.p_paddr + Img!RiscvMemOffset
          /\ stop = x.p_paddr + x.p_filesz - 1 + 1 + Img!RiscvMemOffset
      BY Zenon
    <3> HIDE DEF start, stop
    <3>10. ImageHolds(Ops!SetSlice(mem, start, stop, Img!ElfSegment(elf.contents, x).data).mem,
                 elf.contents, t, k + 1)
      BY <3>1, <3>2, <3>3, <3>4, <3>5, <3>6, <3>9, HoldsNext, Zenon
    <3>11. ImageHolds(mem', elf'.contents, t, k + 1) /\ Describes(t, elf'.phdrs) /\ elf' = elf
      BY <2>1, <3>2, <3>8, <3>10, Zenon
    <3>12. Len(t) = (k + 1) + Len(segments')
      BY <2>3, <3>4
    <3>13. \A j \in 1 .. Len(segments') :
             segments'[j] = Img!ElfSegment(elf'.contents, t[(k + 1) + j])
      <4> SUFFICES ASSUME NEW j \in 1 .. Len(segments) - 1
                   PROVE  segments'[j] = Img!ElfSegment(elf.contents, t[(k + 1) + j])
        BY <2>3, <3>11, Zenon
      <4> QED BY <2>3, <3>2, <3>4, Zenon
    <3>14. PlacedSome(t, k + 1)'
      BY <3>11, <3>12, <3>13, Zenon DEF PlacedSome
    <3> QED BY <3>4, <3>14, Zenon DEF Placed
  <2> QED BY <1>4, <2>1, <2>2, <2>4, Zenon DEF PlaceInv
<1>10. CASE Img!NextObject
  <2>1. /\ step = "segments" /\ segments = <<>> /\ step' = "object"
        /\ UNCHANGED <<mem, opened, elf, ph_index, prog_headers, segments>>
    BY <1>10 DEF Img!NextObject, Img!ivars
  <2>2. /\ step \notin {"object", "stopped"} /\ step \in {"segments", "object"}
        /\ step' \notin {"ident", "header"} /\ step' # "programs"
    BY <2>1
  <2>3. Placed => Placed'
    BY <2>1, Zenon DEF Placed, PlacedSome
  <2> QED BY <1>4, <2>1, <2>2, <2>3, Zenon DEF PlaceInv
<1>11. CASE Img!PrintReadmemh \/ Img!PrintCoe
  <2>1. step' = "stopped" /\ UNCHANGED <<mem, opened, elf, ph_index, prog_headers, segments>>
    BY <1>11 DEF Img!PrintReadmemh, Img!PrintCoe, Img!Stop, Img!ivars
  <2>2. /\ step' \in {"object", "stopped"} /\ step' \notin {"ident", "header"}
        /\ step' # "programs" /\ step' \notin {"segments", "object"} /\ step' # "object"
    BY <2>1
  <2> QED BY <2>1, <2>2, Zenon DEF PlaceInv
<1> QED BY <1>3, <1>5, <1>6, <1>7, <1>8, <1>9, <1>10, <1>11, Zenon DEF Img!Next

LEMMA PlacedIsImage ==
  ASSUME VmemInv, PlaceInv
  PROVE  Img!ImagePlaced
<1> SUFFICES ASSUME step = "object", opened = 1, Img!Fits(elf), Img!TrueContents(elf)
             PROVE  /\ Len(mem.data) = MemSize /\ Len(mem.valid) = MemSize
                    /\ \A a \in 0 .. MemSize - 1 :
                         LET i  == IF a < Img!RiscvMemOffset THEN 0
                                   ELSE Img!Owner(elf, a - Img!RiscvMemOffset)
                             ph == elf.phdrs[i]
                         IN  mem.data[a + 1] =
                               IF i = 0 THEN Microcode.data[a + 1]
                               ELSE elf.contents[ph.p_offset
                                      + (a - Img!RiscvMemOffset - ph.p_paddr) + 1]
  BY Zenon DEF Img!ImagePlaced
<1> DEFINE s == elf.phdrs  o == Img!RiscvMemOffset
<1>1. elf \in Objects /\ segments = <<>>
  BY Zenon DEF VmemInv, PlaceInv
<1>2. s \in Seq(ProgHeader) /\ o \in Nat /\ MemSize \in Nat
      /\ \A i \in 1 .. Len(s) : s[i] \in ProgHeader
  BY <1>1, ObjectParts, MicrocodeFits
<1>3. PICK t, k : k \in Nat /\ PlacedSome(t, k)
  <2>1. step \in {"segments", "object"}
    OBVIOUS
  <2> QED BY <2>1, Zenon DEF PlaceInv, Placed
<1>4. Describes(t, s) /\ Len(t) = k + Len(segments) /\ ImageHolds(mem, elf.contents, t, k)
  BY <1>3, Zenon DEF PlacedSome
<1>5. Len(t) = k
  <2>1. Len(segments) = 0
    BY <1>1
  <2> QED BY <1>3, <1>4, <2>1
<1>6. /\ Among(t, s, Len(s))
      /\ \A a \in Int, ph \in ProgHeader : OwnedBy(s, Len(s), a, ph) => WrittenBy(t, k, a, ph)
  BY <1>4, <1>5, Zenon DEF Describes
<1>7. /\ Len(mem.data) = MemSize /\ Len(mem.valid) = MemSize
      /\ \A a \in 0 .. MemSize - 1 :
           /\ \A ph \in ProgHeader : a >= o /\ WrittenBy(t, k, a - o, ph)
                                       => mem.data[a + 1] = ByteFrom(elf.contents, ph, a)
           /\ Free(t, k, a) => mem.data[a + 1] = Microcode.data[a + 1]
  BY <1>4, Zenon DEF ImageHolds
<1>8. ASSUME NEW a \in 0 .. MemSize - 1
      PROVE  LET i  == IF a < o THEN 0 ELSE Img!Owner(elf, a - o)
                 ph == s[i]
             IN  mem.data[a + 1] = IF i = 0 THEN Microcode.data[a + 1]
                                   ELSE ByteFrom(elf.contents, ph, a)
  <2>1. CASE a < o
    <3>1. mem.data[a + 1] = Microcode.data[a + 1]
      BY <1>7, <2>1, Zenon DEF Free
    <3> QED BY <2>1, <3>1, Zenon
  <2>2. CASE ~(a < o)
    <3>1. PICK i : i = Img!Owner(elf, a - o)
      OBVIOUS
    <3>2. a - o \in Int /\ a >= o
      BY <1>2, <2>2
    <3>3. \/ i = 0 /\ \A j \in 1 .. Len(s) : ~Hits(s[j], a - o)
          \/ i # 0 /\ i \in 1 .. Len(s) /\ OwnedBy(s, Len(s), a - o, s[i])
      BY <1>1, <3>1, <3>2, OwnerIs, Zenon
    <3>4. CASE i = 0 /\ \A j \in 1 .. Len(s) : ~Hits(s[j], a - o)
      <4>1. Free(t, k, a)
        BY <1>5, <1>6, <3>4, Zenon DEF Free, Among
      <4> QED BY <1>7, <2>2, <3>1, <3>4, <4>1, Zenon
    <3>5. CASE i # 0 /\ i \in 1 .. Len(s) /\ OwnedBy(s, Len(s), a - o, s[i])
      <4>1. s[i] \in ProgHeader /\ WrittenBy(t, k, a - o, s[i])
        BY <1>2, <1>6, <3>2, <3>5, Zenon
      <4>2. mem.data[a + 1] = ByteFrom(elf.contents, s[i], a)
        BY <1>7, <3>2, <4>1, Zenon
      <4> QED BY <2>2, <3>1, <3>5, <4>2, Zenon
    <3> QED BY <3>3, <3>4, <3>5, Zenon
  <2> QED BY <2>1, <2>2, Zenon
<1> QED BY <1>7, <1>8, Zenon DEF ByteFrom

PlaceHolds == tool = "vmem" => PlaceInv

(* vmem, elf.py: however many segments an executable has, in whatever      *)
(* order of the file and overlapping as they may, each byte of the image   *)
(* comes from the header that owns its address, or is as it was.           *)
THEOREM ImageIsAsDescribed == Spec => []ImagePlaced
<1>1. Init => PlaceHolds
  <2>1. "vmem" # "intelhex" /\ "vmem" # "memory" /\ "vmem" # "glacial"
    OBVIOUS
  <2> QED BY <2>1, PlaceInit, Zenon DEF Init, PlaceHolds
<1>2. VmemHolds /\ VmemHolds' /\ PlaceHolds /\ [Next]_vars => PlaceHolds'
  <2> SUFFICES ASSUME VmemHolds, VmemHolds', PlaceHolds, [Next]_vars PROVE PlaceHolds'
    OBVIOUS
  <2>1. CASE Next /\ tool = "vmem"
    <3>1. "vmem" # "intelhex" /\ "vmem" # "memory" /\ "vmem" # "glacial"
      OBVIOUS
    <3>2. Img!Next /\ tool' = tool
      BY <2>1, <3>1, Zenon DEF Next, OpsNext, HexWrite, HexOther, ImgNext, EncNext
    <3>3. VmemInv /\ VmemInv' /\ PlaceInv
      BY <2>1, <3>2, Zenon DEF VmemHolds, PlaceHolds
    <3> QED BY <3>2, <3>3, PlaceStep, Zenon DEF PlaceHolds
  <2>2. CASE Next /\ tool # "vmem"
    <3>1. tool' = tool
      BY <2>2, Zenon DEF Next, OpsNext, HexWrite, HexOther, HexRest, ImgNext, EncNext
    <3> QED BY <2>2, <3>1, Zenon DEF PlaceHolds
  <2>3. CASE UNCHANGED vars
    <3>1. /\ mem' = mem /\ opened' = opened /\ step' = step /\ elf' = elf /\ tool' = tool
          /\ ph_index' = ph_index /\ prog_headers' = prog_headers /\ segments' = segments
      BY <2>3, Zenon DEF vars, imgvars
    <3>2. Placed' <=> Placed
      BY <3>1, Zenon DEF Placed, PlacedSome
    <3> QED BY <3>1, <3>2, Zenon DEF PlaceHolds, PlaceInv
  <2> QED BY <2>1, <2>2, <2>3, Zenon
<1>3. VmemHolds /\ PlaceHolds => ImagePlaced
  BY PlacedIsImage, Zenon DEF VmemHolds, PlaceHolds, ImagePlaced
<1> QED BY <1>1, <1>2, <1>3, VmemInvariant, PTL DEF Spec
=============================================================================
