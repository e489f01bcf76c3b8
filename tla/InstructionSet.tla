--------------------------- MODULE InstructionSet ---------------------------
(***************************************************************************)
(* The table of microinstructions in ucode/tools/glacial.py: the forms of  *)
(* each mnemonic.  The fixed digits of an encoding give the opcode, each   *)
(* letter a field, written as the set of its bit positions in the word.    *)
(***************************************************************************)
EXTENDS Integers, Sequences, FiniteSets

OT == {"val", "imm", "mem", "ind", "postinc", "bit", "cond", "jmp"}

OperandClassByType ==
  [t \in OT |-> IF t \in {"val", "mem", "bit", "jmp"} THEN "numeric" ELSE t]

BranchCond == 0 .. 7          (* ne nz, eq z, cc ge, cs lt, nxint, xint, ... *)
IndirectReg == {0, 1}         (* x, y                                      *)

Form(types, code, fields) == [types |-> types, code |-> code, fields |-> fields]

ImmediateForm(code)     == Form(<<"imm">>, 16384 + code, [i |-> 0 .. 7])
MemForm(code)           == Form(<<"mem">>, 4096 + code, [m |-> 0 .. 7])
IndirectForm(code)      == Form(<<"ind">>, 8192 + code, [x |-> {0}])
PostincrementForm(code) == Form(<<"postinc">>, 12288 + code, [x |-> {0}])

OperationForms(code) ==
  <<ImmediateForm(code), MemForm(16384 + code),
    IndirectForm(16384 + code), PostincrementForm(16384 + code)>>

Forms ==
  [opr   |-> <<Form(<<"val">>, 0, [i |-> 0 .. 11])>>,
   store |-> <<MemForm(0), IndirectForm(0), PostincrementForm(0)>>,
   load  |-> OperationForms(0),
   and   |-> OperationForms(256),
   xor   |-> OperationForms(512),
   adc   |-> OperationForms(768),
   jump  |-> <<Form(<<"jmp">>, 32768, [j |-> 0 .. 10])>>,
   call  |-> <<Form(<<"jmp">>, 34816, [j |-> 0 .. 10])>>,
   skb   |->
     <<Form(<<"mem", "bit", "val">>, 36864, [i |-> {11}, b |-> 8 .. 10, m |-> 0 .. 7]),
       Form(<<"ind", "bit", "val">>, 40960, [i |-> {11}, b |-> 8 .. 10, x |-> {0}]),
       Form(<<"postinc", "bit", "val">>, 45056, [i |-> {11}, b |-> 8 .. 10, x |-> {0}])>>,
   br    |-> <<Form(<<"cond", "jmp">>, 49152, [c |-> 11 .. 13, j |-> 0 .. 10])>>]

Mnemonics == DOMAIN Forms

(***************************************************************************)
(* Words and their bits.  The rank of a position in a field is the bit of  *)
(* the value it holds.                                                     *)
(***************************************************************************)
Positions       == 0 .. 15
Digit(value, i) == (value \div 2 ^ i) % 2
Rank(field, p)  == Cardinality({q \in field : q < p})

WordOf(bits) ==
  LET above[p \in 0 .. 16] ==      (* the bits from position p upwards     *)
        IF p = 16 THEN 0 ELSE 2 * above[p + 1] + bits[p]
  IN  above[0]

(***************************************************************************)
(* Decoding a word                                                         *)
(***************************************************************************)
Extracted(word, field) ==
  WordOf([r \in Positions |->
            IF \E p \in field : Rank(field, p) = r
            THEN Digit(word, CHOOSE p \in field : Rank(field, p) = r) ELSE 0])

(* Mutant of ExtractField: a jump is not doubled.                          *)
ExtractFieldWords(word, form, f) == Extracted(word, form.fields[f])

ExtractField(word, form, f) ==
  (IF f = "j" THEN 2 ELSE 1) * Extracted(word, form.fields[f])

FieldBits(form) == UNION {form.fields[f] : f \in DOMAIN form.fields}

(* The entries of __inst_by_opcode for a word.                             *)
Matches(word, form) ==
  \A p \in Positions \ FieldBits(form) : Digit(word, p) = Digit(form.code, p)

Matching(word) ==
  {mf \in UNION {{m} \X DOMAIN Forms[m] : m \in Mnemonics} :
     Matches(word, Forms[mf[1]][mf[2]])}

Decoded(word) ==
  LET entry == CHOOSE mf \in Matching(word) : TRUE
      form  == Forms[entry[1]][entry[2]]
  IN  [mnem |-> entry[1], types |-> form.types,
       fields |-> [f \in DOMAIN form.fields |-> ExtractField(word, form, f)]]
=============================================================================
