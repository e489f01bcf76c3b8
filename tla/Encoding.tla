------------------------------ MODULE Encoding ------------------------------
(***************************************************************************)
(* Microinstruction encoding, ucode/tools/glacial.py: assembling an        *)
(* instruction from its operands and decoding a word.  The assembler uses  *)
(* one direction and the simulator the other.  A word is an integer of 16  *)
(* bits; a bit field is the set of its bit positions.                      *)
(***************************************************************************)
EXTENDS InstructionSet, FiniteSetsExt

CONSTANTS
  Opcodes,     (* words to decode                                          *)
  Numbers      (* integers given as operands                               *)

VARIABLES
  mnem,        (* the mnemonic asked for, or NONE                          *)
  operands,    (* its operands                                             *)
  opcode,      (* the word assembled, or given to decode; -1 for none      *)
  exc,         (* the exception raised, or "none"                          *)
  decoded      (* what decode_instruction returned                         *)

vars == <<mnem, operands, opcode, exc, decoded>>

NONE == "NONE"
NotDecoded == [mnem |-> NONE, types |-> <<>>, fields |-> <<>>]

(***************************************************************************)
(* Assembling                                                              *)
(***************************************************************************)
OperandTypesMatch(ops, types) ==
  /\ Len(ops) = Len(types)
  /\ \A i \in 1 .. Len(ops) : OperandClassByType[types[i]] = ops[i].class

FieldLetter ==
  [val |-> "i", imm |-> "i", mem |-> "m", ind |-> "x", postinc |-> "x",
   bit |-> "b", cond |-> "c", jmp |-> "j"]

AssembleOperand(op, type) ==
  IF type = "jmp" THEN op.value \div 2 ELSE op.value

AssembleOperands(ops, types) ==
  [f \in {FieldLetter[types[i]] : i \in DOMAIN ops} |->
     LET i == CHOOSE i \in DOMAIN ops : FieldLetter[types[i]] = f
     IN  AssembleOperand(ops[i], types[i])]

Fits(field, value) == value \in 0 .. 2 ^ Cardinality(field) - 1

FieldAt(form, p) == CHOOSE f \in DOMAIN form.fields : p \in form.fields[f]

(* Mutant of InsertFields: the bytes are filled from the first one on.     *)
InsertFieldsFirstByte(form, values) ==
  LET rank(field, p) == Cardinality({q \in field : (q + 8) % 16 < (p + 8) % 16})
  IN  WordOf([p \in Positions |->
                IF p \in FieldBits(form)
                THEN Digit(values[FieldAt(form, p)],
                           rank(form.fields[FieldAt(form, p)], p))
                ELSE Digit(form.code, p)])

InsertFields(form, values) ==
  WordOf([p \in Positions |->
            IF p \in FieldBits(form)
            THEN Digit(values[FieldAt(form, p)],
                       Rank(form.fields[FieldAt(form, p)], p))
            ELSE Digit(form.code, p)])

Fails(e) == exc' = e /\ UNCHANGED <<mnem, operands, opcode, decoded>>

AssembleInstruction ==
  /\ mnem # NONE /\ opcode = -1 /\ exc = "none"
  /\ IF mnem \notin Mnemonics THEN Fails("UnknownMnemonic")
     ELSE LET fit == {k \in DOMAIN Forms[mnem] :
                        OperandTypesMatch(operands, Forms[mnem][k].types)}
          IN  IF fit = {} THEN Fails("NoMatchingForm")
              ELSE LET form   == Forms[mnem][Min(fit)]
                       fields == AssembleOperands(operands, form.types)
                   IN  IF \A f \in DOMAIN form.fields :
                            f \in DOMAIN fields /\ Fits(form.fields[f], fields[f])
                       THEN /\ opcode' = InsertFields(form, fields)
                            /\ UNCHANGED <<mnem, operands, exc, decoded>>
                       ELSE Fails("AssertionError")

DecodeInstruction ==
  /\ opcode # -1 /\ decoded = NotDecoded /\ exc = "none"
  /\ IF Matching(opcode) = {} THEN Fails("BadInstruction")
     ELSE decoded' = Decoded(opcode) /\ UNCHANGED <<mnem, operands, opcode, exc>>

(***************************************************************************)
(* A line of source (the operands parse_operand of asg makes), or a word   *)
(***************************************************************************)
Operands ==
  [class : {"numeric", "imm"}, value : Numbers]
    \cup [class : {"ind", "postinc"}, value : IndirectReg]
    \cup [class : {"cond"}, value : BranchCond]

OperandLists ==
  {<<>>} \cup {<<o>> : o \in Operands}
    \cup {<<o, p>> : o \in Operands, p \in {q \in Operands : q.class = "numeric"}}
    \cup {<<o, [class |-> "numeric", value |-> b], [class |-> "numeric", value |-> i]>> :
            o \in Operands, b \in Numbers \cap (-1 .. 8), i \in Numbers \cap (0 .. 2)}

Init ==
  /\ exc = "none" /\ decoded = NotDecoded
  /\ \/ mnem = NONE /\ operands = <<>> /\ opcode \in Opcodes
     \/ mnem \in Mnemonics \cup {"nop"} /\ operands \in OperandLists /\ opcode = -1

Next == AssembleInstruction \/ DecodeInstruction

Spec == Init /\ [][Next]_vars

TypeOK ==
  /\ opcode \in -1 .. 65535
  /\ \A f \in DOMAIN decoded.fields : decoded.fields[f] \in 0 .. 4095
  /\ exc \in {"none", "UnknownMnemonic", "NoMatchingForm", "AssertionError", "BadInstruction"}

(* What the assembler wrote the simulator reads: the same mnemonic and the *)
(* operands given, a jump target without its lowest bit.                   *)
RoundTrip ==
  /\ mnem # NONE => exc # "BadInstruction"
  /\ mnem # NONE /\ decoded # NotDecoded =>
       /\ decoded.mnem = mnem /\ Len(decoded.types) = Len(operands)
       /\ \A i \in 1 .. Len(operands) :
            LET f == FieldLetter[decoded.types[i]]
            IN  /\ OperandClassByType[decoded.types[i]] = operands[i].class
                /\ decoded.fields[f] = IF f = "j" THEN 2 * (operands[i].value \div 2)
                                       ELSE operands[i].value

(* No word has two readings (the assertion of __mnemonic_table_init), and  *)
(* the fields of a word and its fixed bits are all there is in it: two     *)
(* words are never decoded alike.                                          *)
NoBitIgnored ==
  (opcode # -1 /\ decoded # NotDecoded) =>
    Cardinality(Matching(opcode)) = 1 /\ \E k \in DOMAIN Forms[decoded.mnem] :
      LET form == Forms[decoded.mnem][k]
      IN  /\ form.types = decoded.types
          /\ InsertFields(form, [f \in DOMAIN form.fields |->
               IF f = "j" THEN decoded.fields[f] \div 2 ELSE decoded.fields[f]]) = opcode

=============================================================================
