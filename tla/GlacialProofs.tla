--------------------------- MODULE GlacialProofs ----------------------------
(***************************************************************************)
(* The registers of the CPU keep to their widths, no phase of an           *)
(* instruction uses a word or an operand that is out of date, and four     *)
(* clocks of the CPU are one step of the simulator, for every program,     *)
(* every contents of the registers and the memory, and any inputs.         *)
(***************************************************************************)
EXTENDS Microarchitecture, InstructionSetLemmas, TLAPS

(***************************************************************************)
(* What each register holds, in inequalities                               *)
(***************************************************************************)
LEMMA BelowRange ==
  ASSUME NEW n \in Nat
  PROVE  \A v : v \in Below(n) <=> v \in Nat /\ v < n
BY DEF Below

LEMMA Ranges ==
  /\ \A v : v \in Byte <=> v \in Nat /\ v < 256
  /\ \A v : v \in Counter <=> v \in Nat /\ v < 2048
  /\ \A v : v \in Address <=> v \in Nat /\ v < 65536
  /\ \A v : v \in Bits <=> v = 0 \/ v = 1
BY BelowRange DEF Byte, Counter, Address, Bits

LEMMA Widths ==
  TypeOK =>
    /\ phase \in 0 .. 3 /\ pc \in Counter /\ ret \in Counter /\ ir \in Address
    /\ x \in Byte /\ y \in Address /\ ac \in Byte /\ cy \in Bits
    /\ mem_rd_data_delayed \in Byte /\ tick \in Bits /\ uart_tx \in Bits
BY DEF TypeOK

(***************************************************************************)
(* The signals of one clock                                                *)
(***************************************************************************)
LEMMA ReadType == TypeOK => mem_rd_data \in Byte
<1> SUFFICES ASSUME TypeOK PROVE mem_rd_data \in Byte
  OBVIOUS
<1>1. \A a : Contents(a) \in Byte
  <2>1. mem \in [DOMAIN mem -> Byte]
    BY DEF TypeOK
  <2> QED BY <2>1, Ranges DEF Contents
<1> QED BY <1>1, Ranges DEF mem_rd_data

LEMMA AddressType == TypeOK => mem_addr \in Address
<1> SUFFICES ASSUME TypeOK PROVE mem_addr \in Address
  OBVIOUS
<1>1. 2 * pc + phase \in Address /\ ir % 256 \in Address /\ x \in Address
  BY Widths, Ranges
<1> QED BY <1>1, Widths, Zenon DEF mem_addr

LEMMA MemoryType ==
  TypeOK => DOMAIN NewMem \subseteq Address /\ NewMem \in [DOMAIN NewMem -> Byte]
<1> SUFFICES ASSUME TypeOK PROVE DOMAIN NewMem \subseteq Address /\ NewMem \in [DOMAIN NewMem -> Byte]
  OBVIOUS
<1>1. DOMAIN mem \subseteq Address /\ mem \in [DOMAIN mem -> Byte] /\ ac \in Byte
  BY DEF TypeOK
<1>2. CASE mem_wr_en
  <2>1. NewMem = [a \in DOMAIN mem \cup {mem_addr} |-> IF a = mem_addr THEN ac ELSE mem[a]]
    BY <1>2 DEF NewMem
  <2>2. \A a \in DOMAIN mem : mem[a] \in Byte
    BY <1>1
  <2>3. DOMAIN NewMem = DOMAIN mem \cup {mem_addr}
    BY <2>1
  <2>4. NewMem \in [DOMAIN mem \cup {mem_addr} -> Byte]
    BY <2>1, <2>2, <1>1
  <2> QED BY <2>3, <2>4, <1>1, AddressType
<1>3. CASE ~mem_wr_en
  BY <1>1, <1>3 DEF NewMem
<1> QED BY <1>2, <1>3

LEMMA WordType == TypeOK => NewIr \in Address
<1> SUFFICES ASSUME TypeOK PROVE NewIr \in Address
  OBVIOUS
<1>1. 256 * mem_rd_data + (ir % 256) \in Address /\ 256 * (ir \div 256) + mem_rd_data \in Address
  BY Widths, ReadType, Ranges
<1> QED BY <1>1, Widths, Zenon DEF NewIr

LEMMA CounterType == TypeOK => NewPhase \in 0 .. 3 /\ NewPc \in Counter /\ NewRet \in Counter
<1> SUFFICES ASSUME TypeOK PROVE NewPhase \in 0 .. 3 /\ NewPc \in Counter /\ NewRet \in Counter
  OBVIOUS
<1>1. (phase + 1) % 4 \in 0 .. 3 /\ 0 \in 0 .. 3 /\ 0 \in Counter
  BY Widths, Ranges
<1>2. (pc + 1) % 2048 \in Counter /\ (pc + ac) % 2048 \in Counter /\ ir % 2048 \in Counter
  BY Widths, Ranges
<1>3. NewPhase \in 0 .. 3
  BY <1>1, Zenon DEF NewPhase
<1>4. NewPc \in Counter
  <2>1. pc \in Counter /\ ret \in Counter
    BY Widths
  <2>2. pc_sel \in {"hold", "inc", "add_a", "return", "branch"}
    BY Zenon DEF pc_sel
  <2> QED BY <1>1, <1>2, <2>1, <2>2, SMT DEF NewPc
<1>5. NewRet \in Counter
  BY Widths, Zenon DEF NewRet
<1> QED BY <1>3, <1>4, <1>5

LEMMA PointerType == TypeOK => NewX \in Byte /\ NewY \in Address
<1> SUFFICES ASSUME TypeOK PROVE NewX \in Byte /\ NewY \in Address
  OBVIOUS
<1>1. (x + 1) % 256 \in Byte /\ (y + 1) % 65536 \in Address
  BY Widths, Ranges
<1>2. 256 * ac + y \div 256 \in Address
  BY Widths, Ranges
<1> QED BY <1>1, <1>2, Widths, SMT DEF NewX, NewY

(* The sum of two bytes and a carry is a byte and a carry.                 *)
LEMMA AluType == TypeOK => alu_out \in Byte /\ alu_cy_out \in Bits
<1> SUFFICES ASSUME TypeOK PROVE alu_out \in Byte /\ alu_cy_out \in Bits
  OBVIOUS
<1>1. ir % 256 \in Byte
  BY Widths, Ranges
<1>2. alu_b \in Byte
  BY <1>1, Widths, Zenon DEF alu_b
<1>3. sum \in Nat /\ sum < 512
  BY <1>2, Widths, Ranges DEF sum
<1>4. sum % 256 \in Byte /\ sum \div 256 \in Bits
  BY <1>3, Ranges
<1>5. And(ac, alu_b) \in Byte /\ Xor(ac, alu_b) \in Byte
  BY <1>2, Widths, AndXorAssumption
<1>6. alu_out \in Byte
  BY <1>2, <1>4, <1>5, Zenon DEF alu_out
<1>7. alu_cy_out \in Bits
  BY <1>4, Widths, Zenon DEF alu_cy_out
<1> QED BY <1>6, <1>7

LEMMA RotateType == TypeOK => rotate_out \in Byte /\ rotate_cout \in Bits
<1> SUFFICES ASSUME TypeOK PROVE rotate_out \in Byte /\ rotate_cout \in Bits
  OBVIOUS
<1>1. 128 * cy + ac \div 2 \in Byte /\ ((2 * ac) % 256) + cy \in Byte
  BY Widths, Ranges
<1>2. ac % 2 \in Bits /\ ac \div 128 \in Bits
  BY Widths, Ranges
<1> QED BY <1>1, <1>2, Zenon DEF rotate_out, rotate_cout

LEMMA AccumulatorType == TypeOK => NewAc \in Byte /\ NewCy \in Bits
<1> SUFFICES ASSUME TypeOK PROVE NewAc \in Byte /\ NewCy \in Bits
  OBVIOUS
<1>1. (ir \div 4) % 2 \in Bits
  BY Widths, Ranges
<1> QED BY <1>1, Widths, AluType, RotateType, Zenon DEF NewAc, NewCy

LEMMA LineType == TypeOK => NewTick \in Bits /\ NewUartTx \in Bits
<1> SUFFICES ASSUME TypeOK PROVE NewTick \in Bits /\ NewUartTx \in Bits
  OBVIOUS
<1>1. ac % 2 \in Bits /\ 0 \in Bits /\ 1 \in Bits
  BY Widths, Ranges
<1> QED BY <1>1, Widths, Zenon DEF NewTick, NewUartTx

(* The inputs are those of a start.                                        *)
LEMMA InputsType == TypeOK => in \in [xint : Bits, xtick : Bits, reset : BOOLEAN]
BY DEF TypeOK

-----------------------------------------------------------------------------
(***************************************************************************)
(* Every register keeps to its width (TypeOK), whatever a program computes *)
(* and whenever the reset comes.                                           *)
(***************************************************************************)
THEOREM TypeCorrect == Spec => []TypeOK
<1>1. Init => TypeOK
  <2> SUFFICES ASSUME NEW s \in Starts, Init, 
        phase = 0 /\ pc = 0 /\ tick = 0 /\ uart_tx = 1,
        ret = s.ret /\ ir = s.ir /\ x = s.x /\ y = s.y /\ ac = s.ac /\ cy = s.cy,
        prev_xtick \in {i.xtick : i \in s.inputs} /\ mem_rd_data_delayed = 0,
        mem = s.mem /\ inputs = s.inputs /\ in \in s.inputs,
        begun = [pc |-> 0, cy |-> s.cy] /\ executed = 0
      PROVE TypeOK
    BY DEF Init
  <2>1. IsStart(s)
    BY StartsAssumption
  <2>2. prev_xtick \in Bits
    BY <2>1 DEF IsStart
  <2> QED BY <2>1, <2>2, Ranges DEF TypeOK, IsStart
<1>2. TypeOK /\ [Clock]_vars => TypeOK'
  <2> SUFFICES ASSUME TypeOK, [Clock]_vars PROVE TypeOK'
    OBVIOUS
  <2>1. CASE Clock
    <3>1. (phase \in 0 .. 3 /\ pc \in Counter /\ ret \in Counter)'
      BY <2>1, CounterType DEF Clock
    <3>2. (ir \in Address)'
      BY <2>1, WordType DEF Clock
    <3>3. (x \in Byte /\ y \in Address /\ ac \in Byte /\ cy \in Bits)'
      BY <2>1, PointerType, AccumulatorType DEF Clock
    <3>4. (prev_xtick \in Bits /\ tick \in Bits /\ uart_tx \in Bits)'
      BY <2>1, InputsType, LineType DEF Clock
    <3>5. (mem_rd_data_delayed \in Byte)'
      BY <2>1, ReadType DEF Clock
    <3>6. (DOMAIN mem \subseteq Address /\ mem \in [DOMAIN mem -> Byte])'
      BY <2>1, MemoryType DEF Clock
    <3>7. (inputs \subseteq [xint : Bits, xtick : Bits, reset : BOOLEAN] /\ in \in inputs)'
      BY <2>1 DEF Clock, TypeOK
    <3>8. (begun \in [pc : Counter, cy : Bits])'
      BY <2>1, <3>1, <3>3 DEF Clock, TypeOK
    <3>9. (executed \in Nat)'
      BY <2>1 DEF Clock, TypeOK
    <3> QED BY <3>1, <3>2, <3>3, <3>4, <3>5, <3>6, <3>7, <3>8, <3>9 DEF TypeOK
  <2>2. CASE UNCHANGED vars
    BY <2>2 DEF TypeOK, vars, registers
  <2> QED BY <2>1, <2>2
<1> QED BY <1>1, <1>2, PTL DEF Spec

-----------------------------------------------------------------------------
(***************************************************************************)
(* The phases.  InFlight speaks of the address at which the instruction    *)
(* began; until the counter is advanced, in phase 1, it is pc.             *)
(***************************************************************************)
StillAtStart == phase < 2 => begun.pc = pc

FlightInv == InFlight /\ StillAtStart

LEMMA FetchFirst ==
  ASSUME TypeOK, FlightInv, Clock, phase = 0, ~in.reset
  PROVE  FlightInv'
<1>1. phase # 1 /\ phase # 2 /\ phase # 3 /\ phase < 2
  OBVIOUS
<1>2. pc_sel = "hold" /\ ~mem_wr_en /\ mem_rd_en
  <2>1. ~(phase = 1) /\ ~(phase = 2 /\ Opr(6)) /\ ~(phase = 3 /\ Opr(7)) /\ ~(phase = 3 /\ major = 8)
    BY <1>1
  <2>2. ~(phase = 3 /\ major \in 9 .. 11) /\ ~(phase = 3 /\ major \in 12 .. 15)
    BY <1>1
  <2>3. pc_sel = "hold"
    BY <2>1, <2>2, Zenon DEF pc_sel
  <2> QED BY <1>1, <2>3 DEF mem_wr_en, mem_rd_en
<1>3. pc' = pc
  BY <1>2, SMT DEF Clock, NewPc
<1>4. phase' = 1 /\ mem' = mem
  BY <1>2 DEF Clock, NewPhase, NewMem
<1>5. begun' = begun
  BY <1>4 DEF Clock
<1>6. mem_rd_data = Contents(2 * pc)
  BY <1>1, <1>2, Widths, Ranges DEF mem_rd_data, mem_addr
<1>7. ir' = 256 * mem_rd_data + (ir % 256)
  BY <1>1, Zenon DEF Clock, NewIr
<1>8. ir' \div 256 = mem_rd_data
  BY <1>7, ReadType, Widths, Ranges
<1>9. begun.pc = pc
  BY <1>1 DEF FlightInv, StillAtStart
<1>10. (ir \div 256 = Contents(2 * begun.pc))'
  BY <1>3, <1>4, <1>5, <1>6, <1>8, <1>9 DEF Contents
<1> QED BY <1>3, <1>4, <1>5, <1>9, <1>10 DEF FlightInv, InFlight, StillAtStart

LEMMA FetchSecond ==
  ASSUME TypeOK, FlightInv, Clock, phase = 1, ~in.reset
  PROVE  FlightInv'
<1>1. phase # 0 /\ phase # 2 /\ phase # 3 /\ phase < 2 /\ phase >= 1
  OBVIOUS
<1>2. ~mem_wr_en /\ mem_rd_en
  BY <1>1 DEF mem_wr_en, mem_rd_en
<1>3. phase' = 2 /\ mem' = mem
  BY <1>2 DEF Clock, NewPhase, NewMem
<1>4. begun' = begun
  BY <1>3 DEF Clock
<1>5. mem_rd_data = Contents(2 * pc + 1)
  BY <1>1, <1>2 DEF mem_rd_data, mem_addr
<1>6. ir' = 256 * (ir \div 256) + mem_rd_data
  BY <1>1, Zenon DEF Clock, NewIr
<1>7. ir' \div 256 = ir \div 256 /\ ir' % 256 = mem_rd_data
  BY <1>6, ReadType, Widths, Ranges
<1>8. begun.pc = pc /\ ir \div 256 = Contents(2 * begun.pc)
  BY <1>1 DEF FlightInv, InFlight, StillAtStart
<1>9. (ir \div 256 = Contents(2 * begun.pc) /\ ir % 256 = Contents(2 * begun.pc + 1))'
  BY <1>3, <1>4, <1>5, <1>7, <1>8 DEF Contents
<1> QED BY <1>3, <1>9 DEF FlightInv, InFlight, StillAtStart

(* No register that selects the address of the operand changes here.       *)
LEMMA ReadOperand ==
  ASSUME TypeOK, FlightInv, Clock, phase = 2, ~in.reset
  PROVE  FlightInv'
<1>1. phase # 0 /\ phase # 1 /\ phase # 3 /\ ~(phase < 2) /\ phase >= 1 /\ phase >= 2
  OBVIOUS
<1>2. ~mem_wr_en /\ mem_rd_en
  BY <1>1 DEF mem_wr_en, mem_rd_en
<1>3. phase' = 3 /\ mem' = mem
  BY <1>2 DEF Clock, NewPhase, NewMem
<1>4. begun' = begun
  BY <1>3 DEF Clock
<1>5. ir' = ir
  BY <1>1, Zenon DEF Clock, NewIr
<1>6. x' = x /\ y' = y
  BY <1>1 DEF Clock, NewX, NewY, postinc
<1>7. ~(phase' < 2)
  BY <1>3
<1>8. mem_addr' = mem_addr
  BY <1>1, <1>5, <1>6, <1>7 DEF mem_addr, Bit
<1>9. mem_rd_data_delayed' = Contents(mem_addr)
  BY <1>2 DEF Clock, mem_rd_data
<1>10. ir \div 256 = Contents(2 * begun.pc) /\ ir % 256 = Contents(2 * begun.pc + 1)
  BY <1>1 DEF FlightInv, InFlight
<1>11. (ir \div 256 = Contents(2 * begun.pc) /\ ir % 256 = Contents(2 * begun.pc + 1))'
  BY <1>3, <1>4, <1>5, <1>10 DEF Contents
<1>12. (mem_rd_data_delayed = Contents(mem_addr))'
  BY <1>3, <1>8, <1>9 DEF Contents
<1> QED BY <1>3, <1>7, <1>11, <1>12 DEF FlightInv, InFlight, StillAtStart

LEMMA Finish ==
  ASSUME TypeOK, Clock, phase = 3 \/ in.reset
  PROVE  FlightInv'
<1>1. phase' = 0
  BY DEF Clock, NewPhase
<1>2. begun'.pc = pc'
  BY <1>1 DEF Clock
<1> QED BY <1>1, <1>2 DEF FlightInv, InFlight, StillAtStart

(***************************************************************************)
(* The word in ir, and in the last phase the operand, are those the memory *)
(* holds (InFlight), for every program, also one that stores into itself.  *)
(***************************************************************************)
THEOREM FlightIsCurrent == Spec => []InFlight
<1>1. Init => FlightInv
  BY DEF Init, FlightInv, InFlight, StillAtStart
<1>2. TypeOK /\ FlightInv /\ [Clock]_vars => FlightInv'
  <2> SUFFICES ASSUME TypeOK, FlightInv, [Clock]_vars PROVE FlightInv'
    OBVIOUS
  <2>1. CASE Clock
    <3>1. phase \in {0, 1, 2, 3}
      BY Widths
    <3> QED BY <2>1, <3>1, FetchFirst, FetchSecond, ReadOperand, Finish
  <2>2. CASE UNCHANGED vars
    BY <2>2 DEF FlightInv, InFlight, StillAtStart, mem_addr, Contents, Bit, vars, registers
  <2> QED BY <2>1, <2>2
<1>3. FlightInv => InFlight
  BY DEF FlightInv
<1> QED BY <1>1, <1>2, <1>3, TypeCorrect, PTL DEF Spec
-----------------------------------------------------------------------------
(***************************************************************************)
(* The simulator.  Its operators are those of InstructionSet under the     *)
(* name of the instance: it decodes with the same table.                   *)
(***************************************************************************)
LEMMA SimDigit == \A v, i : Sim!Digit(v, i) = Digit(v, i)
BY Zenon DEF Sim!Digit, Digit

LEMMA SimExtracted == \A w, f : Sim!Extracted(w, f) = Extracted(w, f)
BY Zenon DEF Sim!Extracted, Extracted, Sim!WordOf, WordOf, Sim!Rank, Rank, Sim!Cardinality, Cardinality, Sim!Digit, Digit, Sim!Positions, Positions

LEMMA SimForms == Sim!Forms = Forms
<1>1. \A types, code, fields : Sim!Form(types, code, fields) = Form(types, code, fields)
  BY DEF Sim!Form, Form
<1>2. \A code : /\ Sim!ImmediateForm(code) = ImmediateForm(code)
                /\ Sim!MemForm(code) = MemForm(code)
                /\ Sim!IndirectForm(code) = IndirectForm(code)
                /\ Sim!PostincrementForm(code) = PostincrementForm(code)
  BY <1>1 DEF Sim!ImmediateForm, ImmediateForm, Sim!MemForm, MemForm, Sim!IndirectForm,
              IndirectForm, Sim!PostincrementForm, PostincrementForm
<1>3. \A code : Sim!OperationForms(code) = OperationForms(code)
  BY <1>2 DEF Sim!OperationForms, OperationForms
<1> QED BY <1>1, <1>2, <1>3 DEF Sim!Forms, Forms

LEMMA SimMatching == \A w : Sim!Matching(w) = Matching(w)
<1>1. \A w, form : Sim!Matches(w, form) <=> Matches(w, form)
  BY Zenon DEF Sim!Matches, Matches, Sim!FieldBits, FieldBits, Sim!Digit, Digit, Sim!Positions, Positions
<1>2. Sim!Mnemonics = Mnemonics
  BY SimForms, Zenon DEF Sim!Mnemonics, Mnemonics
<1> SUFFICES ASSUME NEW w PROVE Sim!Matching(w) = Matching(w)
  OBVIOUS
<1> DEFINE entries == UNION {{m} \X DOMAIN Forms[m] : m \in Mnemonics}
<1>3. Sim!Matching(w) = {mf \in entries : Sim!Matches(w, Forms[mf[1]][mf[2]])}
  BY <1>2, SimForms, Zenon DEF Sim!Matching
<1>4. Matching(w) = {mf \in entries : Matches(w, Forms[mf[1]][mf[2]])}
  BY Zenon DEF Matching
<1> HIDE DEF entries
<1>5. \A mf : mf \in Sim!Matching(w) <=> mf \in Matching(w)
  <2> TAKE mf
  <2>1. Sim!Matches(w, Forms[mf[1]][mf[2]]) <=> Matches(w, Forms[mf[1]][mf[2]])
    BY <1>1
  <2>2. mf \in Sim!Matching(w) <=> mf \in entries /\ Sim!Matches(w, Forms[mf[1]][mf[2]])
    BY <1>3, Zenon
  <2>3. mf \in Matching(w) <=> mf \in entries /\ Matches(w, Forms[mf[1]][mf[2]])
    BY <1>4, Zenon
  <2> QED BY <2>1, <2>2, <2>3, Zenon
<1> QED BY <1>5, SameSet, Zenon

LEMMA SimDecoded == \A w : Sim!Decoded(w) = Decoded(w)
<1>1. \A w, form, f : Sim!ExtractField(w, form, f) = ExtractField(w, form, f)
  BY SimExtracted, Zenon DEF Sim!ExtractField, ExtractField
<1> SUFFICES ASSUME NEW w PROVE Sim!Decoded(w) = Decoded(w)
  OBVIOUS
<1> DEFINE simEntry == CHOOSE mf \in Sim!Matching(w) : TRUE
           entry == CHOOSE mf \in Matching(w) : TRUE
           form  == Forms[entry[1]][entry[2]]
<1>a. Sim!Decoded(w) =
        LET f0 == Sim!Forms[simEntry[1]][simEntry[2]]
        IN  [mnem |-> simEntry[1], types |-> f0.types,
             fields |-> [f \in DOMAIN f0.fields |-> Sim!ExtractField(w, f0, f)]]
  BY Zenon DEF Sim!Decoded
<1>b. simEntry = entry
  BY SimMatching, SameChoice, Zenon
<1> HIDE DEF simEntry
<1>2. Sim!Decoded(w) =
        [mnem |-> entry[1], types |-> form.types,
         fields |-> [f \in DOMAIN form.fields |-> Sim!ExtractField(w, form, f)]]
  BY <1>a, <1>b, SimForms
<1>3. Decoded(w) =
        [mnem |-> entry[1], types |-> form.types,
         fields |-> [f \in DOMAIN form.fields |-> ExtractField(w, form, f)]]
  BY Zenon DEF Decoded
<1> HIDE DEF entry, form
<1>4. [f \in DOMAIN form.fields |-> Sim!ExtractField(w, form, f)] =
        [f \in DOMAIN form.fields |-> ExtractField(w, form, f)]
  BY <1>1
<1> QED BY <1>2, <1>3, <1>4, Zenon

(***************************************************************************)
(* What the simulator sees of the registers                                *)
(***************************************************************************)
LEMMA SimMemory ==
  /\ \A a : Sim!Peek(a) = Contents(a)
  /\ \A a, v : Sim!Poke(a, v) <=>
       mem' = [b \in DOMAIN mem \cup {a} |-> IF b = a THEN v ELSE mem[b]]
BY Zenon DEF Sim!Peek, Contents, Sim!Poke

(* The carry and the counter move on before the last phase.                *)
MovedOn ==
  /\ phase < 3 => cy = begun.cy
  /\ phase < 2 => pc = begun.pc
  /\ phase = 2 => pc = (begun.pc + 1) % 2048
  /\ phase = 3 => /\ pc = IF Opr(6) THEN ret ELSE (begun.pc + 1) % 2048
                  /\ cy = IF Opr(3) THEN (ir \div 4) % 2 ELSE begun.cy

LEMMA EarlyPhase ==
  ASSUME TypeOK, Clock, phase # 3, ~in.reset
  PROVE  /\ phase' = phase + 1 /\ begun' = begun /\ mem' = mem /\ ret' = ret
         /\ x' = x /\ y' = y /\ ac' = ac /\ uart_tx' = uart_tx
         /\ tick' \in {tick, 1} /\ in'.xint \in {0, 1}
<1>1. phase \in {0, 1, 2}
  BY Widths
<1>2. phase' = phase + 1
  BY <1>1 DEF Clock, NewPhase
<1>3. begun' = begun
  BY <1>1, <1>2 DEF Clock
<1>4. mem' = mem
  BY DEF Clock, NewMem, mem_wr_en
<1>5. ret' = ret /\ x' = x /\ y' = y /\ ac' = ac /\ uart_tx' = uart_tx
  BY DEF Clock, NewRet, NewX, NewY, postinc, NewAc, computes, rotates, NewUartTx
<1>6. tick' \in {tick, 1}
  BY Zenon DEF Clock, NewTick, clr_tick
<1>7. in'.xint \in {0, 1}
  <2>1. in' \in [xint : Bits, xtick : Bits, reset : BOOLEAN]
    BY DEF Clock, TypeOK
  <2> QED BY <2>1 DEF Bits
<1> QED BY <1>2, <1>3, <1>4, <1>5, <1>6, <1>7

LEMMA MovesOn ==
  ASSUME TypeOK, MovedOn, Clock
  PROVE  MovedOn'
<1>1. CASE phase = 3 \/ in.reset
  <2>1. phase' = 0
    BY <1>1 DEF Clock, NewPhase
  <2>2. begun'.pc = pc' /\ begun'.cy = cy'
    BY <2>1 DEF Clock
  <2> QED BY <2>1, <2>2 DEF MovedOn
<1>2. CASE phase = 0 /\ ~in.reset
  <2>1. phase' = 1 /\ begun' = begun
    BY <1>2, EarlyPhase
  <2>2. pc_sel = "hold"
    BY <1>2 DEF pc_sel
  <2>3. pc' = pc
    BY <1>2, <2>2, SMT DEF Clock, NewPc
  <2>4. cy' = cy
    BY <1>2 DEF Clock, NewCy, computes, rotates
  <2>5. pc = begun.pc /\ cy = begun.cy
    BY <1>2 DEF MovedOn
  <2> QED BY <2>1, <2>3, <2>4, <2>5 DEF MovedOn
<1>3. CASE phase = 1 /\ ~in.reset
  <2>1. phase' = 2 /\ begun' = begun
    BY <1>3, EarlyPhase
  <2>2. pc_sel = "inc"
    BY <1>3 DEF pc_sel
  <2>3. pc' = (pc + 1) % 2048
    BY <1>3, <2>2, SMT DEF Clock, NewPc
  <2>4. cy' = cy
    BY <1>3 DEF Clock, NewCy, computes, rotates
  <2>5. pc = begun.pc /\ cy = begun.cy
    BY <1>3 DEF MovedOn
  <2> QED BY <2>1, <2>3, <2>4, <2>5 DEF MovedOn
<1>4. CASE phase = 2 /\ ~in.reset
  <2>1. phase' = 3 /\ begun' = begun /\ ret' = ret
    BY <1>4, EarlyPhase
  <2>2. ir' = ir
    <3>1. phase # 0 /\ phase # 1
      BY <1>4
    <3> QED BY <3>1, Zenon DEF Clock, NewIr
  <2>3. pc' = IF Opr(6) THEN ret ELSE pc
    <3>1. pc_sel = IF Opr(6) THEN "return" ELSE "hold"
      BY <1>4 DEF pc_sel
    <3> QED BY <1>4, <3>1, SMT DEF Clock, NewPc
  <2>4. cy' = IF Opr(3) THEN (ir \div 4) % 2 ELSE cy
    BY <1>4 DEF Clock, NewCy, computes, rotates
  <2>5. pc = (begun.pc + 1) % 2048 /\ cy = begun.cy
    BY <1>4 DEF MovedOn
  <2>6. (Opr(6)' <=> Opr(6)) /\ (Opr(3)' <=> Opr(3))
    BY <2>2 DEF Opr, inst_opr, major, Bit
  <2> QED BY <2>1, <2>2, <2>3, <2>4, <2>5, <2>6 DEF MovedOn
<1> QED BY <1>1, <1>2, <1>3, <1>4, Widths

(* No phase but the last changes what the simulator has.                   *)
LEMMA EarlyStep ==
  ASSUME TypeOK, Clock, phase # 3, ~in.reset
  PROVE  Sim!Outside
BY EarlyPhase DEF Sim!Outside, Sim!Signals, Sim!registers

(***************************************************************************)
(* The last phase                                                          *)
(***************************************************************************)
LastClock ==
  /\ TypeOK /\ InFlight /\ MovedOn /\ Clock
  /\ phase = 3 /\ ~in.reset /\ Described

(* The word in memory is the one in ir, and the simulator knows it.        *)
LEMMA WordFetched ==
  ASSUME LastClock
  PROVE  /\ 256 * Sim!Peek(2 * begun.pc) + Sim!Peek(2 * begun.pc + 1) = ir
         /\ 2 * begun.pc + 1 < Sim!MemSize
         /\ ir \in Words16 /\ Matching(ir) # {} /\ Sim!Matching(ir) # {}
         /\ Sim!Decoded(ir) = Decoded(ir)
<1>1. ir \in Words16 /\ begun.pc \in Nat /\ begun.pc < 2048
  BY Widths, Ranges DEF LastClock, Words16, TypeOK
<1>2. ir \div 256 = Contents(2 * begun.pc) /\ ir % 256 = Contents(2 * begun.pc + 1)
  BY DEF LastClock, InFlight
<1>3. 256 * Contents(2 * begun.pc) + Contents(2 * begun.pc + 1) = ir
  BY <1>1, <1>2 DEF Words16
<1>4. 256 * Sim!Peek(2 * begun.pc) + Sim!Peek(2 * begun.pc + 1) = ir
  BY <1>3, SimMemory
<1>5. 2 * begun.pc + 1 < Sim!MemSize
  BY <1>1 DEF Sim!MemSize
<1>6. Sim!Matching(ir) # {}
  BY DEF LastClock, Described
<1> QED BY <1>1, <1>4, <1>5, <1>6, SimMatching, SimDecoded

LEMMA AtEnd ==
  ASSUME LastClock
  PROVE  /\ begun' = [pc |-> pc', cy |-> cy'] /\ in'.xint \in {0, 1}
         /\ begun.pc \in Nat /\ begun.pc < 2047
         /\ pc = IF Opr(6) THEN ret ELSE begun.pc + 1
         /\ cy = IF Opr(3) THEN (ir \div 4) % 2 ELSE begun.cy
         /\ tick' = 0 \/ tick' \in {tick, 1}
         /\ Opr(9) => tick' = 0
         /\ ~Opr(9) => tick' \in {tick, 1}
<1>1. phase' = 0
  BY DEF LastClock, Clock, NewPhase
<1>2. begun' = [pc |-> pc', cy |-> cy']
  BY <1>1 DEF LastClock, Clock
<1>3. in'.xint \in {0, 1}
  <2>1. in' \in [xint : Bits, xtick : Bits, reset : BOOLEAN]
    BY DEF LastClock, Clock, TypeOK
  <2> QED BY <2>1 DEF Bits
<1>4. begun.pc \in Nat /\ begun.pc < 2047
  BY Ranges DEF LastClock, Described, TypeOK
<1>5. /\ pc = IF Opr(6) THEN ret ELSE (begun.pc + 1) % 2048
      /\ cy = IF Opr(3) THEN (ir \div 4) % 2 ELSE begun.cy
  BY DEF LastClock, MovedOn
<1>6. (begun.pc + 1) % 2048 = begun.pc + 1
  BY <1>4
<1>7. (Opr(9) => tick' = 0) /\ (~Opr(9) => tick' \in {tick, 1})
  BY DEF LastClock, Clock, NewTick, clr_tick
<1> QED BY <1>2, <1>3, <1>4, <1>5, <1>6, <1>7

(* An instruction that is no opr.                                          *)
LEMMA NoOpr ==
  ASSUME LastClock, major # 0
  PROVE  /\ \A i : ~Opr(i)
         /\ pc = begun.pc + 1 /\ cy = begun.cy /\ uart_tx' = uart_tx
         /\ Sim!Signals
         /\ x' = IF postinc /\ Bit(ir, 0) = 0 THEN (x + 1) % 256 ELSE x
         /\ y' = IF postinc /\ Bit(ir, 0) = 1 THEN (y + 1) % 65536 ELSE y
         /\ ac' = IF computes THEN alu_out ELSE ac
         /\ cy' = IF computes THEN alu_cy_out ELSE cy
<1>1. \A i : ~Opr(i)
  BY DEF Opr, inst_opr
<1>2. pc = begun.pc + 1 /\ cy = begun.cy
  BY <1>1, AtEnd
<1>3. uart_tx' = uart_tx
  BY <1>1 DEF LastClock, Clock, NewUartTx
<1>4. Sim!Signals
  BY <1>1, AtEnd DEF Sim!Signals
<1>5. /\ x' = IF postinc /\ Bit(ir, 0) = 0 THEN (x + 1) % 256 ELSE x
      /\ y' = IF postinc /\ Bit(ir, 0) = 1 THEN (y + 1) % 65536 ELSE y
  BY <1>1 DEF LastClock, Clock, NewX, NewY
<1>6. /\ ac' = IF computes THEN alu_out ELSE ac
      /\ cy' = IF computes THEN alu_cy_out ELSE cy
  BY <1>1 DEF LastClock, Clock, NewAc, NewCy, rotates
<1> QED BY <1>1, <1>2, <1>3, <1>4, <1>5, <1>6

(* The operand.                                                            *)
LEMMA OperandSeen ==
  ASSUME LastClock, major \in 1 .. 11, major # 8, DecodedOperand(ir, mode)
  PROVE  /\ mode # 0 => Sim!OperandAddress(Decoded(ir)) = mem_addr
         /\ Sim!Operand(Decoded(ir)) = alu_b /\ Sim!Readable(Decoded(ir))
         /\ mode # 0 => mem_addr < Sim!MemSize
         /\ Sim!Postinc(Decoded(ir))
<1> DEFINE d == Decoded(ir)
<1>1. mode \in 0 .. 3 /\ ir \in Nat /\ ir < 65536
  BY Widths, Ranges DEF LastClock, mode, major
<1>2. /\ d.types[1] = TypeOfMode(mode)
      /\ mode = 0 => d.fields["i"] = ir % 256
      /\ mode = 1 => d.fields["m"] = ir % 256
      /\ mode >= 2 => d.fields["x"] = ir % 2
  BY DEF DecodedOperand
<1> HIDE DEF d
<1>3. /\ mode = 0 \/ mode = 1 => Bit(ir, 13) = 0
      /\ mode = 2 \/ mode = 3 => Bit(ir, 13) = 1
      /\ Bit(ir, 0) = ir % 2
  <2>1. Bit(ir, 13) = (ir \div 8192) % 2 /\ Bit(ir, 0) = ir % 2
    BY <1>1 DEF Bit
  <2>2. mode = (ir \div 4096) % 4
    BY DEF mode, major
  <2> QED BY <1>1, <2>1, <2>2
<1>4. phase = 3 /\ ~(phase < 2)
  BY DEF LastClock
<1>5. /\ mode = 1 => mem_addr = ir % 256
      /\ mode >= 2 => mem_addr = IF ir % 2 = 0 THEN x ELSE y
  <2>1. mem_addr = IF Bit(ir, 13) = 0 THEN ir % 256 ELSE IF Bit(ir, 0) = 0 THEN x ELSE y
    BY <1>4, Zenon DEF mem_addr
  <2>2. CASE mode = 0 \/ mode = 1
    BY <1>3, <2>1, <2>2
  <2>3. CASE mode = 2 \/ mode = 3
    BY <1>3, <2>1, <2>3
  <2> QED BY <1>1, <2>2, <2>3
<1>6. mode # 0 => Sim!OperandAddress(d) = mem_addr
  <2>1. CASE mode = 1
    BY <2>1, <1>2, <1>5 DEF Sim!OperandAddress, TypeOfMode
  <2>2. CASE mode >= 2
    BY <2>2, <1>1, <1>2, <1>5 DEF Sim!OperandAddress, TypeOfMode, Sim!Ind
  <2> QED BY <1>1, <2>1, <2>2
<1>7. mem_rd_data_delayed = Contents(mem_addr)
  BY DEF LastClock, InFlight
<1>8. mem_addr < Sim!MemSize
  BY AddressType, Ranges DEF LastClock, Sim!MemSize
<1>9. Sim!Operand(d) = alu_b
  BY <1>1, <1>2, <1>6, <1>7, SimMemory DEF Sim!Operand, alu_b, TypeOfMode
<1>10. Sim!Readable(d)
  BY <1>1, <1>2, <1>6, <1>8 DEF Sim!Readable, TypeOfMode
<1>11. Sim!Postinc(d)
  <2>1. /\ x' = IF postinc /\ Bit(ir, 0) = 0 THEN (x + 1) % 256 ELSE x
        /\ y' = IF postinc /\ Bit(ir, 0) = 1 THEN (y + 1) % 65536 ELSE y
    BY NoOpr
  <2>2. postinc <=> mode = 3
    <3>1. ir < 49152
      BY <1>1 DEF major
    <3> QED BY <1>4, <3>1 DEF postinc
  <2>3. postinc /\ Bit(ir, 0) = 1 => y < 65535
    BY DEF LastClock, Described
  <2>4. y \in Nat /\ y < 65536
    BY Widths, Ranges DEF LastClock
  <2>5. CASE mode # 3
    BY <1>1, <1>2, <2>1, <2>2, <2>5 DEF Sim!Postinc, TypeOfMode
  <2>6. CASE mode = 3 /\ ir % 2 = 0
    BY <1>2, <1>3, <2>1, <2>2, <2>6 DEF Sim!Postinc, TypeOfMode
  <2>7. CASE mode = 3 /\ ir % 2 # 0
    <3>1. ir % 2 = 1
      BY <1>1, <2>7
    <3>2. (y + 1) % 65536 = y + 1
      BY <1>3, <2>2, <2>3, <2>4, <2>7, <3>1
    <3> QED BY <1>2, <1>3, <2>1, <2>2, <2>7, <3>1, <3>2 DEF Sim!Postinc, TypeOfMode
  <2> QED BY <2>5, <2>6, <2>7
<1> QED BY <1>6, <1>8, <1>9, <1>10, <1>11 DEF d

LEMMA MajorFacts ==
  ASSUME LastClock
  PROVE  /\ major \in 0 .. 15 /\ mode = major % 4 /\ major = ir \div 4096
         /\ mem_wr_en <=> major \in 1 .. 3
         /\ computes <=> major \in 4 .. 7
         /\ ~mem_wr_en => mem' = mem
         /\ ret' = IF major = 8 /\ Bit(ir, 11) = 1 THEN pc ELSE ret
<1>1. ir \in Nat /\ ir < 65536 /\ phase = 3
  BY Widths, Ranges DEF LastClock
<1>2. major \in 0 .. 15 /\ mode = major % 4 /\ major = ir \div 4096
  BY <1>1 DEF major, mode
<1>3. ir < 16384 <=> major < 4
  BY <1>1 DEF major
<1>4. mem_wr_en <=> major \in 1 .. 3
  BY <1>1, <1>2, <1>3 DEF mem_wr_en
<1>5. ir \div 16384 = 1 <=> major \in 4 .. 7
  BY <1>1 DEF major
<1>6. computes <=> major \in 4 .. 7
  BY <1>1, <1>5 DEF computes
<1>7. ~mem_wr_en => mem' = mem
  BY DEF LastClock, Clock, NewMem
<1>8. ret' = IF major = 8 /\ Bit(ir, 11) = 1 THEN pc ELSE ret
  BY <1>1 DEF LastClock, Clock, NewRet
<1> QED BY <1>2, <1>4, <1>6, <1>7, <1>8

LEMMA StoreStep ==
  ASSUME LastClock, major \in 1 .. 3
  PROVE  Sim!InstStore(Decoded(ir))
<1>1. ir \in Words16 /\ Matching(ir) # {}
  BY WordFetched
<1>2. mode = major
  BY MajorFacts
<1>3. Decoded(ir).mnem = "store" /\ DecodedOperand(ir, mode)
  BY <1>1, <1>2, DecodedStore, MajorFacts
<1>4. /\ Sim!OperandAddress(Decoded(ir)) = mem_addr /\ mem_addr < Sim!MemSize
      /\ Sim!Postinc(Decoded(ir))
  BY <1>2, <1>3, OperandSeen
<1>5. mem' = [a \in DOMAIN mem \cup {mem_addr} |-> IF a = mem_addr THEN ac ELSE mem[a]]
  BY MajorFacts DEF LastClock, Clock, NewMem
<1>6. Sim!Poke(Sim!OperandAddress(Decoded(ir)), ac)
  BY <1>4, <1>5, SimMemory
<1>7. pc_sel = "hold"
  <2>1. ~(phase = 1) /\ ~(phase = 2 /\ Opr(6)) /\ ~(phase = 3 /\ Opr(7))
    BY NoOpr DEF LastClock
  <2>2. ~(major = 8) /\ ~(major \in 9 .. 11) /\ ~(major \in 12 .. 15)
    OBVIOUS
  <2> QED BY <2>1, <2>2, Zenon DEF pc_sel
<1>8. pc' = pc
  BY <1>7, SMT DEF LastClock, Clock, NewPc
<1>9. ret' = ret /\ ac' = ac /\ cy' = cy
  BY MajorFacts, NoOpr
<1>10. begun'.pc = begun.pc + 1 /\ begun'.cy = begun.cy /\ begun.pc \in Nat
  BY <1>8, <1>9, NoOpr, AtEnd
<1>11. 2 * begun'.pc = 2 * begun.pc + 2
  BY <1>10
<1> QED BY <1>3, <1>4, <1>6, <1>9, <1>10, <1>11, NoOpr DEF Sim!InstStore, Sim!Next_pc

(* The counter, where the instruction does not branch.                     *)
LEMMA Holds ==
  ASSUME LastClock, major \in 1 .. 7
  PROVE  pc' = pc /\ ret' = ret
<1>1. pc_sel = "hold"
  <2>1. ~(phase = 1) /\ ~(phase = 2 /\ Opr(6)) /\ ~(phase = 3 /\ Opr(7))
    BY NoOpr DEF LastClock
  <2>2. ~(major = 8) /\ ~(major \in 9 .. 11) /\ ~(major \in 12 .. 15)
    OBVIOUS
  <2> QED BY <2>1, <2>2, Zenon DEF pc_sel
<1>2. pc' = pc
  BY <1>1, SMT DEF LastClock, Clock, NewPc
<1>3. ret' = ret
  BY MajorFacts
<1> QED BY <1>2, <1>3

LEMMA OperationStep ==
  ASSUME LastClock, major \in 4 .. 7
  PROVE  \/ Sim!InstLoad(Decoded(ir)) \/ Sim!InstAnd(Decoded(ir))
         \/ Sim!InstXor(Decoded(ir)) \/ Sim!InstAdc(Decoded(ir))
<1> DEFINE n == (ir \div 256) % 4
<1>1. ir \in Words16 /\ Matching(ir) # {}
  BY WordFetched
<1>2. mode \in 0 .. 3 /\ ir \div 4096 = 4 + mode /\ n \in 0 .. 3
  BY <1>1, MajorFacts DEF Words16
<1>3. Decoded(ir).mnem = OperationOf(n) /\ DecodedOperand(ir, mode)
  BY <1>1, <1>2, DecodedOperation
<1>4. /\ Sim!Operand(Decoded(ir)) = alu_b /\ Sim!Readable(Decoded(ir))
      /\ Sim!Postinc(Decoded(ir))
  BY <1>3, OperandSeen
<1>5. /\ pc' = pc /\ ret' = ret /\ mem' = mem /\ ac' = alu_out /\ cy' = alu_cy_out
      /\ uart_tx' = uart_tx /\ Sim!Signals
  BY Holds, MajorFacts, NoOpr
<1>6. /\ begun'.pc = begun.pc + 1 /\ begun'.cy = cy' /\ begun.pc \in Nat /\ begun.cy = cy
  BY <1>5, NoOpr, AtEnd
<1>7. 2 * begun'.pc = 2 * begun.pc + 2
  BY <1>6
<1> HIDE DEF n
<1>8. Sim!Computes(Decoded(ir), alu_out, alu_cy_out)
  BY <1>4, <1>5, <1>6, <1>7 DEF Sim!Computes, Sim!Next_pc
<1>9. CASE n = 0
  <2>1. alu_out = alu_b /\ alu_cy_out = begun.cy
    BY <1>6, <1>9 DEF alu_out, alu_cy_out, n
  <2> QED BY <1>3, <1>4, <1>8, <1>9, <2>1 DEF Sim!InstLoad, OperationOf
<1>10. CASE n = 1
  <2>1. alu_out = And(ac, alu_b) /\ alu_cy_out = begun.cy
    BY <1>6, <1>10 DEF alu_out, alu_cy_out, n
  <2> QED BY <1>3, <1>4, <1>8, <1>10, <2>1 DEF Sim!InstAnd, OperationOf
<1>11. CASE n = 2
  <2>1. alu_out = Xor(ac, alu_b) /\ alu_cy_out = begun.cy
    BY <1>6, <1>11 DEF alu_out, alu_cy_out, n
  <2> QED BY <1>3, <1>4, <1>8, <1>11, <2>1 DEF Sim!InstXor, OperationOf
<1>12. CASE n = 3
  <2>1. alu_out = (ac + alu_b + begun.cy) % 256 /\ alu_cy_out = (ac + alu_b + begun.cy) \div 256
    BY <1>6, <1>12 DEF alu_out, alu_cy_out, sum, n
  <2> QED BY <1>3, <1>4, <1>8, <1>12, <2>1 DEF Sim!InstAdc, OperationOf
<1> QED BY <1>2, <1>9, <1>10, <1>11, <1>12

LEMMA JumpStep ==
  ASSUME LastClock, major = 8
  PROVE  Sim!InstJump(Decoded(ir))
<1>1. ir \in Words16 /\ Matching(ir) # {}
  BY WordFetched
<1>2. ir \div 4096 = 8 /\ Bit(ir, 11) = (ir \div 2048) % 2
  BY DEF major, Bit
<1>3. /\ Decoded(ir).mnem = IF ir \div 2048 = 17 THEN "call" ELSE "jump"
      /\ Decoded(ir).fields["j"] = 2 * (ir % 2048)
  BY <1>1, <1>2, DecodedJump
<1>4. Bit(ir, 11) = 1 <=> ir \div 2048 = 17
  BY <1>1, <1>2 DEF Words16
<1>5. pc_sel = "branch"
  <2>1. ~(phase = 1) /\ ~(phase = 2 /\ Opr(6)) /\ ~(phase = 3 /\ Opr(7)) /\ phase = 3
    BY NoOpr DEF LastClock
  <2>2. ~(major \in 9 .. 11) /\ ~(major \in 12 .. 15)
    OBVIOUS
  <2> QED BY <2>1, <2>2, Zenon DEF pc_sel
<1>6. pc' = ir % 2048
  BY <1>5, SMT DEF LastClock, Clock, NewPc
<1>7. ret' = IF Bit(ir, 11) = 1 THEN pc ELSE ret
  BY MajorFacts
<1>8. ~mem_wr_en /\ ~computes /\ mode = 0
  BY MajorFacts
<1>9. /\ mem' = mem /\ x' = x /\ y' = y /\ ac' = ac /\ cy' = cy
      /\ uart_tx' = uart_tx /\ Sim!Signals
  BY <1>8, MajorFacts, NoOpr DEF postinc
<1>10. /\ pc = begun.pc + 1 /\ begun'.pc = ir % 2048 /\ begun'.cy = begun.cy
       /\ begun.pc \in Nat
  BY <1>6, <1>9, NoOpr, AtEnd
<1>11. 2 * pc = 2 * begun.pc + 2
  BY <1>10
<1> QED BY <1>3, <1>4, <1>7, <1>9, <1>10, <1>11 DEF Sim!InstJump, Sim!Next_pc

LEMMA SkipStep ==
  ASSUME LastClock, major \in 9 .. 11
  PROVE  Sim!InstSkb(Decoded(ir))
<1>1. ir \in Words16 /\ Matching(ir) # {}
  BY WordFetched
<1>2. mode \in 1 .. 3 /\ ir \div 4096 = 8 + mode
  BY MajorFacts
<1>3. /\ Decoded(ir).mnem = "skb" /\ DecodedOperand(ir, mode)
      /\ Decoded(ir).fields["b"] = (ir \div 256) % 8
      /\ Decoded(ir).fields["i"] = (ir \div 2048) % 2
  BY <1>1, <1>2, DecodedSkip
<1>4. /\ Sim!Operand(Decoded(ir)) = alu_b /\ Sim!Readable(Decoded(ir))
      /\ Sim!Postinc(Decoded(ir))
  BY <1>3, OperandSeen
<1>5. Sim!Digit(Sim!Operand(Decoded(ir)), Decoded(ir).fields["b"]) = skb_cond
  <2>1. alu_b = mem_rd_data_delayed
    BY <1>2 DEF alu_b
  <2> QED BY <1>3, <1>4, <2>1 DEF Sim!Digit, skb_cond, Bit
<1>6. Bit(ir, 11) = (ir \div 2048) % 2
  BY DEF Bit
<1>7. pc_sel = IF skb_cond = Bit(ir, 11) THEN "inc" ELSE "hold"
  <2>1. ~(phase = 1) /\ ~(phase = 2 /\ Opr(6)) /\ ~(phase = 3 /\ Opr(7)) /\ phase = 3
    BY NoOpr DEF LastClock
  <2>2. ~(major = 8) /\ ~(major \in 12 .. 15)
    OBVIOUS
  <2> QED BY <2>1, <2>2, Zenon DEF pc_sel
<1>8. pc_sel = "inc" => pc < 2047
  BY DEF LastClock, Described
<1>9. pc' = IF skb_cond = Bit(ir, 11) THEN pc + 1 ELSE pc
  <2>1. pc \in Nat /\ ~in.reset /\ pc' = NewPc
    BY Widths, Ranges DEF LastClock, Clock
  <2>2. CASE skb_cond = Bit(ir, 11)
    <3>1. pc_sel = "inc" /\ (pc + 1) % 2048 = pc + 1
      BY <1>7, <1>8, <2>1, <2>2
    <3>2. NewPc = (pc + 1) % 2048
      BY <2>1, <3>1, SMT DEF NewPc
    <3> QED BY <2>1, <2>2, <3>1, <3>2
  <2>3. CASE skb_cond # Bit(ir, 11)
    <3>1. pc_sel = "hold"
      BY <1>7, <2>3
    <3>2. NewPc = pc
      BY <2>1, <3>1, SMT DEF NewPc
    <3> QED BY <2>1, <2>3, <3>2
  <2> QED BY <2>2, <2>3
<1>10. ~mem_wr_en /\ ~computes
  BY MajorFacts
<1>11. /\ mem' = mem /\ ret' = ret /\ ac' = ac /\ cy' = cy
       /\ uart_tx' = uart_tx /\ Sim!Signals
  BY <1>10, MajorFacts, NoOpr
<1>12. pc = begun.pc + 1 /\ begun'.pc = pc' /\ begun'.cy = begun.cy /\ begun.pc \in Nat
  BY <1>11, NoOpr, AtEnd
<1>13. 2 * begun'.pc = (2 * begun.pc + 2) + (IF skb_cond = Bit(ir, 11) THEN 2 ELSE 0)
  <2>1. CASE skb_cond = Bit(ir, 11)
    <3>1. begun'.pc = (begun.pc + 1) + 1
      BY <1>9, <1>12, <2>1
    <3> QED BY <1>12, <2>1, <3>1
  <2>2. CASE skb_cond # Bit(ir, 11)
    <3>1. begun'.pc = begun.pc + 1
      BY <1>9, <1>12, <2>2
    <3> QED BY <1>12, <2>2, <3>1
  <2> QED BY <2>1, <2>2
<1> QED BY <1>3, <1>4, <1>5, <1>6, <1>11, <1>12, <1>13 DEF Sim!InstSkb, Sim!Next_pc

LEMMA BranchStep ==
  ASSUME LastClock, major \in 12 .. 15
  PROVE  Sim!InstBr(Decoded(ir))
<1>1. ir \in Words16 /\ Matching(ir) # {}
  BY WordFetched
<1>2. /\ Decoded(ir).mnem = "br" /\ Decoded(ir).fields["j"] = 2 * (ir % 2048)
      /\ Decoded(ir).fields["c"] = (ir \div 2048) % 8
  BY <1>1, DecodedBranch, MajorFacts
<1> DEFINE c == (ir \div 2048) % 8
<1>3. c \div 2 = mode /\ c % 2 = Bit(ir, 11) /\ mode \in 0 .. 3
  <2>1. Bit(ir, 11) = (ir \div 2048) % 2 /\ mode = (ir \div 4096) % 4
    BY DEF Bit, mode, major
  <2> QED BY <1>1, <2>1 DEF Words16
<1> HIDE DEF c
<1>4. pc_sel = IF branch_cond = Bit(ir, 11) THEN "branch" ELSE "hold"
  <2>1. ~(phase = 1) /\ ~(phase = 2 /\ Opr(6)) /\ ~(phase = 3 /\ Opr(7)) /\ phase = 3
    BY NoOpr DEF LastClock
  <2>2. ~(major = 8) /\ ~(major \in 9 .. 11)
    OBVIOUS
  <2> QED BY <2>1, <2>2, Zenon DEF pc_sel
<1>5. pc' = IF branch_cond = Bit(ir, 11) THEN ir % 2048 ELSE pc
  BY <1>4, SMT DEF LastClock, Clock, NewPc
<1>6. ~mem_wr_en /\ ~computes /\ ~postinc
  <2>1. ~(ir < 49152)
    BY <1>1 DEF major, Words16
  <2> QED BY <2>1, MajorFacts DEF postinc
<1>7. /\ mem' = mem /\ ret' = ret /\ x' = x /\ y' = y /\ ac' = ac /\ cy' = cy
      /\ uart_tx' = uart_tx /\ Sim!Signals
  BY <1>6, MajorFacts, NoOpr
<1>8. /\ pc = begun.pc + 1 /\ begun'.pc = pc' /\ cy = begun.cy /\ begun'.cy = begun.cy
      /\ begun.pc \in Nat
  BY <1>7, NoOpr, AtEnd
<1>9. 2 * begun'.pc = IF branch_cond = c % 2 THEN 2 * (ir % 2048) ELSE 2 * begun.pc + 2
  BY <1>3, <1>5, <1>8
<1>10. branch_cond = CASE c \div 2 = 0 -> IF ac = 0 THEN 1 ELSE 0
                       [] c \div 2 = 1 -> begun.cy
                       [] c \div 2 = 2 -> in.xint
                       [] OTHER -> tick
  BY <1>3, <1>8, Zenon DEF branch_cond
<1>11. Decoded(ir).fields["c"] = c
  BY <1>2 DEF c
<1> QED BY <1>2, <1>7, <1>8, <1>9, <1>10, <1>11 DEF Sim!InstBr, Sim!Next_pc

LEMMA OprStep ==
  ASSUME LastClock, major = 0
  PROVE  Sim!InstOpr(Decoded(ir))
<1> DEFINE d == Decoded(ir)
           Has(i) == Sim!Digit(d.fields["i"], i) = 1
           value == IF ~Opr(5) THEN ac ELSE IF Opr(4) THEN ac \div 2 + 128 * cy
                    ELSE (2 * ac + cy) % 256
           rest == IF ~Opr(5) THEN cy ELSE IF Opr(4) THEN ac % 2 ELSE (2 * ac + cy) \div 256
<1>1. ir \in Words16 /\ Matching(ir) # {} /\ ir \in Nat /\ ir < 4096
  BY WordFetched DEF major, Words16
<1>2. d.mnem = "opr" /\ d.fields["i"] = ir
  BY <1>1, DecodedOpr DEF major
<1> HIDE DEF d
<1>3. \A i : Has(i) <=> Opr(i)
  BY <1>2 DEF Opr, inst_opr, Bit, Sim!Digit
<1>4. Sim!Digit(d.fields["i"], 2) = (ir \div 4) % 2
  BY <1>2 DEF Sim!Digit
<1>5. /\ phase = 3 /\ ac \in Nat /\ ac < 256 /\ cy \in {0, 1} /\ pc \in Nat /\ pc < 2048
      /\ y \in Nat /\ y < 65536 /\ ret \in Nat
  BY Widths, Ranges DEF LastClock
<1>6. ~postinc /\ ~computes /\ ~mem_wr_en
  <2>1. mode # 3
    BY MajorFacts
  <2> QED BY <2>1, MajorFacts DEF postinc
<1>7. Bit(ir, 0) \in {0, 1} /\ (Bit(ir, 0) = 1 <=> Opr(0)) /\ (Bit(ir, 4) = 1 <=> Opr(4))
  <2>1. Bit(ir, 0) = ir % 2
    BY <1>1 DEF Bit
  <2> QED BY <1>1, <2>1 DEF Opr, inst_opr
<1>8. mem' = mem /\ ret' = ret
  BY <1>6, MajorFacts
<1>9. x' = IF Opr(1) /\ ~Opr(0) THEN ac ELSE x
  BY <1>5, <1>6, <1>7 DEF LastClock, Clock, NewX
<1>10. y' = IF Opr(1) /\ Opr(0) THEN Or(y \div 256, ac * 256) ELSE y
  <2>1. y \div 256 \in Byte /\ ac \in Byte
    BY <1>5, Ranges
  <2>2. Or(y \div 256, ac * 256) = y \div 256 + ac * 256
    BY <2>1, OrAssumption
  <2>3. y' = IF Opr(1) /\ Opr(0) THEN 256 * ac + y \div 256 ELSE y
    BY <1>5, <1>6, <1>7 DEF LastClock, Clock, NewY
  <2> QED BY <1>5, <2>2, <2>3
<1>11. uart_tx' = IF Opr(8) THEN ac % 2 ELSE uart_tx
  BY <1>5 DEF LastClock, Clock, NewUartTx
<1>12. ac' = value
  <2>1. ac' = IF Opr(5) THEN rotate_out ELSE ac
    BY <1>5, <1>6 DEF LastClock, Clock, NewAc, rotates
  <2>2. Opr(4) => rotate_out = ac \div 2 + 128 * cy
    BY <1>5, <1>7 DEF rotate_out
  <2>3. ~Opr(4) => rotate_out = (2 * ac + cy) % 256
    <3>1. ~Opr(4) => rotate_out = ((2 * ac) % 256) + cy
      BY <1>7 DEF rotate_out
    <3>2. ((2 * ac) % 256) + cy = (2 * ac + cy) % 256
      BY <1>5
    <3> QED BY <3>1, <3>2
  <2> QED BY <2>1, <2>2, <2>3
<1>13. cy' = rest
  <2>1. cy' = IF Opr(5) THEN rotate_cout ELSE cy
    BY <1>5, <1>6 DEF LastClock, Clock, NewCy, rotates
  <2>2. Opr(4) => rotate_cout = ac % 2
    BY <1>7 DEF rotate_cout
  <2>3. ~Opr(4) => rotate_cout = (2 * ac + cy) \div 256
    <3>1. ~Opr(4) => rotate_cout = ac \div 128
      BY <1>7 DEF rotate_cout
    <3>2. ac \div 128 = (2 * ac + cy) \div 256
      BY <1>5
    <3> QED BY <3>1, <3>2
  <2> QED BY <2>1, <2>2, <2>3
<1>14. begun'.pc = pc' /\ begun'.cy = rest /\ begun.pc \in Nat /\ in'.xint \in {0, 1}
  BY <1>13, AtEnd
<1>15. pc' = pc + (IF Opr(7) THEN ac ELSE 0)
  <2>1. pc_sel = IF Opr(7) THEN "add_a" ELSE "hold"
    <3>1. ~(phase = 1) /\ ~(phase = 2 /\ Opr(6)) /\ phase = 3
      BY <1>5
    <3>2. ~(major = 8) /\ ~(major \in 9 .. 11) /\ ~(major \in 12 .. 15)
      OBVIOUS
    <3> QED BY <3>1, <3>2, Zenon DEF pc_sel
  <2>2. pc_sel = "add_a" => pc + ac < 2048
    BY DEF LastClock, Described
  <2>3. ~in.reset /\ pc' = NewPc
    BY DEF LastClock, Clock
  <2>4. CASE Opr(7)
    <3>1. pc_sel = "add_a" /\ (pc + ac) % 2048 = pc + ac
      BY <1>5, <2>1, <2>2, <2>4
    <3>2. NewPc = (pc + ac) % 2048
      BY <2>3, <3>1, SMT DEF NewPc
    <3> QED BY <2>3, <2>4, <3>1, <3>2
  <2>5. CASE ~Opr(7)
    <3>1. pc_sel = "hold"
      BY <2>1, <2>5
    <3>2. NewPc = pc
      BY <2>3, <3>1, SMT DEF NewPc
    <3> QED BY <1>5, <2>3, <2>5, <3>2
  <2> QED BY <2>4, <2>5
<1>16. Opr(7) => value = ac
  BY DEF LastClock, Described
<1> HIDE DEF value, rest
<1>17. 2 * begun'.pc = (IF Opr(6) THEN 2 * ret ELSE 2 * begun.pc + 2)
                         + (IF Opr(7) THEN 2 * value ELSE 0)
  <2>1. pc = IF Opr(6) THEN ret ELSE begun.pc + 1
    BY AtEnd
  <2>2. CASE Opr(6)
    BY <1>5, <1>14, <1>15, <1>16, <2>1, <2>2
  <2>3. CASE ~Opr(6)
    BY <1>5, <1>14, <1>15, <1>16, <2>1, <2>3
  <2> QED BY <2>2, <2>3
<1>18. cy = IF Opr(3) THEN (ir \div 4) % 2 ELSE begun.cy
  BY AtEnd
<1>19. IF Opr(9) THEN tick' = 0 /\ in'.xint \in {0, 1} ELSE Sim!Signals
  BY AtEnd DEF Sim!Signals
<1>20. ~Opr(10) /\ ~Opr(11)
  BY DEF LastClock, Described
<1> DEFINE c == IF Has(3) THEN Sim!Digit(d.fields["i"], 2) ELSE begun.cy
           left == 2 * ac + c
           rotated == IF ~Has(5) THEN [ac |-> ac, c |-> c]
                      ELSE IF Has(4) THEN [ac |-> ac \div 2 + 128 * c, c |-> ac % 2]
                      ELSE [ac |-> left % 256, c |-> left \div 256]
<1>21. rotated.ac = value /\ rotated.c = rest
  <2>1. c = cy
    BY <1>3, <1>4, <1>18
  <2> HIDE DEF c, Has
  <2>2. CASE ~Opr(5)
    BY <1>3, <2>1, <2>2 DEF value, rest
  <2>3. CASE Opr(5) /\ Opr(4)
    BY <1>3, <2>1, <2>3 DEF value, rest
  <2>4. CASE Opr(5) /\ ~Opr(4)
    BY <1>3, <2>1, <2>4 DEF value, rest
  <2> QED BY <2>2, <2>3, <2>4
<1> HIDE DEF rotated
<1>22. /\ ~Has(10) /\ ~Has(11)
       /\ x' = (IF Has(1) /\ ~Has(0) THEN ac ELSE x)
       /\ y' = (IF Has(1) /\ Has(0) THEN Or(y \div 256, ac * 256) ELSE y)
       /\ uart_tx' = (IF Has(8) THEN ac % 2 ELSE uart_tx)
  <2> HIDE DEF Has
  <2> QED BY <1>3, <1>9, <1>10, <1>11, <1>20
<1>23. /\ ac' = rotated.ac /\ begun'.cy = rotated.c
       /\ 2 * begun'.pc = (IF Has(6) THEN 2 * ret ELSE Sim!Next_pc)
                             + (IF Has(7) THEN 2 * rotated.ac ELSE 0)
  <2> HIDE DEF Has
  <2> QED BY <1>3, <1>12, <1>14, <1>17, <1>21 DEF Sim!Next_pc
<1>24. IF Has(9) THEN tick' = 0 /\ in'.xint \in {0, 1} ELSE Sim!Signals
  <2> HIDE DEF Has
  <2> QED BY <1>3, <1>19
<1> QED BY <1>2, <1>8, <1>22, <1>23, <1>24, Zenon DEF Sim!InstOpr, rotated, d

(***************************************************************************)
(* Every instruction has on the CPU the effect it has in the simulator, on *)
(* which the microcode is tested, and no phase before the last has any     *)
(* (AsSimulated), for every program and memory: each step of the CPU maps  *)
(* to a step of the simulator or to one of the outside.                    *)
(***************************************************************************)
THEOREM CpuAsSimulated == Spec => AsSimulated
<1>1. Init => MovedOn
  BY DEF Init, MovedOn
<1>2. TypeOK /\ MovedOn /\ [Clock]_vars => MovedOn'
  <2> SUFFICES ASSUME TypeOK, MovedOn, [Clock]_vars PROVE MovedOn'
    OBVIOUS
  <2>1. CASE UNCHANGED vars
    BY <2>1 DEF MovedOn, Opr, inst_opr, major, Bit, vars, registers
  <2> QED BY <2>1, MovesOn
<1>3. TypeOK /\ InFlight /\ MovedOn /\ [Clock]_vars =>
        [~in.reset /\ (phase = 3 => Described) => Sim!Next \/ UNCHANGED Sim!vars]_vars
  <2> SUFFICES ASSUME TypeOK, InFlight, MovedOn, Clock, ~in.reset, phase = 3 => Described
               PROVE  Sim!Next \/ UNCHANGED Sim!vars
    OBVIOUS
  <2>1. CASE phase # 3
    BY <2>1, EarlyStep DEF Sim!Next
  <2>2. CASE phase = 3
    <3>1. LastClock
      BY <2>2 DEF LastClock
    <3>2. \/ Sim!InstOpr(Decoded(ir)) \/ Sim!InstStore(Decoded(ir)) \/ Sim!InstLoad(Decoded(ir))
          \/ Sim!InstAnd(Decoded(ir)) \/ Sim!InstXor(Decoded(ir)) \/ Sim!InstAdc(Decoded(ir))
          \/ Sim!InstSkb(Decoded(ir)) \/ Sim!InstBr(Decoded(ir)) \/ Sim!InstJump(Decoded(ir))
      <4>1. major \in 0 .. 15
        BY <3>1, MajorFacts
      <4>2. \/ major = 0 \/ major \in 1 .. 3 \/ major \in 4 .. 7 \/ major = 8
            \/ major \in 9 .. 11 \/ major \in 12 .. 15
        BY <4>1
      <4> QED BY <3>1, <4>2, OprStep, StoreStep, OperationStep, JumpStep, SkipStep, BranchStep
    <3>3. Sim!ExecuteSingle
      BY <3>1, <3>2, WordFetched DEF Sim!ExecuteSingle
    <3> QED BY <3>3 DEF Sim!Next
  <2> QED BY <2>1, <2>2
<1> QED BY <1>1, <1>2, <1>3, TypeCorrect, FlightIsCurrent, PTL DEF Spec, AsSimulated
=============================================================================
