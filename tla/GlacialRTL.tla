----------------------------- MODULE GlacialRTL ------------------------------
(***************************************************************************)
(* The microprogrammed CPU, verilog/glacial.v, with its memory sram.v and  *)
(* the reset of testbench.v.  A microinstruction takes four clocks, the    *)
(* phases 0 to 3.  One step of the model is one clock: the memory is read  *)
(* or written at the falling edge, at the address that the registers       *)
(* select, and every register is loaded at the rising edge that ends it.   *)
(*                                                                         *)
(* Control signals are operators with the names of the code; each always   *)
(* block on the clock is an operator that gives the new value of its       *)
(* register.  The program counter counts words of two bytes.               *)
(***************************************************************************)
EXTENDS Integers

CONSTANTS
  And(_, _), Xor(_, _),  (* bitwise on two bytes                           *)
  Starts,                (* the states in which the first reset may leave  *)
                         (* what it does not clear, and the memory         *)
  MaxExecuted            (* bound: instructions executed, or cut by resets *)

(* What registers of 1, 8, 11 and 16 bits hold.                            *)
Below(n) == 0 .. n - 1
Bits    == {0, 1}
Byte    == Below(256)
Counter == Below(2048)
Address == Below(65536)

ASSUME AndXorAssumption ==
  \A a, b \in Byte : And(a, b) \in Byte /\ Xor(a, b) \in Byte

(* inputs: the values that xint, xtick and reset take.                     *)
IsStart(s) ==
  /\ DOMAIN s.mem \subseteq Address /\ s.mem \in [DOMAIN s.mem -> Byte]
  /\ s.ir \in Address /\ s.ret \in Counter
  /\ s.x \in Byte /\ s.y \in Address /\ s.ac \in Byte /\ s.cy \in Bits
  /\ s.inputs \subseteq [xint : Bits, xtick : Bits, reset : BOOLEAN]

ASSUME StartsAssumption == \A s \in Starts : IsStart(s)

ASSUME MaxExecutedAssumption == MaxExecuted \in Nat

VARIABLES
  phase, pc, ret, ir, x, y, ac, cy, prev_xtick, tick, uart_tx,
  mem_rd_data_delayed,   (* the registers of glacial.v                     *)
  mem,                   (* sram.v: addresses not in its domain hold 0     *)
  inputs,                (* what the environment may do                    *)
  in,                    (* the inputs xint, xtick and reset of this clock *)
  begun,                 (* history: pc and cy when the instruction began  *)
  executed               (* counts up to MaxExecuted                       *)

registers ==
  <<phase, pc, ret, ir, x, y, ac, cy, prev_xtick, tick, uart_tx, mem_rd_data_delayed>>
vars == <<registers, mem, inputs, in, begun, executed>>

(***************************************************************************)
(* Instruction decoding                                                    *)
(***************************************************************************)
Bit(v, i)   == (v \div 2 ^ i) % 2
Contents(a) == IF a \in DOMAIN mem THEN mem[a] ELSE 0

major    == ir \div 4096             (* ir[15:12] *)
mode     == major % 4                (* ir[13:12] *)
inst_opr == major = 0
Opr(i)   == inst_opr /\ Bit(ir, i) = 1

(***************************************************************************)
(* Memory: in the phases 0 and 1 the instruction, then the operand         *)
(***************************************************************************)
mem_addr ==
  IF phase < 2 THEN 2 * pc + phase
  ELSE IF Bit(ir, 13) = 0 THEN ir % 256
  ELSE IF Bit(ir, 0) = 0 THEN x ELSE y

mem_rd_en == phase # 3

(* Mutant of mem_wr_en: not held back until the last phase.                *)
mem_wr_en_early == phase >= 2 /\ ir < 16384 /\ mode # 0

mem_wr_en == phase = 3 /\ ir < 16384 /\ mode # 0

mem_rd_data == IF mem_wr_en \/ ~mem_rd_en THEN 0 ELSE Contents(mem_addr)

NewMem ==
  IF mem_wr_en THEN [a \in DOMAIN mem \cup {mem_addr} |-> IF a = mem_addr THEN ac ELSE mem[a]]
  ELSE mem

(***************************************************************************)
(* The ALU and the conditions                                              *)
(***************************************************************************)
alu_b == IF mode = 0 THEN ir % 256 ELSE mem_rd_data_delayed

sum == ac + alu_b + cy

alu_out ==
  CASE (ir \div 256) % 4 = 0 -> alu_b
    [] (ir \div 256) % 4 = 1 -> And(ac, alu_b)
    [] (ir \div 256) % 4 = 2 -> Xor(ac, alu_b)
    [] OTHER                 -> sum % 256

alu_cy_out == IF (ir \div 256) % 4 = 3 THEN sum \div 256 ELSE cy

rotate_out  == IF Bit(ir, 4) = 1 THEN 128 * cy + ac \div 2 ELSE ((2 * ac) % 256) + cy
rotate_cout == IF Bit(ir, 4) = 1 THEN ac % 2 ELSE ac \div 128

branch_cond ==
  CASE mode = 0 -> IF ac = 0 THEN 1 ELSE 0
    [] mode = 1 -> cy
    [] mode = 2 -> in.xint
    [] OTHER    -> tick

(* Mutant of skb_cond: the bits are counted from the other end.            *)
skb_cond_reversed == Bit(mem_rd_data_delayed, 7 - ((ir \div 256) % 8))

skb_cond == Bit(mem_rd_data_delayed, (ir \div 256) % 8)

(***************************************************************************)
(* What each register is loaded with                                       *)
(***************************************************************************)
pc_sel ==
  CASE phase = 1                           -> "inc"
    [] phase = 2 /\ Opr(6)                 -> "return"
    [] phase = 3 /\ Opr(7)                 -> "add_a"
    [] phase = 3 /\ major = 8              -> "branch"
    [] phase = 3 /\ major \in 9 .. 11      -> IF skb_cond = Bit(ir, 11) THEN "inc" ELSE "hold"
    [] phase = 3 /\ major \in 12 .. 15     -> IF branch_cond = Bit(ir, 11) THEN "branch" ELSE "hold"
    [] OTHER                               -> "hold"

NewPc ==
  IF in.reset THEN 0
  ELSE [hold |-> pc, inc |-> (pc + 1) % 2048, add_a |-> (pc + ac) % 2048,
        return |-> ret, branch |-> ir % 2048][pc_sel]

NewPhase == IF in.reset THEN 0 ELSE (phase + 1) % 4

NewRet == IF phase = 3 /\ major = 8 /\ Bit(ir, 11) = 1 THEN pc ELSE ret

NewIr ==
  CASE phase = 0 -> 256 * mem_rd_data + (ir % 256)
    [] phase = 1 -> 256 * (ir \div 256) + mem_rd_data
    [] OTHER     -> ir

(* @x+, @y+: store, load and skb.                                          *)
postinc == phase = 3 /\ ir < 49152 /\ mode = 3

NewX ==
  IF phase = 3 /\ Opr(1) /\ Bit(ir, 0) = 0 THEN ac
  ELSE IF postinc /\ Bit(ir, 0) = 0 THEN (x + 1) % 256 ELSE x

(* Mutant of NewY: counts beyond its sixteen bits.                         *)
NewYUncut ==
  IF phase = 3 /\ Opr(1) /\ Bit(ir, 0) = 1 THEN 256 * ac + y \div 256
  ELSE IF postinc /\ Bit(ir, 0) = 1 THEN y + 1 ELSE y

NewY ==
  IF phase = 3 /\ Opr(1) /\ Bit(ir, 0) = 1 THEN 256 * ac + y \div 256
  ELSE IF postinc /\ Bit(ir, 0) = 1 THEN (y + 1) % 65536 ELSE y

computes == phase = 3 /\ ir \div 16384 = 1
rotates  == phase = 3 /\ Opr(5)

NewAc == IF computes THEN alu_out ELSE IF rotates THEN rotate_out ELSE ac

(* clc and sec come a phase before a rotation.                             *)
NewCy ==
  IF phase = 2 /\ Opr(3) THEN (ir \div 4) % 2
  ELSE IF computes THEN alu_cy_out ELSE IF rotates THEN rotate_cout ELSE cy

clr_tick == phase = 3 /\ Opr(9)

NewTick ==
  IF in.reset \/ clr_tick THEN 0
  ELSE IF prev_xtick = 0 /\ in.xtick = 1 THEN 1 ELSE tick

NewUartTx == IF in.reset THEN 1 ELSE IF phase = 3 /\ Opr(8) THEN ac % 2 ELSE uart_tx

-----------------------------------------------------------------------------
(* After the first rising edge with reset (testbench.v).  What the memory  *)
(* gave then, mem_rd_data_delayed, is overwritten before it is used.       *)
Init ==
  \E s \in Starts :
    /\ phase = 0 /\ pc = 0 /\ tick = 0 /\ uart_tx = 1
    /\ ret = s.ret /\ ir = s.ir /\ x = s.x /\ y = s.y /\ ac = s.ac /\ cy = s.cy
    /\ prev_xtick \in {i.xtick : i \in s.inputs} /\ mem_rd_data_delayed = 0
    /\ mem = s.mem /\ inputs = s.inputs /\ in \in s.inputs
    /\ begun = [pc |-> 0, cy |-> s.cy] /\ executed = 0

(* reset clears phase, pc, tick and uart_tx; what an instruction does to   *)
(* the others in this clock is done all the same.                          *)
Clock ==
  /\ executed < MaxExecuted
  /\ phase' = NewPhase /\ pc' = NewPc /\ ret' = NewRet /\ ir' = NewIr
  /\ x' = NewX /\ y' = NewY /\ ac' = NewAc /\ cy' = NewCy
  /\ prev_xtick' = in.xtick /\ tick' = NewTick /\ uart_tx' = NewUartTx
  /\ mem_rd_data_delayed' = mem_rd_data /\ mem' = NewMem
  /\ in' \in inputs /\ UNCHANGED inputs
  /\ begun' = IF phase' = 0 THEN [pc |-> pc', cy |-> cy'] ELSE begun
  /\ executed' = IF phase' = 0 THEN executed + 1 ELSE executed

Spec == Init /\ [][Clock]_vars

-----------------------------------------------------------------------------
(* Every register keeps to its width, and the memory to its bytes and      *)
(* addresses.                                                              *)
TypeOK ==
  /\ phase \in 0 .. 3 /\ pc \in Counter /\ ret \in Counter /\ ir \in Address
  /\ x \in Byte /\ y \in Address /\ ac \in Byte /\ cy \in Bits
  /\ prev_xtick \in Bits /\ tick \in Bits /\ uart_tx \in Bits
  /\ mem_rd_data_delayed \in Byte
  /\ DOMAIN mem \subseteq Address /\ mem \in [DOMAIN mem -> Byte]
  /\ inputs \subseteq [xint : Bits, xtick : Bits, reset : BOOLEAN] /\ in \in inputs
  /\ begun \in [pc : Counter, cy : Bits]
  /\ executed \in Nat

(* While an instruction is under way the memory still holds it where it    *)
(* was fetched, and in the last phase the operand read in the phase before *)
(* is still what the memory holds at the address now selected: the phases  *)
(* leave no room for a stale value, even in code that writes on itself.    *)
InFlight ==
  /\ phase >= 1 => ir \div 256 = Contents(2 * begun.pc)
  /\ phase >= 2 => ir % 256 = Contents(2 * begun.pc + 1)
  /\ phase = 3 => mem_rd_data_delayed = Contents(mem_addr)
=============================================================================
