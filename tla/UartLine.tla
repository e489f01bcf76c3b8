------------------------------ MODULE UartLine ------------------------------
(***************************************************************************)
(* The serial line: the transmitter of the microcode (uart_tx_char), whose *)
(* bits last as long as its delay loop, and the two receivers that watch   *)
(* it: class UART of ucode/tools/uart.py, which simg calls at each         *)
(* uarttx and which then looks back at the line with 16 samples a bit,     *)
(* and tb_serial.v, which counts clocks.  The two watch two simulations of *)
(* the same program, and each of these ends for itself, when its receiver  *)
(* gets the character 0x04; the line then goes on for the other.  Time is  *)
(* in clock cycles; the receivers' rates are rational, so the sample time  *)
(* of uart.py is kept multiplied by SampleRate.                            *)
(***************************************************************************)
EXTENDS Integers, Sequences

CONSTANTS
  CLOCK_HZ, BIT_RATE_HZ,   (* both in units of their common divisor        *)
  oversampling,
  Bytes,                   (* characters written to the UART               *)
  Gaps,                    (* cycles from a stop bit to the next start bit *)
  MaxChars                 (* characters sent                              *)

ASSUME UartAssumption ==
  /\ CLOCK_HZ \in Nat \ {0} /\ BIT_RATE_HZ \in Nat \ {0} /\ oversampling \in Nat \ {0}
  /\ Bytes \subseteq 0 .. 255 /\ Gaps \subseteq Nat /\ MaxChars \in Nat

VARIABLES
  sent, temp, count,   (* characters so far, and the scratchpad's temp     *)
  due,                 (* cycle of the next uarttxr; -1 when there is none *)
  last,                (* cycle of the last one                            *)
  uart_tx,             (* the line                                         *)
  call,                (* simg inside UART.tx: cycle and value, or NoCall  *)
  sim,                 (* the UART object of simg                          *)
  printed,             (* what simg printed                                *)
  run,                 (* simg's run: FALSE once it has got an EndOfFile   *)
  tb,                  (* the registers of tb_serial                       *)
  written,             (* what tb_serial wrote                             *)
  finished,            (* tb_serial has called $finish                     *)
  errors               (* receivers that reported a framing error          *)

transmitter == <<sent, temp, count, due, last, uart_tx>>
simulator   == <<call, sim, printed, run>>
testbench   == <<tb, written, finished>>
vars == <<transmitter, simulator, testbench, errors>>

data_bits == 8
stop_bits == 1
SampleRate == BIT_RATE_HZ * oversampling
NoCall == [cycle |-> -1, value |-> 1]
EndOfFile == 4

(***************************************************************************)
(* The transmitter.  Nine instructions and the delay loop, of four cycles  *)
(* each, lie between two uarttxr.                                          *)
(***************************************************************************)
Delay == ((CLOCK_HZ \div (4 * BIT_RATE_HZ)) - 12) \div 3 + 1

BitCycles == 4 * (9 + 3 * Delay)

UartTxChar ==
  /\ due = -1 /\ call = NoCall /\ Len(sent) < MaxChars
  /\ \E byte \in Bytes, gap \in Gaps :
       /\ sent' = Append(sent, byte) /\ temp' = byte /\ due' = last + gap
  /\ count' = 10
  /\ UNCHANGED <<last, uart_tx, simulator, testbench, errors>>

TbBefore(cycle) ==
  finished \/ (IF tb.idle THEN uart_tx = 1 ELSE tb.sample_at > cycle)

(* Send the lowest bit and rotate a one in behind it.  A simg that has     *)
(* stopped makes no call any more.                                         *)
Uarttxr ==
  /\ due # -1 /\ call = NoCall /\ TbBefore(due)
  /\ LET bit == IF count = 10 THEN 0 ELSE temp % 2
     IN  /\ uart_tx' = bit
         /\ call' = IF run THEN [cycle |-> due, value |-> bit] ELSE NoCall
  /\ temp' = IF count = 10 THEN temp ELSE temp \div 2 + 128
  /\ count' = count - 1
  /\ last' = due
  /\ due' = IF count = 1 THEN -1 ELSE due + BitCycles
  /\ UNCHANGED <<sent, sim, printed, run, testbench, errors>>

(***************************************************************************)
(* uart.py: process_tx_sample and the loop of tx around it                 *)
(***************************************************************************)
NewUART ==
  [line_state |-> 1, sample_cycle |-> 0, idle |-> TRUE, counter |-> 0,
   bit_num |-> -1, byte_val |-> 0, rxb |-> -1]

Sampling == call # NoCall /\ sim.sample_cycle <= call.cycle * SampleRate

(* Mutant of Sampled: the line is looked at once a bit.                    *)
SampledPerBit(u) == [u EXCEPT !.sample_cycle = @ + CLOCK_HZ * oversampling]

Sampled(u) == [u EXCEPT !.sample_cycle = @ + CLOCK_HZ]

(* Mutant of SimIdle: the start bit is looked at after a whole bit.        *)
SimIdleWholeBit ==
  /\ Sampling /\ sim.idle
  /\ sim' = IF sim.line_state = 1 THEN Sampled(sim)
            ELSE [Sampled(sim) EXCEPT !.idle = FALSE, !.bit_num = -1, !.byte_val = 0,
                                      !.counter = oversampling]
  /\ UNCHANGED <<transmitter, call, printed, run, testbench, errors>>

(* Mutant of SimIdle: the byte before is not cleared.                      *)
SimIdleKeepsByte ==
  /\ Sampling /\ sim.idle
  /\ sim' = IF sim.line_state = 1 THEN Sampled(sim)
            ELSE [Sampled(sim) EXCEPT !.idle = FALSE, !.bit_num = -1,
                                      !.counter = oversampling \div 2]
  /\ UNCHANGED <<transmitter, call, printed, run, testbench, errors>>

SimIdle ==
  /\ Sampling /\ sim.idle
  /\ sim' = IF sim.line_state = 1 THEN Sampled(sim)
            ELSE [Sampled(sim) EXCEPT !.idle = FALSE, !.bit_num = -1, !.byte_val = 0,
                                      !.counter = oversampling \div 2]
  /\ UNCHANGED <<transmitter, call, printed, run, testbench, errors>>

SimCount ==
  /\ Sampling /\ ~sim.idle /\ sim.counter > 1
  /\ sim' = [Sampled(sim) EXCEPT !.counter = @ - 1]
  /\ UNCHANGED <<transmitter, call, printed, run, testbench, errors>>

AtSample == Sampling /\ ~sim.idle /\ sim.counter = 1

SimStart ==
  /\ AtSample /\ sim.bit_num < 0
  /\ sim' = [Sampled(sim) EXCEPT !.counter = oversampling,
               !.idle = (sim.line_state = 1), !.bit_num = IF sim.line_state = 1 THEN -1 ELSE 0]
  /\ errors' = IF sim.line_state = 1 THEN errors \cup {"simulator"} ELSE errors
  /\ UNCHANGED <<transmitter, call, printed, run, testbench>>

DataBits(value) == value % 2 ^ data_bits

SimBit ==
  /\ AtSample /\ sim.bit_num \in 0 .. data_bits + stop_bits - 1
  /\ LET value == sim.byte_val + sim.line_state * 2 ^ sim.bit_num
         bits  == sim.bit_num + 1
         done  == bits = data_bits + stop_bits
         good  == value \div 2 ^ data_bits = 2 ^ stop_bits - 1
         u     == [Sampled(sim) EXCEPT !.counter = oversampling, !.bit_num = bits,
                                       !.byte_val = value]
     IN  /\ sim' = IF ~done THEN u
                   ELSE IF ~good THEN [u EXCEPT !.idle = TRUE]
                   ELSE [u EXCEPT !.idle = TRUE, !.byte_val = DataBits(value),
                                  !.rxb = DataBits(value)]
         /\ errors' = IF done /\ ~good THEN errors \cup {"simulator"} ELSE errors
  /\ UNCHANGED <<transmitter, call, printed, run, testbench>>

(* The line changes after the samples before it; simg prints what came, or *)
(* stops when it was the end of file.                                      *)
TxReturn ==
  /\ call # NoCall /\ ~Sampling
  /\ sim' = [sim EXCEPT !.line_state = call.value, !.rxb = -1]
  /\ call' = NoCall
  /\ run' = (sim.rxb # EndOfFile)
  /\ printed' = IF sim.rxb \in {-1, EndOfFile} THEN printed ELSE Append(printed, sim.rxb)
  /\ UNCHANGED <<transmitter, testbench, errors>>

(***************************************************************************)
(* tb_serial.v.  A clock edge sees the line as the edge before left it.    *)
(***************************************************************************)
HalfBit == CLOCK_HZ \div (BIT_RATE_HZ * 2)

TbStart ==
  /\ ~finished /\ tb.idle /\ uart_tx = 0 /\ call = NoCall
  /\ tb' = [tb EXCEPT !.idle = FALSE, !.bit_counter = 0, !.sample_at = last + 1 + HalfBit]
  /\ UNCHANGED <<transmitter, simulator, written, finished, errors>>

(* Mutant of Shifted: the first bit becomes the highest.                   *)
ShiftedUp(shifter, bit) == (shifter * 2 + bit) % 256

Shifted(shifter, bit) == bit * 128 + shifter \div 2

StopBit == data_bits + 1

TbSample ==
  /\ ~finished /\ ~tb.idle /\ call = NoCall
  /\ IF due = -1 THEN Len(sent) = MaxChars ELSE tb.sample_at <= due
  /\ LET next == [tb EXCEPT !.sample_at = @ + CLOCK_HZ \div BIT_RATE_HZ, !.bit_counter = @ + 1]
     IN  \/ /\ tb.bit_counter = 0
            /\ tb' = next
            /\ errors' = IF uart_tx = 1 THEN errors \cup {"testbench"} ELSE errors
            /\ UNCHANGED <<written, finished>>
         \/ /\ tb.bit_counter \in 1 .. StopBit - 1
            /\ tb' = [next EXCEPT !.shifter = Shifted(tb.shifter, uart_tx)]
            /\ UNCHANGED <<written, finished, errors>>
         \/ /\ tb.bit_counter = StopBit
            /\ tb' = [next EXCEPT !.idle = TRUE]
            /\ errors' = IF uart_tx = 1 THEN errors ELSE errors \cup {"testbench"}
            /\ finished' = (uart_tx = 1 /\ tb.shifter = EndOfFile)
            /\ written' = IF uart_tx = 1 /\ tb.shifter # EndOfFile
                          THEN Append(written, tb.shifter) ELSE written
  /\ UNCHANGED <<transmitter, simulator>>

Init ==
  /\ sent = <<>> /\ temp = 0 /\ count = 0 /\ due = -1 /\ last = 0 /\ uart_tx = 1
  /\ call = NoCall /\ sim = NewUART /\ printed = <<>> /\ run = TRUE
  /\ tb = [idle |-> TRUE, bit_counter |-> 0, sample_at |-> 0, shifter |-> 0]
  /\ written = <<>> /\ finished = FALSE /\ errors = {}

Receive == SimIdle \/ SimCount \/ SimStart \/ SimBit \/ TxReturn \/ TbStart \/ TbSample
Next == UartTxChar \/ Uarttxr \/ Receive

(* The clock runs: a transmission begun and the receivers proceed.  That   *)
(* the program writes another character is not assumed.                    *)
Spec == Init /\ [][Next]_vars /\ WF_vars(Uarttxr \/ Receive)

(***************************************************************************)
(* What the rates must be for this to work.  Bit k of a character is       *)
(* sampled TbOffset(k) cycles after its edge by the testbench, and         *)
(* SimOffset(k) to SimOffset(k) + CLOCK_HZ after it by uart.py, in units   *)
(* of 1 / SampleRate of a cycle; a character is drifted across by nine     *)
(* times the difference between the bits' lengths.  All the program needs  *)
(* is that the first and the last bit are still centred, and that a stop   *)
(* bit lasts as long as another one.                                       *)
(***************************************************************************)
Centred(offset, unit) == 6 * offset \in unit * BitCycles .. 5 * unit * BitCycles

TbOffset(bit)  == 1 + HalfBit + bit * (CLOCK_HZ \div BIT_RATE_HZ - BitCycles)

SimOffset(bit) == (oversampling \div 2) * CLOCK_HZ
                    + bit * (oversampling * CLOCK_HZ - SampleRate * BitCycles)

ASSUME RatesAssumption ==
  /\ \A gap \in Gaps : gap >= BitCycles
  /\ \A bit \in {0, data_bits + stop_bits} :
       /\ Centred(TbOffset(bit), 1)
       /\ Centred(SimOffset(bit), SampleRate) /\ Centred(SimOffset(bit) + CLOCK_HZ, SampleRate)

(* A receiver samples bit k of a character while bit k is on the line, at  *)
(* least a sixth of a bit away from either edge, though bits last 228      *)
(* cycles where it expects 234 and uart.py may first look at a start bit a *)
(* sixteenth late; neither ever reports a framing error.                   *)
SampledInTheMiddle ==
  /\ errors = {}
  /\ (~tb.idle /\ call = NoCall /\ due # -1 /\ tb.sample_at <= due) =>
       tb.bit_counter = 9 - (count % 10) /\ Centred(tb.sample_at - last, 1)
  /\ (AtSample /\ sim.bit_num < 8) =>
       /\ sim.bit_num = 7 - count
       /\ Centred(sim.sample_cycle - (call.cycle - BitCycles) * SampleRate, SampleRate)

(* Both receivers implement the line: simg shows a character at the first  *)
(* uarttxr of the next one, the testbench within the stop bit.  Both stop  *)
(* at the first 0x04 instead of showing it.                                *)
Simulated == INSTANCE SerialLine
               WITH shown <- printed, open <- run, Chars <- Bytes, Lag <- 1, End <- EndOfFile
Observed  == INSTANCE SerialLine
               WITH shown <- written, open <- ~finished, Chars <- Bytes, Lag <- 1, End <- EndOfFile

SimulatorShowsTheLine == Simulated!Spec
TestbenchShowsTheLine == Observed!Spec

(* A character that another one follows is shown by each receiver, unless  *)
(* it has stopped; the testbench shows the last one too, without another.  *)
EachIsShown ==
  \A n \in 1 .. MaxChars :
    /\ (Len(sent) > n) ~> (Len(printed) >= n \/ ~run)
    /\ (Len(sent) > n \/ Len(sent) = MaxChars) ~> (Len(written) >= n \/ finished)
=============================================================================
