# A verification development for Glacial

Glacial is an 8-bit microcoded CPU (`src/verilog/glacial.v`) whose microprogram
(`src/ucode/ucode.asm`) interprets RV32I. Around the two stand the tools that
assemble and simulate the microprogram and compose memory images
(`src/ucode/tools`). This directory holds TLA+ models of that code, the TLC runs
that check them on small instances, and theorems about them checked by TLAPS.

    tlc -config Traps.cfg MCRv32Traps.tla      # a run (see the table below)
    tlapm Rv32Proofs.tla                       # a module of proofs

`PROJECT.json` lists the runs, the source lines every definition stands for,
the mutants that show each property can fail, the findings, the hazards and
the theorems.

## 1. Inventory of the system

| component | source | state | operations | what makes it correct |
|---|---|---|---|---|
| RV32I interpreter | `ucode/ucode.asm` | scratchpad: `x1`.. `x31`, `nextpc`, CSRs `mstatus` .. `mip`, `dest`, `s1`, `s2`, `temp`, `temp2`, `pc`, `ir`; RISC-V memory above `riscv_mem_offset` | `uc_reset`, `main_loop` (alignment check, `mtime`, `mtimecmp`), `loop2` (interrupts), `trap`, `trap1`, `loop3` (fetch), 11 kinds of instruction | the program sees atomic instructions and traps; a trapping instruction has no effect but a few that can be named; time advances; pending interrupts are taken; the microcode cannot be overwritten |
| field extraction | `ucode/ucode.asm` 1371-1693 | `ir` | `get_rs1`, `get_rs2`, `put_rd`, `get_uimm5`, `get_imm12_i/s/b`, `get_imm20_j`, `dispatch_funct3` | every bit comes from where the RV32I format says |
| ALU routines | `ucode/ucode.asm` 599-793, 930-981, 1781-1796 | `s1`, `s2`, `dest` | add, sub, shifts, comparisons, logic, branch conditions | each ends, with the 32-bit result |
| UART transmitter and receivers | `ucode/ucode.asm` 1798-1829, `ucode/tools/uart.py`, `verilog/tb_serial.v` | the line, `temp`, a delay count; each receiver's sample counter and shifter | `uart_tx_char`; `UART.tx` and the sampling loop; the testbench's counter | each byte sent up to the first 0x04 is shown, once and in order |
| Glacial CPU | `verilog/glacial.v`, `verilog/sram.v` | `phase`, `pc`, `ret`, `ir`, `ac`, `cy`, `x`, `y`, `tick`, `uart_tx`, RAM | four phases per instruction; reset; tick latch | each instruction has the effect the simulator gives it |
| simulator | `ucode/tools/simg` | the same at the level of instructions | one method per opcode | the same machine as the RTL |
| assembler | `ucode/tools/asg` | symbol table, condition stack, location, object code | two passes, `if`/`else`/`endif`, macros | both passes agree |
| expressions | `ucode/tools/expressionparser.py` | a grammar | parse, nest operands, evaluate | a text has the value the precedences give it, or is refused |
| encoding | `ucode/tools/glacial.py` | the table of forms | assemble, decode | inverse to each other; no value is cut |
| memory, Intel HEX | `ucode/tools/memory.py`, `intelhex.py` | data and validity of each byte; a file | set, ranges, truncate, interleave; write and read records | what is written is read back |
| image builder | `ucode/tools/vmem`, `elf.py`, `elfdefs.py` | an image, headers and segments | read microcode, read ELF files, place segments | each loadable byte at its address, the microcode intact |
| parser library | `ucode/tools/pyparsing.py` | a graph of elements; the stack, the packrat cache | `_parse` and the `parseImpl` of each class, `streamline`, `parseString`, `scanString` | the same result with and without cache and `streamline`; no action while alternatives are compared; it ends |
| testbench | `verilog/testbench.v`, `sim_main.cpp` | clock, reset | loads images, runs | - |

How they interact. The microcode and the RISC-V program share one RAM: a RISC-V
address is moved up by `riscv_mem_offset`, modulo the RAM size, and one carry
decides whether it faults. The reset input sets the microprogram counter to 0
and leaves the RAM as it is. Time is not a clock: `mtime` and `mtimecmp` are
RAM words the main loop reads and writes between two instructions, and a store
to `mtimecmp` clears `mip.MTIP`. The UART line is written by an instruction and
sampled by receivers that share only an assumption on time with it. The tools
pass files on: `asg` reads expressions through the parser library, encodes
instructions into a `Memory` and writes a HEX file; `simg` and `vmem` read it;
`vmem` finds the offset of the RISC-V memory in the microcode at address 2 and
puts the segments of ELF files behind it.

What is hard. The interpreter is sequential, but it is *entered* from outside by
resets, and its control flow is a mesh: traps are raised in the middle of
subroutines and re-enter the main loop past the timer and the interrupt check,
`pc` and `nextpc` disagree for most of the time, and arithmetic is done a byte
at a time with a carry that survives from one routine to the next. The CPU
spreads an instruction over four clocks and reads memory a phase ahead. The
simulator's receiver sees the line only when the transmitter next changes it.
`Memory` keeps data and validity in two arrays that slices can resize. The
parser tries alternatives before it takes them, keeps their results in a cache
and rearranges its own grammar. The tests of the repository (the RISC-V
compliance suite) run one instruction after another; they do none of this
deliberately. The hazards are in `PROJECT.json`, each at its line.

## 2. Modules

    Words                        bytes and words, a byte size as parameter
    Rv32Ucode                    the interpreter, one action per label
      TrapDiscipline             what traps promise (abstract specification)
      Rv32Traps                  properties; Rv32Ucode implements TrapDiscipline
        Rv32Instret              history variables: mtime counts instructions
      Rv32Proofs                 its theorems
    Fields                       extraction of fields and immediates
      Alu                        op, op-imm and the conditions of branches,
                                 on the words that Fields decodes
      AluProofs                  the theorems of both

    GlacialRTL, GlacialProofs    the CPU, a clock at a time
    InstructionSet               the table of forms, decoding
      InstructionSetLemmas       words and their bits; every word's entry
    SimG                         the simulator (abstract specification)
    Microarchitecture            GlacialRTL implements SimG

    SerialLine                   what a line promises (abstract specification)
    UartLine                     transmitter and two receivers implement it
      UartProofs                 for any rates that keep a bit's middle apart
                                 from its edges

    ByteMemory                   class Memory as operators
    MemoryOps                    a Memory under any calls
    HexFile                      writing, damaging and reading a HEX file
    ImageBuilder                 vmem with elf.py
    Encoding                     assembling and decoding (with InstructionSet)
    ImageTools                   the four tools as one specification
      ImageToolsProofs           Memory, encoding and decoding, the image builder
        HexProofs                HEX files; the types of all four tools

    PegElements, PegImpl         the elements of pyparsing, their parseImpl
    PegParse                     the stack machine, caches and drivers
      PegSafety                  what a parse never does
      PegProofs                  its theorems, for every grammar
    PegEval                      the same by recursion (reference)
    PegBuild, Expression         building grammars; the assembler's expressions
    PegChecks                    PegSafety and the comparisons with a reference

    MC*                          instances for TLC

### Rv32Ucode

| variable | in the code |
|---|---|
| `upc` | the label the microprogram is at |
| `rloop` | words the loop at `rloop` has still to clear (`temp`) |
| `ac` | the accumulator at `trap`: the cause |
| `nextpc`, `pc`, `ir` | the scratchpad words; `ir` is kept decoded |
| `x` | `x1` ..; `x0` has no storage |
| `csr` | cells from `csr_300_start`; cells 7 and 13-15, which are `dest`, `s1`, `s2` and `temp`, are reachable by a CSR instruction but not state |
| `mem` | the RAM, bytes below `Offset` being the microcode and the scratchpad |

`UcReset` and `RLoop` are the reset loop; `MainLoopMisaligned` and
`PcAlignmentOk` the two ways out of `main_loop` (the second advances `mtime`,
`TickedMem`, and compares it, `TimeReached`); `Interrupt` and `NoInterrupt`
those out of `loop2`; `Trap`, `Trap1` and `Fetch` the labels `trap`, `trap1` and
`loop3`; `Execute` is the jump table at `inst_32bit` with one alternative per
kind of instruction, each with its own traps in the order in which the code
checks. `ExternalReset` is the reset input of `glacial.v`.

Abstractions:

- A routine between two labels is one step. A reset is therefore seen at the
  labels only; a reset that tears `put_rd`, a store or the update of `mtime` is
  not modelled (these words are not cleared by `uc_reset`).
- The instruction at address `a` is any member of `Code(a)`, at every fetch.
  This covers self-modifying programs and all programs of a set at once, and is
  independent of `mem`: properties that hold, hold for each of them.
- `op` and `op-imm` deliver any word of `Samples`: nothing in these properties
  depends on which; what they do compute is `Alu`'s subject. Reads of the
  scratch cells do the same.
- The immediate of an instruction is what `Fields` says is delivered; in
  particular that of `jal` is the one `get_imm20_j` computes.
- The UART instruction (`custom-0`) changes nothing a program can read.
- The build is the repository's: no vectored interrupts, no external clock tick,
  two address bytes. `ft_misaligned_data_trap` is the parameter
  `MisalignedDataTrap`.

### TrapDiscipline and Rv32Traps

`TrapDiscipline` has six steps: an ordinary instruction, a CSR write, `mret`, an
exception, an interrupt, a reset. `Rv32Traps` maps the interpreter to it: a trap
happens when `mcause` is written (`trap`, `loop2`), so at `trap1` the abstract
`pc` is already the vector and `mepc` already `pc`; a completed instruction
happens when `main_loop` is reached, and a jump to a misaligned address is still
in progress until its trap. What a reader learns from the abstract specification
is also what the code does *not* do: `mret` leaves `mpie` alone, so that a
second `mret` enables interrupts as the first did, and with a misaligned `mepc`
it is `mret` itself that is reported as the trapping instruction, with the
enable already restored.

### Rv32Instret

With `ft_external_clock_tick = 0` "mtime counts RISC-V instructions executed"
(`ucode.asm:37`). Three history variables make that a state predicate: the time
at power-up plus the completed instructions plus the one in progress. An
instruction that traps hands its count on to the first instruction of the
handler; a trap is not counted. The history stops when the program itself
stores to `mtime`.

### Fields and Alu

`Fields` gives each routine by the bytes it delivers from the bytes of `ir`, and
compares them with the RV32I layout bit by bit. The state machine only
enumerates words: from each base word, up to `MaxToggles` bits are toggled.

`Alu` composes this with the arithmetic: it follows one instruction word of
`Instructions` from `inst_32bit`, with opcode, `funct3`, registers and immediate
as `Fields` decodes them, to where the routine hands its result on, in the bytes
of `s1`, `s2` and `dest` and the carry: a routine, or one round of a shift, is a
step. Any other word is only decoded (`DecodeOnly`). The registers hold any of
`Firsts` and `Seconds`, `x0` zero. `Leftovers` is what the instruction before left
in `dest`. The reference (`Result`, `Taken`) says of each bit of the result what
RV32I says, without arithmetic on words: a sum by its carries, an order by the
highest bit that differs, a shift by where the bit comes from.

### GlacialRTL, SimG, Microarchitecture

A step of `GlacialRTL` is a clock. Each `always` block is an operator that gives
the new value of its register (`NewPc`, `NewIr`, ...), each control signal an
operator with its name in the code; `mem` is read or written at the falling
edge, through `mem_addr`. `in` is what the inputs `xint`, `xtick` and `reset`
are in this clock, any member of `inputs`. `begun` is a history variable.

`SimG` is `execute_single`: decode the word at `pc`, run the method of its
mnemonic. Nothing in `simg` sets the interrupt or the tick, so in the model they
may be raised at any time. `Microarchitecture` maps the CPU to it: registers are
the same at every clock except `pc` and the carry, which the CPU moves on early
and which are therefore those at the beginning of the instruction. `Described`
lists what is left out of the comparison, section 5.

### SerialLine and UartLine

The transmitter's `Uarttxr` puts a bit on the line and is next due `BitCycles`
later: nine instructions and a delay loop, `Delay` being the assembler's
expression for the loop count. `uart.py` is called at each `uarttx` with the
cycle and catches up on all its samples since (`SimIdle`, `SimCount`,
`SimStart`, `SimBit`, then `TxReturn` takes the new level); `tb_serial.v` counts
clocks (`TbStart`, `TbSample`). A step goes from one sample, or one change of
the line, to the next; the steps of the two sides are ordered by their cycle.
The abstract line has three variables: what was sent, what was shown, and
whether the receiver is still open.

Both receivers stop at the character 0x04 instead of showing it: `simg` leaves
its loop (`run`), the testbench calls `$finish` (`finished`). They belong to two
simulations of one program, each of which ends for itself: the line goes on for
the other, and a `simg` that has stopped makes no call any more. In `SerialLine`
this is `Stop`, and what is sent afterwards is not seen (`End`).

The three parties share no clock, only rates: a bit lasts 228 cycles as the
microcode sends it and 234 as both receivers count it, and `uart.py` may find a
start bit a sample late. `RatesAssumption` is what the line needs of those
numbers, and all it needs: the instants at which the first and the last bit of
a character are sampled (`TbOffset`, `SimOffset`) lie at least a sixth of a bit
from its edges, and between two characters the line stays high for a bit. TLC
evaluates it for the rates of the code. The margin is a sixth and no more: a
fifth holds for most pauses and fails when a start bit begins exactly on a
sample of `uart.py`.

### ByteMemory, MemoryOps, HexFile, ImageBuilder, Encoding, ImageTools

`ByteMemory` models every method of `Memory`: an operation returns what was
raised and the memory left behind. Python's slices are modelled by what they do
to a `bytearray`, past its end as well, where it grows while `size` stays.
`MemoryOps` calls the methods in any order, with a stepped slice that ends
within the memory (`StoreStepped`) or past it (`StoreSteppedPastEnd`), where the
data are stored before the flags turn out to be too many. Left out are an
assignment of no bytes to a stepped slice, and the value of another length than
its plain slice, which moves what lies behind it; `vmem` makes the second (line
91), and `ImageBuilder` models it. `HexFile` writes a file a range and
a record at a time, damages it once (cut, a lost, repeated or swapped line, a
changed token), and reads it record by record; a token is a colon, a byte in
hexadecimal, or neither. `ImageBuilder` is `vmem`: each header of each ELF file
is a step that may stop with the exception the code raises. `Encoding` has two
actions, assembling a line and decoding a word; a field is the set of its bit
positions. `ImageTools` puts the four side by side: each tool is a process of
its own that starts and works on variables the others leave alone.

### PegElements, PegImpl, PegParse, PegSafety, PegEval, PegBuild, Expression, PegChecks

A grammar is a sequence of elements, a part an index. `PegElements` has the
constructors (with the flags `mayReturnEmpty`, `mayIndexError`,
`skipWhitespace`, ... the code sets) and the `parseImpl` of the elements without
parts. `PegImpl` writes the `parseImpl` of the others as what happens between
two calls of `_parse`: given the frame and the outcome of the last call it calls
again or is done. `PegParse` is the Python stack of such frames with the caches
(`_UnboundedCache`, `_FifoCache`), `streamline` and the drivers `parseString`
and `scanString`; `PegEval` is the same by recursion, without cache. `PegBuild`
has the operators and helpers that build grammars (`+`, `|`, `-`, `*`,
`delimitedList`, `nestedExpr`, `infixNotation`), `Expression` the grammar of
`expressionparser.py`, its nesting and evaluation, and a reference that splits a
text at the last of its loosest operators. Characters are strings of length
one, and a short alphabet stands for the code's (`nums` is three digits).

What an element of a grammar is, class by class, `IsElement` says; TLC finds it
of every grammar that the constructors and `PegBuild` give
(`GrammarsAssumption`), and the theorems assume no more of a grammar. A part may
come before or behind its element, so that grammars may be recursive in any way.
`PegSafety` has the properties that need no reference; it is a module apart from
`PegChecks` as the reference `PegEval` is a RECURSIVE operator, which TLAPS does
not take.

## 3. Runs

The interpreter's instances (`traps` to `interrupts`, `mtime_high`,
`timer_early`) have bytes of 3 bits and words of 12 (`ByteMod = 8`), a RAM of 64
bytes of which 8 are microcode and 56 RISC-V memory, `mtime` at 16 and
`mtimecmp` at 24 as in the code, and registers 0, 1 and 8. Three bits is the
least that has the bits 3, 7 and 11 of the status registers in one word and
keeps carries between bytes; words of four bytes keep the byte loops as they
are. `arithmetic`, `microarchitecture` and the encoding are at full width.

| run | what it asks | bound and why it is enough |
|---|---|---|
| `traps` | `ImplementsTraps`, `FetchAligned`, `StatusBitsPreserved`, `ResetClean`, `TypeOK`, with resets at any label | 4.2 million states. `mtime` stops at 5: five passes of `main_loop`, resets included, of about 3600 programs reach a trap inside a handler, a fault of the handler's first fetch, `mret` to a misaligned `mepc`, branches and calls to misaligned targets, and resets inside the reset loop |
| `memory` | `MicrocodeIntact`, `TrapEffectsLimited` | 2.0 million states. An access of every `funct3` at 18 addresses around `mtime`, `mtimecmp`, the end of memory and the wrap, or a `jal`, `jalr` or branch to a misaligned target, or a write to `mstatus`; then a write to `mepc` or an instruction of another kind, then `mret`. `mtime` stops at 3: each of the three exceptions that the property names occurs, a link written, an enable restored and a pending timer answered by an instruction that then traps |
| `timer` | `TimeCountsInstructions`, `TimerStaysPending` | `mtime` starts 2 before the wrap of its low word or at 0, and runs to 5; programs store to `mtimecmp`, `mtimecmph`, the address 16 above, write `mip`, trap and jump misaligned |
| `interrupts` | `InterruptServed` | the program stores 0 to `mtime` in its loop and in its handler, so that its runs are infinite and the bound `MTimeStop = 4095` is never reached: the property is decided by real lassos |
| `arithmetic` | `FieldsDecoded`, `Immediates`, `ComputesAsDefined` | 215 thousand states. 22 thousand words are decoded, four patterns with up to three bits toggled: a result bit depends on at most one bit, or on the sign bit, plus the carries and masks around it, which the all-ones and alternating bases exercise. Every operation of `op` and the branches on operands that are all zeros, all ones or (the first) an alternation, with one bit changed or none, and of `op-imm` on the same with immediates around 0 and -1: the carry runs through any number of bytes, signs agree and differ, equal operands and neighbours meet, both operands are one register or `x0`, and shifts go every number of rounds from 0 to 31 |
| `microarchitecture` | `AsSimulated`, `InFlight`, `TypeOK` | 160 thousand states: all 1024 combinations of the `opr` bits, and each other form with a choice of operands, from four register contents, followed by a second instruction that reads what the first left; `skb` that skips, jumps to the end of what `pc` reaches, instructions that store on themselves. Programs that look at the inputs run with all inputs, reset included, changing at every clock. `MaxExecuted = 3` covers both words and what follows |
| `uart_line` | `SampledInTheMiddle`, `SimulatorShowsTheLine`, `TestbenchShowsTheLine`, `EachIsShown` | 158 thousand states: the real clock and bit rate (divided by 14400, which changes no comparison), three characters out of 0, 0x04, an alternating one and one nearly all ones, back to back and after pauses that end between two samples of `uart.py` and exactly on one. Receivers resynchronise at each start bit, so an error in time cannot add up beyond one character; the third shows the state left by the first two, and that nothing is shown after a 0x04 |
| `toolchain` | eleven properties of the tools, below | 504 thousand states. `Memory` of 2 bytes growing to 4, two values and one that no byte holds; HEX images of 6 bytes with every pattern of validity, bytes of 2 bits so that addresses take two bytes and sums wrap, lines of 2, one fault of six kinds at every place; one or two ELF files of 0 to 2 segments, equal, overlapping and beyond memory, every defect of a header; every 16-bit word and every mnemonic with operands on both sides of each field's limit |
| `parser` | nine properties of parsing, below | 153 thousand states: some 800 grammars, elements within elements to depth three, every token, actions that raise, error stops, ignorables, repetition, look-ahead and look-behind, recursion, and the expression grammar two or three levels at a time; inputs up to 6 characters, with three kinds of cache; `CacheSize = 3` so that entries are evicted in mid-parse; `MaxDepth = 80` is only reached by left recursion |
| `mtime_high` | a comment: `mtime[h]` is incremented | violated, see 5 |
| `timer_early` | a comment: MTIP is set when `mtime >= mtimecmp` | violated, see 5 |
| `jal_offset` | a comment: offset bit 11 is `ir[20]` | violated, see 5 |

What `toolchain` shows. Ranges found one after the other are the valid bytes
(`RangesCover`); a call of `Memory` that raises leaves it as it was, but for the
stored data of a stepped slice past the end, which keeps every flag and the
length (`FailureIsContained`), and write-once bytes are never overwritten (`WriteOnce`);
an undamaged HEX file is read back as written (`HexRoundTrip`), a damaged one
gives no byte that was not there (`NeverInvents`; the target must be as large as
the image, as bytes that are appended to a smaller one are not at their
addresses), and writing ends if the last
byte of the image is not valid (`WriteEnds`; with a valid last byte it does not,
see 5). Segments lie where their headers say as long as `elf.py` takes their
contents from the right place (`ImagePlaced`), and no object reaches the
microcode (`MicrocodeKept`). Assembling and decoding are inverse
(`EncodingRoundTrip`) and no two words are decoded alike (`NoBitIgnored`).

What `parser` shows. With any cache, and after `streamline`, a parse gives what
the grammar as built gives without one (`SameAsBuilt`), and so does each cached
result (`CacheSound`). Tokens spell the text matched (`NothingLost`). Actions
do not run while alternatives are compared, nor in the look-ahead of `NotAny`,
`SkipTo` and operator tables (`ActionsWhenCommitted`); `FollowedBy` does run the
actions of what it looks ahead at, and `PrecededBy` and ignorables run theirs
anywhere, which the property has to except. An element that is
not said to match the empty string does not (`EmptyOnlyWhenSaid`), a failure
behind an error stop ends the parse (`ErrorStopIsFinal`), and parses end
(`Ends`). `ExpressionValue` compares the assembler's expressions with the
reference.

Deadlock checking is on for `parser`, where it shows that a parse can always go
on until it is at its end. It is off for the others, whose models do stop: at
`MTimeStop`, `MaxToggles`, `MaxExecuted`, after `MaxChars` characters, at the
end of one instruction of `Alu`, or when a tool has ended.

### Fairness

- `interrupts`: `WF_vars(Step)`, `arithmetic`: `WF_vars(AluNext)`. The clock of the
  CPU runs and no microinstruction waits for anything. Nothing is assumed of the
  reset input or of the program. An enabled and pending interrupt does not wait
  for ever: as the check at `loop2` is skipped after every trap entry, this
  depends on a trap clearing `mstatus.MIE`.
- `uart_line`: `WF_vars(Uarttxr \/ Receive)`. A transmission begun goes on and
  the receivers' clocks run; that the program sends another character is not
  assumed.
- `toolchain`: `WF_vars(HexWrite)`. The writing program runs; nothing is assumed
  of the disk or of whether the file is ever read.
- `parser`: weak fairness of `Next`, a sequential program that runs. It is
  written with `driver.phase = "end"` in the place of `~ENABLED <<Next>>_vars`,
  which is the same by the deadlock check and spares evaluating `ENABLED`.

## 4. Proofs

The theorems about the interpreter hold for every size of byte divisible by 8
(256 in the code), every size of RAM and offset that are multiples of 4, every
program `Code`, every memory image and every initial content of the registers,
from `ByteModAssumption`, `AndAssumption`, `LayoutAssumption`,
`ValueAssumption` and `CodeAssumption` only.

| theorem | statement |
|---|---|
| `Rv32Proofs!TypeCorrect` | `Spec => []TypeOK` |
| `AlwaysAligned` | `Spec => []FetchAligned` |
| `ResetIsClean` | `Spec => ResetClean` |
| `MicrocodeIsIntact` | `MisalignedDataTrap => (Spec => MicrocodeIntact)` |
| `TrapsArePrecise` | `Spec => TrapEffectsLimited` |
| `OtherBitsPreserved` | `Spec => StatusBitsPreserved` |
| `TimerIsKept` | `Spec => TimerStaysPending` |
| `TrapsImplemented` | `Spec => ImplementsTraps` |
| `TimeCounts` | `~ResetEnabled => (HistSpec => []TimeCountsInstructions)` |
| `InterruptsAreServed` | `FairSpec /\ ResetsEnd /\ []~InterruptBlocked => InterruptServed` |
| `AluProofs!DecodesFields` | `FieldsSpec => []FieldsDecoded` |
| `DecodesImmediates` | `FieldsSpec => []Immediates` |
| `ResultsAreCorrect` | `AluSpec => [](HandedOn => Correct)` |
| `EveryOperationEnds` | `AluSpec /\ NothingBlocks => ComputesAsDefined` |
| `GlacialProofs!TypeCorrect` | `Spec => []TypeOK` |
| `FlightIsCurrent` | `Spec => []InFlight` |
| `CpuAsSimulated` | `Spec => AsSimulated` |
| `ImageToolsProofs!EncodingIsReadBack` | `Spec => []EncodingRoundTrip` |
| `EncodingIsUnambiguous` | `Spec => []NoBitIgnored` |
| `FailedCallsAreContained` | `Spec => FailureIsContained` |
| `WrittenBytesStay` | `Spec => WriteOnce` |
| `RangesCoverValidBytes` | `Spec => []RangesCover` |
| `MicrocodeIsKept` | `Spec => []MicrocodeKept` |
| `ImageIsAsDescribed` | `Spec => []ImagePlaced` |
| `HexProofs!FileGivesBackImage` | `Spec => []HexRoundTrip` |
| `DamageNeverInvents` | `Spec => []NeverInvents` |
| `ToolsTypeCorrect` | `Spec => []TypeOK` |
| `UartProofs!SampledWell` | `Spec => []SampledInTheMiddle` |
| `SimulatorShows` | `Spec => SimulatorShowsTheLine` |
| `TestbenchShows` | `Spec => TestbenchShowsTheLine` |
| `PegProofs!TypeIsOK` | `Spec => []TypeOK` |
| `EmptyIsSaid` | `Spec => EmptyOnlyWhenSaid` |
| `ActionsAreCommitted` | `Spec => ActionsWhenCommitted` |
| `ErrorStopEndsParse` | `Spec => ErrorStopIsFinal` |

`TypeOK` of the interpreter is inductive. `FetchAligned` is, given the types:
`pc` changes only where it is checked (`pc_alignment_ok`) or masked (`trap1`).
`ResetClean` is a statement about the last step of a loop and needs
`ResetProgress`: the loop has cleared the cells from the top down to its
counter, also when a reset has restarted it. `TrapsImplemented` needs two facts
more (`TrapInv`): `nextpc` is `pc + 4` until an instruction changes it, so that
a CSR instruction goes on behind itself, and what `ac` holds at `trap` is the
code of an exception, which its type alone (0 .. 11) does not say. `Inv` in
`Rv32Proofs` is the conjunction of the four. `OtherBitsPreserved` and
`TimerIsKept` need the types only.

`TrapsArePrecise` is about the instruction that traps, whichever check it fails:
`ExecuteRaises` goes through those that raise at `inst_32bit`, of which a store
is the one that may have answered the timer (`TrappingStore`), `ExecuteMisaligns`
through those that complete with a misaligned `nextpc` and trap at the next
`main_loop`. What each may change is `TrapLimits`; that a jump has written its
link then and an `mret` has restored the enable is not excluded but named.

`MicrocodeIsIntact` rests on arithmetic of its own: an access that passes
`set_mem_addr` and is aligned cannot wrap, because RAM size and offset are
multiples of four. Without `MisalignedDataTrap`, a build the repository does not
make, a word store at the last addresses would go on past the end, so that the
hypothesis is necessary.

`TrapsImplemented` is a simulation proof: labels are classed as plain (the
mapping is the identity on the CSRs), `main_loop`, `trap1` and resetting
(`PlainView`, `MainView` and the like), and one lemma per
group of routines says which abstract step it is.

`TimeCounts` needs that a word written is the word read
back, for any size of a byte (`WordOfBytes`, `WordAtWritten`), and that modular
counts may be added in any order (`Adding`). Its invariant `CountInv` joins the
property to `NothingCounted`: until the reset loop is left nothing is counted.
The hypothesis `~ResetEnabled` is necessary: a reset after `mtime` was advanced
abandons the instruction that was counted, and `mtime` is not cleared.

`DecodesFields` and `DecodesImmediates` hold for every instruction word, `Bases`
and `MaxToggles` being arbitrary. A byte is the sum of its bits (`SumOfBits`)
and a sum of bits has these bits; the bytes each routine delivers are written as
sums of bits of `ir`. The only invariant needed is that `ir` is four bytes.

`ResultsAreCorrect` is the safety part of `ComputesAsDefined`, for all operands,
shift counts, register numbers and left-over words, where the run has 272
instruction words on a choice of operands: at `put_rd_main_loop` the bits of
`dest` are those that RV32I defines, and a branch has gone where it should. The
code adds bytes and the reference bits; `Addition` joins the two, as the carry
out of a byte is the one its highest bit sends on (`ByteAdder`, `SumByBytes`),
and a subtraction is the sum read the other way round (`Subtraction`). A
comparison is the carry out of the highest byte: the highest byte that differs
decides it, and in that byte the highest bit (`LessByBytes`, `BitDecides`,
`CompareUIs`); the signed one is the unsigned one with both signs turned over
(`SignedLess`). `AluInv` has what the routines need of the past: until it is
overwritten an operand is the one the routine was entered with, and a shift has
gone as many places as rounds are missing from its count (`Shifting`), which is
why `s2` may be both the count and an operand.

Two liveness properties are proved under the fairness of the specification,
`ComputesAsDefined` (`EveryOperationEnds`) and `InterruptServed`
(`InterruptsAreServed`). In both a rank, a natural number below a fixed bound,
falls with every step towards the goal: `Distance`, the rounds a shift has still
to go, and `Wait`, the labels between here and the interrupt check, for the
check that a trap entry passes over is behind a trap that clears MIE. The
provers have no induction over a number in a temporal formula, so the rank is
written in binary (`DigitsFall`): the highest digit can only fall and so is
constant in the end, then the next one is, and when all are no step is left
(`WaitShortens`, `Nearer`). What the provers cannot do is `ENABLED`, so that "a
next step exists" is a hypothesis of each, and the fairness would say nothing
where it failed. `NothingBlocks` is true if `Firsts` and `Seconds` are not empty
and branches among `Instructions` have one of the six functions that the model
follows. `InterruptBlocked` is false unless the interpreter is stopped by the
model's own bound `MTimeStop` or by an empty `Code` or `Samples`. `ResetsEnd` is
necessary: resets that come faster than the reset loop ends leave the enable and
the pending bit as they are, and nothing is served.

`FlightIsCurrent` holds for every program, every contents and any inputs at any
clock. `FlightInv` strengthens `InFlight` by `StillAtStart`: until the second
word half is fetched, `pc` is where the instruction began. In the last phase the
operand read before is still what the memory holds because the registers that
select it change only at the end of that phase, and the only write of an
instruction is in that phase too.

`CpuAsSimulated` is the refinement of `SimG`, for every program, every input and
every reset. `MovedOn` is its inductive part: between the first clock and the
last the CPU has changed nothing that the simulator's state maps to, `pc` and
the carry aside, which it moves on early by what the word fetched says. The last
clock is then compared with `execute_single` one mnemonic at a time
(`StoreStep`, `OperationStep`, `JumpStep`, `SkipStep`, `BranchStep`, `OprStep`).
The prover knows no bitwise operators: and, or and xor are constants. Of and and
xor only the range is assumed, of or that it joins a low byte and a high byte
(`OrAssumption`); the theorem does not depend on the rest of what they compute,
and the run gives them their values.

The proofs about decoding rest on `InstructionSetLemmas`: a word of 16 bits is
the sum of its digits and has these digits (`DigitsOfWord`, `WordOfDigits`); the
value of each field that occurs is a quotient and a remainder (`Field_0_7`, ...);
and for each word of the table there is one entry, which `OneEntry` finds from
its four highest digits. `EncodingIsReadBack` and `EncodingIsUnambiguous` hold
for any integers as operands and any set of words. `EncInv` records with the
word the operands it was made from: every field holds its operand and every
other bit is the form's (`Assembled`). From this the decoder's form is the
assembler's, as forms exclude each other and their fields do not overlap
(`WellFormed`).

The theorems about `Memory` hold for every size, every number and every slice
that `MemoryOps` has.
`MemoryInv` says that data and validity have the same length, the one property
all operations need of each other. `Safe` is what a call promises: a memory
again, the old one if it raised, and no valid byte of a write-once memory
changed. A stepped slice past the end may break the second part and has its own
(`Contained`, `SetSteppedPastEnd`): the data may be new,
every flag, the length and `write_once` are the old ones, and in a write-once
memory the valid bytes as well. It is proved for each operation (`SetSliceSafe`, `SetSteppedSafe`,
`TruncateSafe`, `InterleaveSafe`, ...); the splice of a Python slice is where
lengths change and is worked out in `SpliceSeq`. `RangeFound` is the search of
`next_valid_range`, and the precondition on the last byte is the one the code
needs (section 5).

In the part on `vmem` the program headers, the segments and the sort are recursive
functions on sequences of any length. Induction over an operator is not
available to the prover; `IndexInduction` is induction on a *set* of indices,
from the least element that is not in it, and `Iteration` uses it to turn a
recursive function into its two equations. `MicrocodeIsKept` needs `VmemInv`: the
image is a memory of at least the microcode's length, and the bytes below the
RISC-V program are those of the microcode, whatever the file says, as a segment
is placed from the offset upwards. `ImageIsAsDescribed` needs more: `PlaceInv`
says of the segments collected so far that they are the loaded headers, sorted
by address without changing the order of equals (`SortedFrom`), and of the image
that each byte holds what the last of the segments placed so far put there
(`Holds`). That last one is then the owner of the address (`OwnerIs`): sorting
keeps what an address belongs to. `ImageAssumption` is what both rest on: the
microcode read by `vmem` has the size of the memory, is not write-once, and its
word at address 2 is an offset within it; numbers of an ELF file are unsigned.

`HexProofs` is about the tokens of a file of any length. `DamageNeverInvents`
rests on two invariants. While it is undamaged a file is `AllLines`: every mark
begins a record that can be read and that says of the image what is true
(`GoodLine`), and the next begins behind it. Any file, damaged or not, is
`Fine`: no record that can be read is false. That one fault leads from the first
to the second is `DamageFine`, case by case. A line lost, repeated or exchanged
leaves whole lines, which may be cut at marks and joined again (`LinesBetween`,
`LinesJoined`); a cut or garbled file has no record that was not there
(`CutFine`, `GarbledFine`). A changed byte changes the sum of its record by less
than `ByteMod`, so that the record is refused (`ChecksumsDiffer`), unless it is
the length: a longer record runs into the next mark, and a shorter one, should a
byte of its data be the checksum it needs, has only bytes that are the image's
(`ChangedFine`). The sum is a recursive function, of which `ChecksumAdds` gives
the equations. The reader then stores true records only (`NoneInventedRead`).

`FileGivesBackImage` needs the order as well. `HexLaid` says that the records
written so far are in the order of their addresses, end where the writer is, and
between them have every valid byte below it; `HexTold` says of the reader that
nothing ahead of it is refused, that what lies behind it is in the target, and
that what the image does not have is as it was (`Onward`, `InPlace`,
`Untouched`). `next_valid_range` skips no valid byte (`RangeFrom`), and
truncating a memory that `read` made drops none (`CutKeeps`). That the writer
comes to an end is not part of it (`WriteEnds`). `HexAssumption` says what the
format can express: an image of as many bytes as two bytes can address, a line
whose length fits into one, a target that is not write-once.

`UartProofs` holds for any characters, any pauses, any number of characters and
any rates that satisfy `RatesAssumption`. Its invariant says where everything
is in the present character: `Element` is the part of it on the line, a start
bit, a data bit or a stop bit, `OnLine` its index and `Edge` the instant it
began. `LineInv` gives the level from these; `TbBusyInv` and `SimBusyInv` say
which element a receiver that is busy will sample next, at which distance from
its edge, and that the bits taken in so far are the low bits of the character
(`HasBits`). The distance drifts by the same amount with every bit, so that it
lies between that of the first and that of the last, which `RatesAssumption`
bounds (`Between`, `TbCentred`, `SimCentred`). The testbench's distance is exact;
that of `uart.py` has a range of one sample, `(SimOffset, SimOffset + CLOCK_HZ]`,
as a start bit may begin anywhere between two samples. From the distance follows
that a sample falls before the next edge and after the last, so that a step of
the transmitter finds each receiver one element further on (`NextBitTb`,
`NextBitSim`). `SimulatorShows` and `TestbenchShows` are then simulation proofs:
what is shown is a prefix of what was sent (`Prefix`), shorter by one at most
when the next character is accepted (`AcceptedLag`). A receiver that has stopped
is idle and left out of the invariant from then on; that it stops with all
characters before the first 0x04 shown, and shows none from there, is part of
the refinement.

`PegProofs` is about every grammar, recursive or not, whose elements are what
`IsElement` says, every input, any size of cache and any recursion limit
(`BoundsAssumption`, `GrammarsAssumption`, `ParsesAssumption`). A frame of the
Python stack is between two calls, so that no property of one frame is
inductive by itself: what it does next depends on the outcome it gets, and this
on what it asked for. `ParserInv` therefore describes the stack as a chain:
every frame `Expects` the call above it, which says for each class and phase
what `parseImpl` may have called there (`AwaitsAnd`, `AwaitsEach`,
`AwaitsMultiple`, ...), and an outcome `Answers` the call it was made for:
between the location of the call and one past the end of the string, and beyond
the location if the element is not said to match the empty string. The same
holds of every entry of the cache with its key, which is why a hit needs no
case of its own. Each `parseImpl` then has one lemma: from a frame and an answer
to what it expects, it goes on with a call that the new frame expects or
returns what its own call may (`GoesOn`, `AndGoes`, `EachGoes`, ...), and so has
each phase of `preParse`, `SkipTo` and the repetitions; `Moves` and `Follows`
carry this to the steps of the machine.

That a set of elements does not match the empty string is the other half. The
flag of a recursive grammar cannot be explained by its parts in any order of
construction, and does not need to: `Flagless` is the set of all elements
without the flag, and `Nonempty` says of each why it does not match the empty
string *if* the others of the set do not. The induction is the one on the
execution. `streamline` keeps it (`Replaces`, by induction on the elements that
are done): a part that is taken apart leaves parts that explain the same flag.
For `Each` it rests on the rounds of `tryParse` (`IsRound`): every required part
is still sought or is in the order found, so that the second pass parses it.

`TypeIsOK` is read off `ParserInv`. `EmptyIsSaid` and `ActionsAreCommitted` look
at the step: a frame that is popped (`Pops`) returns an answer of its own call,
and an action runs in a frame whose call asked for it, which by `ActsFor`
follows from the frame below having asked for it in a committed place or in a
`FollowedBy` (`LetsAct`), or from an ignorable or look-behind between. `ErrorStopEndsParse` needs of `ParserInv` only
that a frame is in a phase in which it has called; then each class is gone
through for what it does with a fatal exception (`ImplPasses`).

The attempts to prove these found five places in which the model or the
property said too little or too much: the string that `PrecededBy` cuts can be
shorter than the location it is called at, when its own call was one past the
end; `CloseMatch` excludes the lower bound; the search backwards of
`PrecededBy` catches fatal exceptions too, as `tryParse` does; a `Forward` used
in an element before `<<` leaves that element with the flag of the moment; and
an `Each` that has as a part the body of one of its `Optional`s parses the
`Optional` in its place. The properties now say so (`Base`, `Passes`,
`FlagIsCurrent`, `BodiesApart`), and the run has grammars in which each of the
five occurs.

Only model-checked:

- `EachIsShown`, `WriteEnds`, `Ends`: liveness under fairness whose rank has no
  bound that is the same for all values of the constants (the ticks of a pause,
  the bytes of an image, the steps of a parse), so that it would take an
  induction over a temporal formula;
- that the hypotheses with `ENABLED` of the two theorems on liveness hold: it
  shows in `arithmetic` and `interrupts`, which have the properties without them;
- `SameAsBuilt`, `CacheSound`, `NothingLost` and `ExpressionValue` of `parser`:
  they compare a parse with what a recursive definition gives for it, which
  takes an induction over that definition.

## 5. Where code and comments disagree

1. `ucode.asm:266-278` "increment mtime[h]": on a carry, `inc_temp2` has moved X
   one word on, and `mem_write_32_y` stores the word behind `temp2`, `pc`, to
   `mtimeh` (`mtime_high`).
2. `ucode.asm:313-315` "mtime >= mtimecmp, so set mip.mtip": the branch over it
   is taken when the carry is *set*, that is when the time has come
   (`timer_early`).
3. `ucode.asm:1648-1649` "s2[11] := ir[20]": the bit tested is `ir+3,4`, `ir[28]`.
   A jump of 256 goes 2304 bytes (`jal_offset`).

Noted while reading; no text of the repository says otherwise, or no run asks:

- Interpreter. `jal` and `jalr` write `rd` before a misaligned target traps;
  `mret` does not set `MPIE`; access faults and `ecall` leave `mtval`; a store
  to `mtimecmp` that traps has cleared MTIP; CSR numbers 0x307 and 0x345-0x347
  reach scratch cells; `ecall` and `ebreak` are accepted with bits 8 and 9 of
  the function number set.
- Simulator and CPU (`Described` leaves these out of the comparison). A rotation
  combined with `addapc` adds the accumulator before the rotation in the CPU and
  after it in `simg`. `opr` bits 10 and 11 use `self.spi`, which `simg` does not
  have, and do nothing in the CPU. `simg` lets `y` grow beyond the 16 bits of
  `doc/glacial_microarchitecture.tex:96` and `pc` beyond its 12. Words that
  `glacial.py` does not know are executed by the CPU.
- `memory.py`. The data of a slice are stored before its flags (lines 85-87): on
  four bytes `m[1:8:2] = [1, 2]` changes two of them and then raises. A slice
  with a step cannot be read (`TypeError` at line 67,
  though the module's own main program does it at line 147), nor can a slice be
  de-initialised (lines 94-96). `next_valid_range` gives an empty range for ever
  when the last byte of a memory is valid, so that `intelhex.py` never ends
  writing such an image.
- `glacial.py`. A jump target is documented as 13 bits (line 40) and stored
  in the 11 of lines 244 and 245; targets from 4096 on stop at the assertion of
  line 81.
- `elf.py` takes the contents of a segment `p_paddr` bytes behind `p_offset`,
  which is right only for segments at physical address 0 or by coincidence.
- `pyparsing.py`. `CloseMatch` returns a location counted from the start of the
  match (line 2619), so that it may go back. `-` puts its error stop into an
  `And` within: it is `streamline` that makes it effective. `Or`, `NotAny`,
  `Each` and `_FB` try through `tryParse`, which turns fatal exceptions into
  ordinary failures, as does the search backwards of `PrecededBy`. `FollowedBy`
  runs the actions of what it looks ahead at (line 3882); the parts `PrecededBy`
  looks back for, and ignorables, run theirs even where actions are off. `mayReturnEmpty` is computed once, in the constructor: an element
  that uses a `Forward` before its `<<` keeps a flag that is out of date, and a
  `Keyword` of no characters has a wrong one. An `Each` identifies a part with
  the `Optional` that has it as its body (line 3719), also where it is a part in
  its own right.

## 6. Not modelled

- The passes of the assembler (`asg`): a sequential walk over lines of text,
  with conditions and macros whose effect is decided by the text. Expressions
  and the encoding, which it is built around, are modelled.
- Of the interpreter: a reset within a routine, vectored interrupts and the
  external clock tick (off in the repository's build; the latch itself is in
  `GlacialRTL`). The composition of the microprogram, instruction by
  instruction, with the CPU is not modelled: a routine is a step.
- Of `simg`: breakpoints, the detection of a halt, tracing, its command line.
- Of `pyparsing.py`: results names and the dictionary side of `ParseResults`,
  debugging hooks and fail actions, `QuotedString`, `GoToColumn`, `Dict`,
  helpers for dates, HTML and indentation, the second `_FifoCache` (lines
  1528-1555, for Pythons without ordered dictionaries) and grammars that change
  while they parse.
- `testbench.v`, `sim_main.cpp`: clock generation, plusargs, loading of files.
- The contents of `elfdefs.py` beyond the codes `elf.py` checks, the command
  lines of all tools, documentation and build files: no behaviour of interest.

What would come next: a model of `uc_reset` and `put_rd` at the level of
microinstructions for resets that tear a word, and the conditional assembly of
`asg` as a stack machine.
