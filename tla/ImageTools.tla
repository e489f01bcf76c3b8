----------------------------- MODULE ImageTools -----------------------------
(***************************************************************************)
(* The tools in ucode/tools between the source of a program and the memory *)
(* image that is simulated or put into an FPGA.  Each is a process of its  *)
(* own: one starts, and works on a memory and variables that the others    *)
(* leave alone.  The question asked of all of them is the same: does every *)
(* byte, field and address arrive where the next tool looks for it.        *)
(***************************************************************************)
EXTENDS ByteMemory, InstructionSet

CONSTANTS
  Size, MaxLen, Values,                            (* MemoryOps            *)
  ByteMod, Images, Entries, BytesPerLine, Targets, (* HexFile              *)
  FreshSize,
  MemSize, Microcode, Objects, MaxObjects,         (* ImageBuilder         *)
  Opcodes, Numbers                                 (* Encoding             *)

ASSUME OpsAssumption ==
  Size \in Nat \ {0} /\ MaxLen \in Nat /\ Size <= MaxLen /\ Values \subseteq Int

(* The microcode fits into the memory, which may be overwritten, and the   *)
(* RISC-V memory behind it begins within; the numbers of an executable are *)
(* unsigned.                                                               *)
ASSUME ImageAssumption ==
  /\ MaxObjects \in Nat
  /\ Microcode \in [data : Seq(0 .. 255), valid : Seq(BOOLEAN), size : Nat, write_once : BOOLEAN]
  /\ Len(Microcode.data) >= 4 /\ Len(Microcode.valid) = Len(Microcode.data)
  /\ Len(Microcode.data) = MemSize /\ ~Microcode.write_once
  /\ Microcode.data[3] + 256 * Microcode.data[4] <= Len(Microcode.data)
  /\ \A f \in Objects :
       /\ f.contents \in Seq(0 .. 255)
       /\ f.phdrs \in Seq([p_type : Nat, p_offset : Nat, p_paddr : Nat, p_filesz : Nat])

ASSUME EncodingAssumption == Opcodes \subseteq 0 .. 2 ^ 16 - 1 /\ Numbers \subseteq Int

VARIABLES
  tool,        (* the tool that runs                                       *)
  mem, exc,    (* the memory it works on, the exception that stopped it    *)
  result,                                              (* MemoryOps        *)
  entry_addr, wpc, addr, sl, file, fault, rpc, pos,    (* HexFile          *)
  load_addr, target, out, read_entry,
  step, opened, elf, endian, width, ph_index,          (* ImageBuilder     *)
  prog_headers, segments, printed,
  mnem, operands, opcode, decoded                      (* Encoding         *)

Ops == INSTANCE MemoryOps WITH Bytes <- Values
Hex == INSTANCE HexFile
Img == INSTANCE ImageBuilder
Enc == INSTANCE Encoding

(* As many bytes as two of them can address, the memory that read makes    *)
(* for itself among them; what is read into is not write-once.             *)
IsImage(m, bytes) ==
  /\ m \in [data : Seq(bytes), valid : Seq(BOOLEAN), size : Nat, write_once : BOOLEAN]
  /\ Len(m.data) = m.size /\ Len(m.valid) = m.size

ASSUME HexAssumption ==
  /\ ByteMod \in 2 .. 256 /\ BytesPerLine \in 1 .. ByteMod - 1
  /\ FreshSize = ByteMod * ByteMod /\ Entries \subseteq 0 .. FreshSize - 1
  /\ \A m \in Images : IsImage(m, 0 .. ByteMod - 1) /\ m.size <= FreshSize
  /\ \A t \in Targets : t = Hex!NoMemory \/ (IsImage(t, 0 .. 255) /\ ~t.write_once)

hexvars == <<entry_addr, wpc, addr, sl, file, fault, rpc, pos, load_addr, target, out, read_entry>>
imgvars == <<step, opened, elf, endian, width, ph_index, prog_headers, segments, printed>>
encvars == <<mnem, operands, opcode, decoded>>
vars    == <<tool, mem, exc, result, hexvars, imgvars, encvars>>

(***************************************************************************)
(* What a tool that does not run leaves its variables at                   *)
(***************************************************************************)
NoMem    == Memory(0, FALSE)
NoObject == [phdrs |-> <<>>]
OpsIdle  == result = "ok"
HexIdle ==
  /\ entry_addr = 0 /\ wpc = "done" /\ addr = 0 /\ sl = Hex!NoRange /\ file = <<>>
  /\ fault = "none" /\ rpc = "done" /\ pos = 1 /\ load_addr = 0 /\ target = Hex!NoMemory
  /\ out = NoMem /\ read_entry = 0
ImgIdle ==
  /\ step = "stopped" /\ opened = 0 /\ elf = NoObject /\ endian = ""
  /\ width = 0 /\ ph_index = 0 /\ prog_headers = <<>> /\ segments = <<>> /\ printed = <<>>
EncIdle == mnem = Enc!NONE /\ operands = <<>> /\ opcode = -1 /\ decoded = Enc!NotDecoded

Init ==
  \/ tool = "memory"   /\ Ops!Init /\ exc = "ok" /\ HexIdle /\ ImgIdle /\ EncIdle
  \/ tool = "intelhex" /\ Hex!Init /\ exc = "ok" /\ OpsIdle /\ ImgIdle /\ EncIdle
  \/ tool = "vmem"     /\ Img!Init /\ OpsIdle /\ HexIdle /\ EncIdle
  \/ tool = "glacial"  /\ Enc!Init /\ mem = NoMem /\ OpsIdle /\ HexIdle /\ ImgIdle

OpsNext  == tool = "memory" /\ Ops!Next /\ UNCHANGED <<tool, exc, hexvars, imgvars, encvars>>
HexRest  == UNCHANGED <<tool, exc, result, imgvars, encvars>>
HexWrite == tool = "intelhex" /\ Hex!Write /\ HexRest
HexOther == tool = "intelhex" /\ (Hex!Damage \/ Hex!Read) /\ HexRest
ImgNext  == tool = "vmem" /\ Img!Next /\ UNCHANGED <<tool, result, hexvars, encvars>>
EncNext  == tool = "glacial" /\ Enc!Next /\ UNCHANGED <<tool, mem, result, hexvars, imgvars>>

Next == OpsNext \/ HexWrite \/ HexOther \/ ImgNext \/ EncNext

(* A program that writes a file goes on; nothing is assumed of the disk or *)
(* of whether the file is ever read.                                       *)
Spec == Init /\ [][Next]_vars /\ WF_vars(HexWrite)

(***************************************************************************)
(* Properties                                                              *)
(***************************************************************************)
TypeOK ==
  CASE tool = "memory"   -> Ops!TypeOK
    [] tool = "intelhex" -> Hex!TypeOK
    [] tool = "vmem"     -> Img!TypeOK
    [] tool = "glacial"  -> Enc!TypeOK

(* memory.py: the ranges found one after another are the valid bytes.      *)
RangesCover == tool = "memory" => Ops!RangesCover

(* memory.py: a call that raises leaves the memory as it was, but for the  *)
(* data of a stepped slice past the end.                                   *)
FailureIsContained == [][tool = "memory" => Ops!FailureIsContained]_vars

(* memory.py: with write_once a byte that stays valid keeps its value.     *)
WriteOnce == [][tool = "memory" => Ops!KeepsWritten]_vars

(* intelhex.py: what was written is read, and refused only if it is empty. *)
HexRoundTrip == tool = "intelhex" => Hex!RoundTrip

(* intelhex.py: a damaged file gives no byte that was not written.         *)
NeverInvents == tool = "intelhex" => Hex!NeverInvents

(* intelhex.py: writing ends.                                              *)
WriteEnds == Hex!WriteEnds

(* vmem, elf.py: the image is what the program headers describe.           *)
ImagePlaced == tool = "vmem" => Img!ImagePlaced

(* vmem, elf.py: no object reaches the microcode.                          *)
MicrocodeKept == tool = "vmem" => Img!MicrocodeKept

(* glacial.py: what the assembler wrote the simulator reads.               *)
EncodingRoundTrip == tool = "glacial" => Enc!RoundTrip

(* glacial.py: words that differ are decoded differently.                  *)
NoBitIgnored == tool = "glacial" => Enc!NoBitIgnored
=============================================================================
