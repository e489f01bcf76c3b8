---------------------------- MODULE ImageBuilder ----------------------------
(***************************************************************************)
(* vmem composes the memory of a simulation: a full memory, the microcode  *)
(* from its HEX file, then the segments of RISC-V executables read by      *)
(* elf.py, moved up by the offset the microcode holds at address 2.        *)
(***************************************************************************)
EXTENDS ByteMemory

CONSTANTS
  MemSize,     (* --memsize                                                *)
  Microcode,   (* the memory after the HEX file has been read into it      *)
  Objects,     (* ELF files: ident, header, program headers and contents   *)
  MaxObjects   (* bounds the command line                                  *)

VARIABLES
  step,            (* where the program is                                 *)
  exc,             (* what stopped it                                      *)
  mem, opened,     (* the image; the number of objects read                *)
  elf, endian, width,      (* the file being read, what its ident says     *)
  ph_index, prog_headers,  (* the loop of parse_headers                    *)
  segments,                (* still to be placed, the first one next       *)
  printed                  (* the bytes of the output file                 *)

ivars == <<elf, endian, width, ph_index, prog_headers, segments>>
vars  == <<step, exc, mem, opened, ivars, printed>>

(***************************************************************************)
(* elfdefs.py: the codes the enumerations name                             *)
(***************************************************************************)
ET == (0 .. 4) \cup {65024, 65279, 65280, 65535}
ET_EXEC == 2
EM == (0 .. 10) \cup (15 .. 23) \cup (36 .. 71) \cup {72, 73, 74}
        \cup (76 .. 144) \cup (160 .. 181) \cup {183} \cup (185 .. 224) \cup {243}
EM_RISCV == 243
PT == (0 .. 6) \cup {1610612736, 1879048191, 1879048192, 2147483647}
PT_LOAD == 1

(***************************************************************************)
(* ElfFileIdentHeader: the first thing that is wrong.  The message for a   *)
(* wrong version names a variable that does not exist.                     *)
(***************************************************************************)
IdentError(ident) ==
  IF ~ident.magic THEN "ElfError"
  ELSE IF ident.class \notin {1, 2} THEN "ElfError"
  ELSE IF ident.data \notin {1, 2} THEN "ElfError"
  ELSE IF ident.version # 1 THEN "NameError"
  ELSE IF ~ident.pad THEN "ElfError"
  ELSE "ok"

(* The sizes of the fields behind the ident, for addresses of a width.     *)
FileFields(w) == <<2, 2, 4, w \div 8, w \div 8, w \div 8, 4, 2, 2, 2, 2, 2, 2>>

HeaderEnd(w) ==
  LET end[i \in 0 .. Len(FileFields(w))] ==
        IF i = 0 THEN 16 ELSE end[i - 1] + FileFields(w)[i]
  IN  end[Len(FileFields(w))]

(* ElfFileHeader and the checks of parse_headers                           *)
HeaderError(header) ==
  IF header.e_ehsize # HeaderEnd(width) THEN "ElfError"
  ELSE IF header.e_type # ET_EXEC THEN "ElfError"
  ELSE IF header.e_machine # EM_RISCV THEN "ElfError"
  ELSE "ok"

Loaded(ph) == ph.p_type = PT_LOAD /\ ph.p_filesz # 0

(* Mutant of SortedByAddress: file order.                                  *)
SortedByAddressNot(s) == s

(* list.sort is stable: among equal addresses the order of the file stays. *)
SortedByAddress(s) ==
  LET sorted[n \in 0 .. Len(s)] ==
        IF n = 0 THEN <<>>
        ELSE LET t == sorted[n - 1]
                 k == Cardinality({i \in 1 .. Len(t) : t[i].p_paddr <= s[n].p_paddr})
             IN  SubSeq(t, 1, k) \o <<s[n]>> \o SubSeq(t, k + 1, Len(t))
  IN  sorted[Len(s)]

(* The contents are taken p_paddr bytes behind p_offset.                   *)
ElfSegment(contents, ph) ==
  LET eaddr == ph.p_paddr + ph.p_filesz - 1
  IN  [paddr |-> ph.p_paddr, eaddr |-> eaddr,
       data |-> Slice(contents, ph.p_offset + ph.p_paddr, ph.p_offset + eaddr + 1)]

(***************************************************************************)
(* vmem                                                                    *)
(***************************************************************************)
(* Read from the memory once, between the HEX file and the executables.    *)
RiscvMemOffset == Microcode.data[3] + 256 * Microcode.data[4]

Stop(e) == exc' = e /\ step' = "stopped"

Init ==
  /\ step = "object" /\ exc = "ok" /\ opened = 0
  /\ mem = Microcode /\ printed = <<>>
  /\ elf \in Objects /\ endian = "" /\ width = 0
  /\ ph_index = 0 /\ prog_headers = <<>> /\ segments = <<>>

OpenObject ==
  /\ step = "object" /\ opened < MaxObjects
  /\ elf' \in Objects
  /\ opened' = opened + 1 /\ step' = "ident"
  /\ ph_index' = 0 /\ prog_headers' = <<>>
  /\ UNCHANGED <<exc, mem, endian, width, segments, printed>>

ReadIdent ==
  /\ step = "ident"
  /\ IF IdentError(elf.ident) = "ok"
     THEN /\ step' = "header"
          /\ width' = IF elf.ident.class = 1 THEN 32 ELSE 64
          /\ endian' = IF elf.ident.data = 1 THEN "<" ELSE ">"
          /\ UNCHANGED exc
     ELSE Stop(IdentError(elf.ident)) /\ UNCHANGED <<endian, width>>
  /\ UNCHANGED <<mem, opened, elf, ph_index, prog_headers, segments, printed>>

ReadHeader ==
  /\ step = "header"
  /\ IF HeaderError(elf.header) = "ok"
     THEN step' = "programs" /\ UNCHANGED exc
     ELSE Stop(HeaderError(elf.header))
  /\ UNCHANGED <<mem, opened, ivars, printed>>

ReadProgHeader ==
  /\ step = "programs" /\ ph_index < Len(elf.phdrs)
  /\ LET ph == elf.phdrs[ph_index + 1]
     IN  prog_headers' = IF Loaded(ph) THEN Append(prog_headers, ph) ELSE prog_headers
  /\ ph_index' = ph_index + 1
  /\ UNCHANGED <<step, exc, mem, opened, elf, endian, width, segments, printed>>

MakeSegments ==
  /\ step = "programs" /\ ph_index = Len(elf.phdrs)
  /\ LET s == SortedByAddress(prog_headers)
     IN  segments' = [i \in 1 .. Len(s) |-> ElfSegment(elf.contents, s[i])]
  /\ step' = "segments"
  /\ UNCHANGED <<exc, mem, opened, elf, endian, width, ph_index, prog_headers, printed>>

(* Mutant of PlaceSegment: the offset of the RISC-V memory is forgotten.   *)
PlaceSegmentUnmoved ==
  /\ step = "segments" /\ segments # <<>>
  /\ LET s == Head(segments)
     IN  mem' = SetSlice(mem, s.paddr, s.eaddr + 1, s.data).mem
  /\ segments' = Tail(segments)
  /\ UNCHANGED <<step, exc, opened, elf, endian, width, ph_index, prog_headers, printed>>

PlaceSegment ==
  /\ step = "segments" /\ segments # <<>>
  /\ LET s == Head(segments)
         o == RiscvMemOffset
     IN  mem' = SetSlice(mem, s.paddr + o, s.eaddr + 1 + o, s.data).mem
  /\ segments' = Tail(segments)
  /\ UNCHANGED <<step, exc, opened, elf, endian, width, ph_index, prog_headers, printed>>

NextObject ==
  /\ step = "segments" /\ segments = <<>>
  /\ step' = "object"
  /\ UNCHANGED <<exc, mem, opened, ivars, printed>>

(* write_readmemh iterates until an address raises IndexError, whichever   *)
(* of data and valid is the shorter; write_coe counts to len(memory).      *)
PrintReadmemh ==
  /\ step = "object"
  /\ printed' = Slice(mem.data, 0, Len(mem.valid))
  /\ Stop("ok")
  /\ UNCHANGED <<mem, opened, ivars>>

PrintCoe ==
  /\ step = "object"
  /\ printed' = Slice(mem.data, 0, mem.size)
  /\ Stop(IF mem.size > Min({Len(mem.data), Len(mem.valid)}) THEN "IndexError" ELSE "ok")
  /\ UNCHANGED <<mem, opened, ivars>>

Next ==
  \/ OpenObject \/ ReadIdent \/ ReadHeader \/ ReadProgHeader \/ MakeSegments
  \/ PlaceSegment \/ NextObject \/ PrintReadmemh \/ PrintCoe

Spec == Init /\ [][Next]_vars

(***************************************************************************)
(* Properties                                                              *)
(***************************************************************************)
TypeOK ==
  /\ step \in {"object", "ident", "header", "programs", "segments", "stopped"}
  /\ exc \in {"ok", "ElfError", "NameError", "IndexError"}
  /\ opened \in 0 .. MaxObjects /\ ph_index \in 0 .. Len(elf.phdrs)
  /\ endian \in {"", "<", ">"} /\ width \in {0, 32, 64}
  /\ mem.data \in Seq(0 .. 255) /\ mem.valid \in Seq(BOOLEAN)

(* An executable whose loaded segments all start at physical address 0, or *)
(* have the same bytes where elf.py looks for them: what it takes for the  *)
(* contents is the contents.                                               *)
TrueContents(object) ==
  \A i \in 1 .. Len(object.phdrs) :
    LET ph == object.phdrs[i]
    IN  Loaded(ph) =>
          ElfSegment(object.contents, ph).data
            = Slice(object.contents, ph.p_offset, ph.p_offset + ph.p_filesz)

(* Such an executable that lies within its file and within memory.         *)
Fits(object) ==
  \A i \in 1 .. Len(object.phdrs) :
    LET ph == object.phdrs[i]
    IN  Loaded(ph) => /\ ph.p_offset + ph.p_filesz <= Len(object.contents)
                      /\ ph.p_paddr + ph.p_filesz + RiscvMemOffset <= MemSize

(* The last segment of the file, in address order, that holds an address.  *)
Owner(object, a) ==
  LET s    == object.phdrs
      hits == {i \in 1 .. Len(s) : Loaded(s[i]) /\ s[i].p_paddr <= a
                                     /\ a < s[i].p_paddr + s[i].p_filesz}
  IN  IF hits = {} THEN 0
      ELSE CHOOSE i \in hits : \A j \in hits :
             \/ s[j].p_paddr < s[i].p_paddr
             \/ s[j].p_paddr = s[i].p_paddr /\ j <= i

(* With one executable that fits and whose contents elf.py finds, the      *)
(* memory is what its program headers describe, no byte missing or moved:  *)
(* each byte from the segment that owns it, the others and the microcode   *)
(* untouched.                                                              *)
ImagePlaced ==
  (step = "object" /\ opened = 1 /\ Fits(elf) /\ TrueContents(elf)) =>
    /\ Len(mem.data) = MemSize /\ Len(mem.valid) = MemSize
    /\ \A a \in 0 .. MemSize - 1 :
      LET i  == IF a < RiscvMemOffset THEN 0 ELSE Owner(elf, a - RiscvMemOffset)
          ph == elf.phdrs[i]
      IN  mem.data[a + 1] =
            IF i = 0 THEN Microcode.data[a + 1]
            ELSE elf.contents[ph.p_offset + (a - RiscvMemOffset - ph.p_paddr) + 1]

(* No object, well formed or not, reaches the microcode.                   *)
MicrocodeKept ==
  \A a \in 1 .. RiscvMemOffset :
    a <= Len(mem.data) /\ mem.data[a] = Microcode.data[a]

=============================================================================
