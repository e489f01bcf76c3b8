------------------------------ MODULE HexFile -------------------------------
(***************************************************************************)
(* Intel HEX files (ucode/tools/intelhex.py): asg writes the image of the  *)
(* microcode, simg and vmem read it.  The file lies on a disk in between   *)
(* and may be cut, lose or repeat a line, or have a byte changed.          *)
(*                                                                         *)
(* The file is a sequence of two-character tokens: Mark is a line's colon  *)
(* with the newline before it, a number is a byte in hexadecimal, Garbage  *)
(* is what is neither.                                                     *)
(***************************************************************************)
EXTENDS ByteMemory

CONSTANTS
  ByteMod,        (* 256                                                   *)
  Images,         (* the memories written                                  *)
  Entries,        (* the entry addresses written                           *)
  BytesPerLine,   (* data_bytes_per_line                                   *)
  Targets,        (* the memories read into, and NoMemory                *)
  FreshSize       (* bytes of the memory read allocates for NoMemory       *)

VARIABLES
  mem, entry_addr,          (* what is written                             *)
  wpc, addr, sl,            (* the writer: addr and range of write         *)
  file, fault,
  rpc, pos, load_addr,      (* the reader                                  *)
  target, out, read_entry

wvars == <<mem, entry_addr, wpc, addr, sl>>
rvars == <<rpc, pos, load_addr, target, out, read_entry>>
vars  == <<wvars, file, fault, rvars>>

(* read called without a memory                                            *)
NoMemory == [data |-> <<>>, valid |-> <<>>, size |-> -1, write_once |-> FALSE]

Mark    == -1
Garbage == -2

(* Mutant of Checksum: the address is not summed.                          *)
ChecksumNoAddress(raw) ==
  LET sum[i \in 0 .. Len(raw)] ==
        IF i = 0 THEN 0 ELSE sum[i - 1] + (IF i \in {2, 3} THEN 0 ELSE raw[i])
  IN  (ByteMod - (sum[Len(raw)] % ByteMod)) % ByteMod

Checksum(raw) ==
  LET sum[i \in 0 .. Len(raw)] == IF i = 0 THEN 0 ELSE sum[i - 1] + raw[i]
  IN  (ByteMod - (sum[Len(raw)] % ByteMod)) % ByteMod

(***************************************************************************)
(* Writing                                                                 *)
(***************************************************************************)
Record(a, rec_type, data) ==
  LET raw == <<Len(data), a \div ByteMod, a % ByteMod, rec_type>> \o data
  IN  <<Mark>> \o raw \o <<Checksum(raw)>>

NoRange == [start |-> 0, stop |-> 0]

(* write: the next range, or the end record when there is none             *)
WriteRange ==
  /\ wpc = "range"
  /\ LET r == NextValidRange(mem, sl.stop)
     IN  IF r.exc = "Uninitialized"
         THEN /\ file' = file \o Record(entry_addr, 1, <<>>)
              /\ wpc' = "done"
              /\ UNCHANGED <<addr, sl>>
         ELSE /\ sl' = [start |-> r.start, stop |-> r.stop]
              /\ addr' = r.start
              /\ wpc' = "record"
              /\ UNCHANGED file
  /\ UNCHANGED <<mem, entry_addr, fault, rvars>>

(* Mutant of LineLength: a line is always full.                            *)
LineLengthFull == BytesPerLine

LineLength ==
  IF addr + BytesPerLine > sl.stop THEN sl.stop - addr ELSE BytesPerLine

(* __write_range: one line, while addr < sl.stop.  The slice is read with  *)
(* the memory's check of validity, which cannot raise: the line lies in    *)
(* sl, whose bytes are valid.                                              *)
WriteRecord ==
  /\ wpc = "record"
  /\ IF addr < sl.stop
     THEN /\ file' = file \o Record(addr, 0, Slice(mem.data, addr, addr + LineLength))
          /\ addr' = addr + LineLength
          /\ UNCHANGED wpc
     ELSE /\ wpc' = "range"
          /\ UNCHANGED <<file, addr>>
  /\ UNCHANGED <<mem, entry_addr, sl, fault, rvars>>

(***************************************************************************)
(* What may happen to the file                                             *)
(***************************************************************************)
Marks == {i \in 1 .. Len(file) : file[i] = Mark}
LineEnd(i) == IF \E j \in Marks : j > i THEN Min({j \in Marks : j > i}) - 1 ELSE Len(file)
Line(i) == SubSeq(file, i, LineEnd(i))

Damage ==
  /\ wpc = "done" /\ fault = "none" /\ rpc = "idle"
  /\ \/ \E n \in 0 .. Len(file) - 1 : fault' = "cut" /\ file' = SubSeq(file, 1, n)
     \/ \E i \in 1 .. Len(file), b \in 0 .. ByteMod - 1 :
          /\ file[i] >= 0 /\ file[i] # b
          /\ fault' = "changed" /\ file' = [file EXCEPT ![i] = b]
     \/ \E i \in 1 .. Len(file) : fault' = "garbled" /\ file' = [file EXCEPT ![i] = Garbage]
     \/ \E i \in Marks :
          /\ fault' = "line lost"
          /\ file' = SubSeq(file, 1, i - 1) \o SubSeq(file, LineEnd(i) + 1, Len(file))
     \/ \E i \in Marks :
          /\ fault' = "line repeated"
          /\ file' = SubSeq(file, 1, LineEnd(i)) \o SubSeq(file, i, Len(file))
     \/ \E i \in Marks :
          /\ LineEnd(i) < Len(file)
          /\ fault' = "lines swapped"
          /\ LET j == LineEnd(i) + 1
             IN  file' = SubSeq(file, 1, i - 1) \o Line(j) \o Line(i)
                           \o SubSeq(file, LineEnd(j) + 1, Len(file))
  /\ UNCHANGED <<wvars, rvars>>

(***************************************************************************)
(* Reading                                                                 *)
(***************************************************************************)
StartRead ==
  /\ wpc = "done" /\ rpc = "idle"
  /\ \E t \in Targets :
       /\ target' = t
       /\ out' = IF t = NoMemory THEN Memory(FreshSize, FALSE) ELSE t
  /\ rpc' = "reading"
  /\ UNCHANGED <<wvars, file, fault, pos, load_addr, read_entry>>

(* get_bytes: too few characters are the end of the file, whatever is in   *)
(* those there are.                                                        *)
Bytes(i, count) ==
  IF i + count - 1 > Len(file) THEN "EOFError"
  ELSE IF \E j \in i .. i + count - 1 : file[j] < 0 THEN "ValueError"
  ELSE "ok"

(* i is a colon and n the data length.                                     *)
BadSum(i, n) == file[i + 5 + n] # Checksum(SubSeq(file, i + 1, i + 4 + n))

(* get_record up to the use of its contents                                *)
NextRecord ==
  LET colons == {j \in Marks : j >= pos}
      i      == Min(colons)
      n      == file[i + 1]
      at     == file[i + 2] * ByteMod + file[i + 3]
      is(e)  == [kind |-> e]
  IN  IF colons = {} THEN is("EOFError")
      ELSE IF Bytes(i + 1, 1) # "ok" THEN is(Bytes(i + 1, 1))
      ELSE IF Bytes(i + 2, 2) # "ok" THEN is(Bytes(i + 2, 2))
      ELSE IF Bytes(i + 4, 1) # "ok" THEN is(Bytes(i + 4, 1))
      ELSE IF Bytes(i + 5, n) # "ok" THEN is(Bytes(i + 5, n))
      ELSE IF Bytes(i + 5 + n, 1) # "ok" THEN is(Bytes(i + 5 + n, 1))
      ELSE IF BadSum(i, n) THEN is("BadChecksum")
      ELSE IF file[i + 4] = 1 THEN [kind |-> "entry", addr |-> at]
      ELSE IF file[i + 4] # 0 THEN is("UnknownRecordType")
      ELSE IF at < load_addr THEN is("Discontiguous")
      ELSE [kind |-> "data", addr |-> at, data |-> SubSeq(file, i + 5, i + 4 + n),
            next |-> i + 6 + n]

NextLoadAddr(r) == r.addr + Len(r.data)

ReadData ==
  /\ rpc = "reading"
  /\ LET r == NextRecord
     IN  /\ r.kind = "data"
         /\ out' = SetSlice(out, r.addr, r.addr + Len(r.data), r.data).mem
         /\ load_addr' = NextLoadAddr(r)
         /\ pos' = r.next
  /\ UNCHANGED <<wvars, file, fault, rpc, target, read_entry>>

(* EOFError ends read, raised by the end record and by the end of the      *)
(* file alike; a memory of its own is then truncated.                      *)
ReadEnd ==
  /\ rpc = "reading"
  /\ LET r == NextRecord
     IN  /\ r.kind \in {"EOFError", "entry"}
         /\ read_entry' = IF r.kind = "entry" THEN r.addr ELSE read_entry
  /\ IF target = NoMemory
     THEN /\ out' = Truncate(out).mem
          /\ rpc' = IF Truncate(out).exc = "ok" THEN "done" ELSE "failed"
     ELSE /\ rpc' = "done"
          /\ UNCHANGED out
  /\ UNCHANGED <<wvars, file, fault, pos, load_addr, target>>

ReadFails ==
  /\ rpc = "reading"
  /\ NextRecord.kind \notin {"data", "entry", "EOFError"}
  /\ rpc' = "failed"
  /\ UNCHANGED <<wvars, file, fault, pos, load_addr, target, out, read_entry>>

Init ==
  /\ mem \in Images /\ entry_addr \in Entries
  /\ wpc = "range" /\ addr = 0 /\ sl = NoRange
  /\ file = <<>> /\ fault = "none"
  /\ rpc = "idle" /\ pos = 1 /\ load_addr = 0
  /\ target = NoMemory /\ out = Memory(0, FALSE) /\ read_entry = 0

Write == WriteRange \/ WriteRecord
Read  == StartRead \/ ReadData \/ ReadEnd \/ ReadFails
Next  == Write \/ Damage \/ Read

(* The writing program runs; nothing is assumed of the disk or of whether  *)
(* the file is ever read.                                                  *)
Spec == Init /\ [][Next]_vars /\ WF_vars(Write)

(***************************************************************************)
(* Properties                                                              *)
(***************************************************************************)
TypeOK ==
  /\ wpc \in {"range", "record", "done"}
  /\ rpc \in {"idle", "reading", "done", "failed"}
  /\ addr \in Nat /\ load_addr \in Nat /\ pos \in 1 .. Len(file) + 1
  /\ file \in Seq({Mark, Garbage} \cup (0 .. ByteMod - 1))
  /\ Len(out.data) = Len(out.valid)

LastClear(m) == m.size = 0 \/ ~m.valid[m.size]
BigEnough    == target = NoMemory \/ target.size >= mem.size
SameAt(a)    == mem.data[a + 1] = out.data[a + 1]
Holds(m, a)  == a < Len(m.valid) /\ m.valid[a + 1]
Before(a)    == target # NoMemory /\ Holds(target, a)

(* An undamaged file gives back every byte of the image at its address,    *)
(* leaves the other bytes of the target as they were, and the entry        *)
(* address.  It is refused only if the image is empty and there is no      *)
(* memory to leave alone.                                                  *)
RoundTrip ==
  (fault = "none" /\ LastClear(mem) /\ BigEnough) =>
    /\ rpc = "failed" => Find(mem, TRUE, 0) < 0 /\ target = NoMemory
    /\ rpc = "done" =>
         /\ read_entry = entry_addr
         /\ \A a \in 0 .. mem.size - 1 : Holds(mem, a) => Holds(out, a) /\ SameAt(a)
         /\ \A a \in 0 .. Len(out.valid) - 1 :
              ~Holds(mem, a) => Holds(out, a) = Before(a) /\ (Before(a) =>
                                  out.data[a + 1] = target.data[a + 1])

(* If the target is at least as large as the image, then whatever one      *)
(* fault does to the file, every byte read into it is a byte of the image  *)
(* at its own address: damage is found or loses bytes, it never invents or *)
(* moves one.  This also holds while reading and after a failure, and for  *)
(* the one change a checksum cannot see (a length byte that makes the last *)
(* data byte pass as the checksum).  By default simg and vmem read into    *)
(* 64 KiB, all that an address reaches; to a smaller target a record past  *)
(* the end is appended, at an address that is not its own.                 *)
NeverInvents ==
  (rpc # "idle" /\ BigEnough) =>
    \A a \in 0 .. Len(out.valid) - 1 :
      Holds(out, a) /\ ~(Before(a) /\ out.data[a + 1] = target.data[a + 1]) =>
        Holds(mem, a) /\ SameAt(a)

(* The file is written to its end.  An image whose last byte is valid is   *)
(* not: next_valid_range gives an empty range at the last byte for ever.   *)
WriteEnds == LastClear(mem) ~> (wpc = "done")
=============================================================================
