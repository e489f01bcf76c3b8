----------------------------- MODULE MemoryOps ------------------------------
(***************************************************************************)
(* A Memory under any sequence of calls.  A slice may run past the end of  *)
(* the memory (the last record of a HEX file may), with a step as well as  *)
(* without.  Two assignments are left out: to a plain slice, of data that  *)
(* are longer or shorter than it (vmem assigns such slices, and            *)
(* ImageBuilder models what that does), and to a stepped slice, of no data *)
(* at all, which a bytearray takes for a deletion.                         *)
(***************************************************************************)
EXTENDS ByteMemory

CONSTANTS
  Size,        (* bytes of a new memory                                    *)
  MaxLen,      (* bounds the growth by assignments past the end            *)
  Bytes        (* the values stored, also ones no byte can hold            *)

VARIABLES
  mem,
  result       (* what the last call raised, or "ok"                       *)

vars == <<mem, result>>

Address == 0 .. MaxLen - 1
Byte    == Bytes \cap (0 .. 255)

Init ==
  /\ \E once \in BOOLEAN :
       \/ mem = Memory(Size, once)
       \/ \E byte \in Byte : mem = MemoryOf(Filled(Size, byte), once)
  /\ result = "ok"

Returns(r) == mem' = r.mem /\ result' = r.exc
Answers(e) == result' = e /\ UNCHANGED mem

StoreByte == \E a \in Address, byte \in Bytes : Returns(SetByte(mem, a, byte))

StoreSlice ==
  \E start \in 0 .. Len(mem.data), stop \in 0 .. MaxLen, byte \in Byte :
    Returns(SetSlice(mem, start, stop, Filled(SliceLen(start, stop), byte)))

StoreStepped ==
  \E start, stop \in 0 .. Len(mem.data), step \in 2 .. 3, n \in 1 .. 2, byte \in Byte :
    Returns(SetStepped(mem, start, stop, step, Filled(n, byte)))

(* The data are assigned to the cells that are there; the flags are as     *)
(* many as the slice would have, had it not run past the end.              *)
StoreSteppedPastEnd ==
  \E start \in 0 .. Len(mem.data), stop \in Len(mem.data) + 1 .. MaxLen + 1,
     step \in 2 .. 3, n \in 1 .. 2, byte \in Byte :
    Returns(SetStepped(mem, start, stop, step, Filled(n, byte)))

Forget ==
  \/ \E a \in Address : Returns(Deinit(mem, a))
  \/ \E start, stop \in Address : Returns(DeinitSlice(mem, start, stop))

Shorten ==
  \/ Returns(Truncate(mem))
  \/ \E last \in 0 .. Len(mem.data) - 1 : Returns(TruncateTo(mem, last))

Load ==
  \/ \E a \in Address : Answers(GetByte(mem, a))
  \/ \E start, stop \in Address : Answers(GetSlice(mem, start, stop))
  \/ \E start, stop \in Address : Answers(GetStepped(mem, start, stop, 2))

Combine ==
  /\ 2 * mem.size <= MaxLen
  /\ \E other \in {mem, Memory(Size, FALSE), MemoryOf(Filled(Size, 1), FALSE)} :
       Returns(Interleave(<<mem, other>>))

Next ==
  \/ StoreByte \/ StoreSlice \/ StoreStepped \/ StoreSteppedPastEnd
  \/ Forget \/ Shorten \/ Load \/ Combine

Spec == Init /\ [][Next]_vars

(* Every byte has a flag and len() never promises a byte that is not there *)
(* (memory.py:27 asks for it at construction), through assignments past    *)
(* the end, truncation and interleaving.                                   *)
TypeOK ==
  /\ mem.data \in Seq(0 .. 255) /\ mem.valid \in Seq(BOOLEAN)
  /\ Len(mem.data) = Len(mem.valid) /\ mem.size <= Len(mem.data)
  /\ mem.size \in Nat /\ mem.write_once \in BOOLEAN
  /\ result \in {"ok", "IndexError", "ValueError", "TypeError", "Uninitialized",
                 "UpdateAttempted", "AssertionError"}

(* Walking the ranges from address 0 (as IntelHex.write does) visits every *)
(* valid byte once and always advances, as long as the last byte is not    *)
(* valid: next_valid_range gives the maximal run behind each address.      *)
RangesCover ==
  (mem.size > 0 /\ ~mem.valid[Len(mem.valid)]) =>
    \A first \in 0 .. Len(mem.valid) :
      LET r == NextValidRange(mem, first)
          ahead == {a \in first .. Len(mem.valid) - 1 : mem.valid[a + 1]}
      IN  IF ahead = {} THEN r.exc = "Uninitialized"
          ELSE /\ r.exc = "ok" /\ r.start = Min(ahead) /\ r.stop > r.start
               /\ \A a \in r.start .. r.stop - 1 : a \in ahead
               /\ r.stop \notin ahead

(* A call that raises leaves the memory as it was, with one exception: a   *)
(* stepped slice past the end may have stored its data (memory.py:85) when *)
(* the flags turn out not to fit (87).  Then too the size, the flags and   *)
(* the number of bytes are what they were.                                 *)
OnlyDataStored ==
  /\ result' = "ValueError"
  /\ mem' = [mem EXCEPT !.data = mem'.data]
  /\ Len(mem'.data) = Len(mem.data)

FailureIsContained ==
  result' # "ok" => mem' = mem \/ (StoreSteppedPastEnd /\ OnlyDataStored)

(* With write_once a byte that stays valid keeps its value, whichever of   *)
(* the three kinds of assignment is used and wherever its slice ends.      *)
KeepsWritten ==
  mem.write_once /\ mem'.write_once =>
    \A i \in 1 .. Min({Len(mem.valid), Len(mem'.valid)}) :
       mem.valid[i] /\ mem'.valid[i] => mem'.data[i] = mem.data[i]
=============================================================================
