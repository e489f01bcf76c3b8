----------------------------- MODULE ByteMemory -----------------------------
(***************************************************************************)
(* Class Memory of ucode/tools/memory.py: bytes, a validity flag for each, *)
(* and the Python slices they are read and assigned through.  A bytearray  *)
(* is a sequence; address a is its element a + 1.  Every operation returns *)
(* what was raised ("ok" for nothing) and the memory left behind.          *)
(***************************************************************************)
EXTENDS Integers, Sequences, FiniteSetsExt

(***************************************************************************)
(* Slices of a bytearray.  Reading past the end reads less; assigning past *)
(* the end, or a value of another length, changes the length.              *)
(***************************************************************************)
Slice(s, start, stop) == SubSeq(s, start + 1, Min({stop, Len(s)}))

Splice(s, start, stop, new) ==
  LET lo == Min({start, Len(s)})
      hi == Max({lo, Min({stop, Len(s)})})
  IN  SubSeq(s, 1, lo) \o new \o SubSeq(s, hi + 1, Len(s))

Stepped(s, start, stop, step) ==
  {i \in start .. Min({stop, Len(s)}) - 1 : (i - start) % step = 0}

(* The k-th address of a stepped slice receives the k-th value.            *)
StoreEach(s, start, step, addresses, new) ==
  [i \in 1 .. Len(s) |->
     IF i - 1 \in addresses THEN new[((i - 1 - start) \div step) + 1] ELSE s[i]]

Filled(n, v) == [i \in 1 .. n |-> v]

(***************************************************************************)
(* Construction                                                            *)
(***************************************************************************)
Memory(size, once) ==
  [data |-> Filled(size, 0), valid |-> Filled(size, FALSE),
   size |-> size, write_once |-> once]

MemoryOf(data, once) ==
  [data |-> data, valid |-> Filled(Len(data), TRUE),
   size |-> Len(data), write_once |-> once]

Done(m)     == [exc |-> "ok", mem |-> m]
Raise(e, m) == [exc |-> e, mem |-> m]

(***************************************************************************)
(* Searches in valid: -1 when there is none                                *)
(***************************************************************************)
Find(m, v, from) ==
  LET hits == {i \in from .. Len(m.valid) - 1 : m.valid[i + 1] = v}
  IN  IF hits = {} THEN -1 ELSE Min(hits)

RFind(m, v) ==
  LET hits == {i \in 0 .. Len(m.valid) - 1 : m.valid[i + 1] = v}
  IN  IF hits = {} THEN -1 ELSE Max(hits)

SliceHas(m, start, stop, v) ==
  \E i \in 1 .. Len(Slice(m.valid, start, stop)) :
     Slice(m.valid, start, stop)[i] = v

SliceLen(start, stop)       == Max({0, stop - start})
SteppedLen(start, stop, step) == Max({0, (stop - start + step - 1) \div step})

(***************************************************************************)
(* __getitem__.  With a step _slice_last calls Memory._slice_len without   *)
(* an instance.                                                            *)
(***************************************************************************)
GetByte(m, a) ==
  IF a >= Len(m.valid) THEN "IndexError"
  ELSE IF ~m.valid[a + 1] THEN "Uninitialized"
  ELSE IF a >= Len(m.data) THEN "IndexError"
  ELSE "ok"

GetSlice(m, start, stop) ==
  IF stop - 1 >= m.size THEN "IndexError"
  ELSE IF SliceHas(m, start, stop, FALSE) THEN "Uninitialized"
  ELSE "ok"

GetStepped(m, start, stop, step) == "TypeError"

(***************************************************************************)
(* __setitem__ and deinit                                                  *)
(***************************************************************************)
(* Mutant of SetByte: any integer is stored.                               *)
SetByteUnchecked(m, a, byte) ==
  IF a >= Len(m.data) THEN Raise("IndexError", m)
  ELSE IF m.write_once /\ m.valid[a + 1] THEN Raise("UpdateAttempted", m)
  ELSE Done([m EXCEPT !.data[a + 1] = byte, !.valid[a + 1] = TRUE])

SetByte(m, a, byte) ==
  IF m.write_once /\ a >= Len(m.valid) THEN Raise("IndexError", m)
  ELSE IF m.write_once /\ m.valid[a + 1] THEN Raise("UpdateAttempted", m)
  ELSE IF a >= Len(m.data) THEN Raise("IndexError", m)
  ELSE IF byte \notin 0 .. 255 THEN Raise("ValueError", m)
  ELSE IF a >= Len(m.valid)
       THEN Raise("IndexError", [m EXCEPT !.data[a + 1] = byte])
       ELSE Done([m EXCEPT !.data[a + 1] = byte, !.valid[a + 1] = TRUE])

(* Mutant of SetSlice: only the first byte is checked for write_once.      *)
SetSliceFirstOnly(m, start, stop, new) ==
  IF m.write_once /\ SliceHas(m, start, start + 1, TRUE)
  THEN Raise("UpdateAttempted", m)
  ELSE Done([m EXCEPT !.data = Splice(m.data, start, stop, new),
                      !.valid = Splice(m.valid, start, stop,
                                       Filled(SliceLen(start, stop), TRUE))])

SetSlice(m, start, stop, new) ==
  IF m.write_once /\ SliceHas(m, start, stop, TRUE)
  THEN Raise("UpdateAttempted", m)
  ELSE Done([m EXCEPT !.data = Splice(m.data, start, stop, new),
                      !.valid = Splice(m.valid, start, stop,
                                       Filled(SliceLen(start, stop), TRUE))])

(* Mutant of SetStepped: the flags are set before the data.                *)
SetSteppedValidFirst(m, start, stop, step, new) ==
  LET cells  == Stepped(m.data, start, stop, step)
      marked == [m EXCEPT !.valid = StoreEach(m.valid, start, step, cells,
                             Filled(SteppedLen(start, stop, step), TRUE))]
  IN  IF m.write_once /\ \E i \in cells : m.valid[i + 1]
      THEN Raise("UpdateAttempted", m)
      ELSE IF Len(new) # Cardinality(cells) THEN Raise("ValueError", marked)
      ELSE Done([marked EXCEPT !.data = StoreEach(m.data, start, step, cells, new)])

SetStepped(m, start, stop, step, new) ==
  LET cells == Stepped(m.data, start, stop, step)
      flags == Stepped(m.valid, start, stop, step)
      n     == SteppedLen(start, stop, step)
  IN  IF m.write_once /\ \E i \in flags : m.valid[i + 1]
      THEN Raise("UpdateAttempted", m)
      ELSE IF Len(new) # Cardinality(cells) THEN Raise("ValueError", m)
      ELSE LET stored == [m EXCEPT !.data = StoreEach(m.data, start, step, cells, new)]
           IN  IF n # Cardinality(flags) THEN Raise("ValueError", stored)
               ELSE Done([stored EXCEPT !.valid =
                            StoreEach(m.valid, start, step, flags, Filled(n, TRUE))])

Deinit(m, a) ==
  IF a >= Len(m.valid) THEN Raise("IndexError", m)
  ELSE Done([m EXCEPT !.valid[a + 1] = FALSE])

(* A slice of a bytearray cannot be assigned an integer.                   *)
DeinitSlice(m, start, stop) == Raise("TypeError", m)

(***************************************************************************)
(* valid_bounds, next_valid_range, truncate, interleave                    *)
(***************************************************************************)
ValidBounds(m) ==
  IF Find(m, TRUE, 0) < 0 THEN [exc |-> "Uninitialized"]
  ELSE [exc |-> "ok", start |-> Find(m, TRUE, 0), stop |-> RFind(m, TRUE) + 1]

(* Mutant of NextValidRange: the end is searched from where it began.      *)
NextValidRangeFromFirst(m, first) ==
  LET begin == Find(m, TRUE, first)
      end   == Find(m, FALSE, first)
  IN  IF begin < 0 THEN [exc |-> "Uninitialized"]
      ELSE [exc |-> "ok", start |-> begin,
            stop |-> IF end < 0 THEN m.size - 1 ELSE end]

NextValidRange(m, first) ==
  LET begin == Find(m, TRUE, first)
      end   == Find(m, FALSE, begin + 1)
  IN  IF begin < 0 THEN [exc |-> "Uninitialized"]
      ELSE [exc |-> "ok", start |-> begin,
            stop |-> IF end < 0 THEN m.size - 1 ELSE end]

TruncateTo(m, last) ==
  Done([m EXCEPT !.size = last + 1,
                 !.data = Slice(m.data, 0, last + 1),
                 !.valid = Slice(m.valid, 0, last + 1)])

Truncate(m) ==
  IF RFind(m, TRUE) < 0 THEN Raise("Uninitialized", m)
  ELSE TruncateTo(m, RFind(m, TRUE))

(* Byte j of memory i becomes byte j * count + i.  A memory is read as an  *)
(* iterable: an invalid byte raises, and it ends where its data end.       *)
Interleave(meml) ==
  LET count == Len(meml)
      each  == meml[1].size
      at(a) == meml[(a % count) + 1]
  IN  IF \E i \in 1 .. count : meml[i].size # each
      THEN Raise("AssertionError", meml[1])
      ELSE IF \E i \in 1 .. count : SliceHas(meml[i], 0, Len(meml[i].valid), FALSE)
      THEN Raise("Uninitialized", meml[1])
      ELSE IF \E i \in 1 .. count : Len(meml[i].data) # each
      THEN Raise("ValueError", meml[1])
      ELSE Done(MemoryOf([a \in 1 .. each * count |->
                            at(a - 1).data[((a - 1) \div count) + 1]], FALSE))
=============================================================================
