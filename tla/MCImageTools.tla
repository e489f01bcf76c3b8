---------------------------- MODULE MCImageTools ----------------------------
(***************************************************************************)
(* MemoryOps: two byte values, and one that no byte can hold.              *)
(* HexFile: images of six bytes and bytes of two bits, so that addresses   *)
(* need two bytes and the sums wrap; values differ from byte to byte.      *)
(* ImageBuilder: six bytes of microcode that put the RISC-V memory behind  *)
(* them.  The contents of a file have period 3, so that a segment at       *)
(* address 3 (or 0) is read as it is and one at address 1 is not.          *)
(* Encoding: every word, and numbers on both sides of each field's limit.  *)
(***************************************************************************)
EXTENDS ImageTools

CONSTANT ImageSize

MCImages ==
  {[data |-> [i \in 1 .. ImageSize |-> IF v[i] THEN ((i * k) % (ByteMod - 1)) + 1 ELSE 0],
    valid |-> v, size |-> ImageSize, write_once |-> FALSE] :
      v \in [1 .. ImageSize -> BOOLEAN], k \in {1, 2}}

MCTargets ==
  {[data |-> <<>>, valid |-> <<>>, size |-> -1, write_once |-> FALSE],
   Memory(ImageSize, FALSE), Memory(ImageSize - 2, FALSE),
   MemoryOf(Filled(ImageSize + 1, 0), FALSE)}

MCMicrocode == MemoryOf(<<7, 7, 6, 0, 7, 7, 0, 0, 0, 0, 0, 0, 0, 0>>, FALSE)

GoodIdent  == [magic |-> TRUE, class |-> 1, data |-> 1, version |-> 1, pad |-> TRUE]
GoodHeader == [e_ehsize |-> 52, e_type |-> 2, e_machine |-> 243]
Contents   == [i \in 1 .. 12 |-> 10 + (i % 3)]

Programs ==
  {[p_type |-> 1, p_offset |-> o, p_paddr |-> a, p_filesz |-> n] :
     o \in {0, 4}, a \in {0, 1, 3}, n \in {0, 1, 4}}
  \cup {[p_type |-> 4, p_offset |-> 0, p_paddr |-> 3, p_filesz |-> 2]}

AFile(ident, header, phdrs) ==
  [ident |-> ident, header |-> header, phdrs |-> phdrs, contents |-> Contents]

OneProgram == <<[p_type |-> 1, p_offset |-> 4, p_paddr |-> 3, p_filesz |-> 4]>>

MCObjects ==
  {AFile(GoodIdent, GoodHeader, phdrs) : phdrs \in {<<p, q>> : p, q \in Programs}}
  \cup {AFile(GoodIdent, h, OneProgram) :
          h \in [e_ehsize : {52, 64}, e_type : {2, 3}, e_machine : {62, 243}]}
  \cup {AFile(i, [GoodHeader EXCEPT !.e_ehsize = 64], OneProgram) :
          i \in [magic : BOOLEAN, class : {1, 2, 3}, data : {1, 2, 3},
                 version : {0, 1}, pad : BOOLEAN]}

MCOpcodes == 0 .. 65535
MCNumbers == {-1, 0, 1, 2, 7, 8, 128, 255, 256, 1023, 2047, 2049, 4094, 4095, 4096, 8190, 8192}
=============================================================================
