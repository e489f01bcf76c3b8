------------------------- MODULE MCMicroarchitecture -------------------------
(***************************************************************************)
(* Programs of two words for TLC, then zeros (opr #0): every combination   *)
(* of the operations of opr, and a choice of operands for each form of the *)
(* other instructions, from several register contents.  The programs in    *)
(* Watched run with inputs that change at every clock.                     *)
(***************************************************************************)
EXTENDS Microarchitecture

LOCAL Logic == INSTANCE Bitwise
MCAnd(a, b) == Logic!&(a, b)
MCXor(a, b) == Logic!^^(a, b)
MCOr(a, b)  == Logic!|(a, b)

Operands == <<{1, 2, 3, 16}, {0, 1}, {0, 1}>>      (* by mode 1, 2, 3      *)

Oprs     == 0 .. 1023 \cup {1024, 2048}
Stores   == UNION {{4096 * m + o : o \in Operands[m]} : m \in 1 .. 3}
Immediates == {16384 + 256 * op + i : op \in 0 .. 3, i \in {0, 85, 255}}
Computing == UNION {{16384 + 4096 * m + 256 * op + o : op \in 0 .. 3, o \in Operands[m]} : m \in 1 .. 3}
Skips    == UNION {{32768 + 4096 * m + 2048 * i + 256 * b + o :
                      i \in Bits, b \in {0, 3, 7}, o \in Operands[m]} : m \in 1 .. 3}
Branches == {49152 + 2048 * c + j : c \in 0 .. 7, j \in {0, 1200}}
Jumps    == {32768 + 2048 * c + j : c \in Bits, j \in {1, 1023, 2046, 2047}}

Seconds == {17153, 55299, 12289, 64}   (* adc #1; br cs; store @y+; ret    *)

(* br xint, br tick, clrtick, uarttx, store @y+, sec and rlc, call.        *)
Watched == {59393, 63489, 512, 256, 12289, 46, 34817}

(* At the end of what pc reaches, a skb that skips (0x9810).               *)
Contained(first, second) ==
  [a \in {0, 1, 2, 3, 16, 17, 4092, 4093} |->
     CASE a = 0 -> first \div 256  [] a = 1 -> first % 256
       [] a = 2 -> second \div 256 [] a = 3 -> second % 256
       [] a = 16 -> 137            [] a = 17 -> 255
       [] a = 4092 -> 152          [] OTHER -> 16]

Registers ==
  {[ac |-> 0, cy |-> 0, x |-> 2, y |-> 65534, ret |-> 5, ir |-> 0],
   [ac |-> 1, cy |-> 1, x |-> 17, y |-> 16, ret |-> 1, ir |-> 12290],
   [ac |-> 129, cy |-> 1, x |-> 3, y |-> 2, ret |-> 2046, ir |-> 65535],
   [ac |-> 254, cy |-> 0, x |-> 255, y |-> 255, ret |-> 1024, ir |-> 255]}

Quiet == {[xint |-> 0, xtick |-> 0, reset |-> FALSE]}
Noisy == [xint : Bits, xtick : Bits, reset : BOOLEAN]

Start(r, first, second, values) ==
  [ac |-> r.ac, cy |-> r.cy, x |-> r.x, y |-> r.y, ret |-> r.ret, ir |-> r.ir,
   mem |-> Contained(first, second), inputs |-> values]

MCStarts ==
  {Start(r, w, 0, Quiet) : r \in Registers, w \in Oprs}
  \cup {Start(r, w, s, Quiet) : r \in Registers, s \in Seconds,
           w \in Stores \cup Immediates \cup Computing \cup Skips \cup Branches \cup Jumps}
  \cup {Start(r, w, s, Noisy) : r \in Registers, w \in Watched, s \in {63489, 12289}}
=============================================================================
