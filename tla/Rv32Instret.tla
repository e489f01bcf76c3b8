---------------------------- MODULE Rv32Instret ----------------------------
(***************************************************************************)
(* mtime as a count of instructions.  Three history variables follow the   *)
(* interpreter without taking part in it.                                  *)
(***************************************************************************)
EXTENDS Rv32Traps

VARIABLES
  base,        (* mtime at power-up                                        *)
  written,     (* has the program changed mtime?                           *)
  retired      (* instructions completed before it did, modulo a word      *)

histVars == <<upc, rloop, ac, nextpc, pc, ir, x, csr, mem, retired, base, written>>

(* A jump to a misaligned address traps instead of completing.             *)
Completes ==
  upc = "inst_32bit" /\ upc' = "main_loop" /\ nextpc' % 4 = 0

StoresToTime ==
  /\ upc = "inst_32bit"
  /\ \E k \in 0 .. 3 : mem'[MTimeRam + k] # mem[MTimeRam + k]

HistInit ==
  /\ Init
  /\ retired = 0
  /\ base = WordAt(mem, MTimeRam)
  /\ written = FALSE

HistNext ==
  /\ Next
  /\ written' = (written \/ StoresToTime)
  /\ retired' = IF Completes /\ ~written' THEN Plus(retired, 1) ELSE retired
  /\ UNCHANGED base

HistSpec == HistInit /\ [][HistNext]_histVars

(* "mtime counts RISC-V instructions executed (like minstret)"             *)
(* (ucode.asm:37): every completed instruction and the one in progress are *)
(* counted once, through traps taken before, inside and after them.  An    *)
(* instruction that traps hands its count on to the handler's first one.   *)
InProgress == ~(upc = "main_loop" /\ nextpc % 4 = 0)
TimeCountsInstructions ==
  ~Resetting /\ ~written =>
    WordAt(mem, MTimeRam) =
      (base + retired + (IF InProgress THEN 1 ELSE 0)) % WordMod
=============================================================================
