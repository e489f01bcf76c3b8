------------------------------- MODULE PegEval -------------------------------
(***************************************************************************)
(* The outcome of a call of _parse without a cache, by recursion over the  *)
(* calls it makes.                                                         *)
(***************************************************************************)
EXTENDS PegImpl

RECURSIVE Eval(_), EvalFrame(_, _)

EvalFrame(f, out) ==
  LET d == Advance(f, out)
  IN  IF d.do = "call" THEN EvalFrame(d.frame, Eval(d.call)) ELSE d.out

Eval(c) == EvalFrame(Frame(c), NoOutcome)
=============================================================================
