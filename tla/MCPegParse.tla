----------------------------- MODULE MCPegParse -----------------------------
(***************************************************************************)
(* The parses that TLC runs.                                               *)
(***************************************************************************)
EXTENDS MCPegGrammars, PegChecks

MCSymtab == [x \in {"a", "b", "1", "2", "0", "0xa", "0Xa"} |->
               CASE x = "a" -> 3 [] x = "b" -> 5 [] x = "1" -> 1 [] x = "2" -> 2 [] x = "0" -> 0
                 [] OTHER -> 10]

MCExpressions ==
  LET n == Len(Families) IN Before(n - 3) + 1 .. Before(n + 1)

MCParses ==
  LET ParsesOf(f) == [grammar : Before(f) + 1 .. Before(f + 1), packrat : Families[f].packrat,
                      entry : Families[f].entry, instring : Families[f].instring]
  IN  UNION {ParsesOf(f) : f \in DOMAIN Families}
=============================================================================
