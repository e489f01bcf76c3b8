------------------------------ MODULE PegBuild ------------------------------
(***************************************************************************)
(* The operators and helpers of ucode/tools/pyparsing.py that build a      *)
(* grammar from elements, and the grammar of the assembler's expressions   *)
(* (expressionparser.py).  Each takes the elements G built so far and      *)
(* returns them with new ones, the result last.                            *)
(***************************************************************************)
EXTENDS PegElements

With(G, e) == Append(G, e)

(* a + b, a | b, a - b                                                     *)
Plus(G, i, j)   == With(G, And(G, <<i, j>>))
Either(G, i, j) == With(G, MatchFirst(G, <<i, j>>))
Minus(G, i, j) ==
  LET H == With(G, ErrorStop)
      F == Plus(H, i, Len(H))
  IN  Plus(F, Len(F), j)

(***************************************************************************)
(* copy, leaveWhitespace and ignore                                        *)
(***************************************************************************)
CopyOf(e) ==
  IF e.copyDefaultWhiteChars THEN [e EXCEPT !.whiteChars = DEFAULT_WHITE_CHARS] ELSE e

(* The elements below e, as far as a Forward.                              *)
Below(G, e) ==
  LET below[i \in 1 .. e] ==
        IF G[i].cls = "Forward" THEN {}
        ELSE UNION {{p} \cup below[p] : p \in Range(G[i].exprs)}
  IN  below[e]

(* A copy of e that leaves whitespace, on copies of its parts, which other *)
(* elements may use too.                                                   *)
LeavingWhitespace(G, e) ==
  LET old == SortSeq(FoldSet(LAMBDA p, s : Append(s, p), <<>>, {e} \cup Below(G, e)), <)
      Copied(p) == Len(G) + CHOOSE k \in DOMAIN old : old[k] = p
      Leaving(p) == [p EXCEPT !.skipWhitespace = FALSE,
                              !.exprs = IF p.cls = "Forward" THEN @ ELSE [k \in DOMAIN @ |-> Copied(@[k])]]
  IN  G \o [k \in DOMAIN old |-> Leaving(CopyOf(G[old[k]]))]

(* ignore, on an element and all below it; ignorable is a Suppress.        *)
Ignore(G, e, ignorable) ==
  [i \in DOMAIN G |->
     IF i \in {e} \cup Below(G, e) /\ ignorable \notin Range(G[i].ignoreExprs)
     THEN [G[i] EXCEPT !.ignoreExprs = Append(@, ignorable)] ELSE G[i]]

(* Combine, with the element left to be adjacent.                          *)
AdjacentCombine(G, expr) ==
  LET H == LeavingWhitespace(G, expr) IN With(H, Combine(H, Len(H)))

(***************************************************************************)
(* __mul__: e * (min, max), where max is MAX_INT for no limit              *)
(***************************************************************************)
MakeOptionalList(G, e, n) ==
  LET Around(H, k) == LET F == Plus(H, e, Len(H)) IN With(F, Optional(F, Len(F), <<>>))
  IN  FoldLeft(Around, With(G, Optional(G, e, <<>>)), [k \in 1 .. n - 1 |-> k])

Multiplied(G, e, min, max) ==
  LET Times(H)   == With(H, And(H, [k \in 1 .. min |-> e]))
      Then(H, F) == Plus(F, Len(H), Len(F))
      Many(H)    == With(H, ZeroOrMore(H, e, 0))
  IN  IF max = MAX_INT
      THEN IF min = 0 THEN Many(G)
           ELSE IF min = 1 THEN With(G, OneOrMore(G, e, 0))
           ELSE Then(Times(G), Many(Times(G)))
      ELSE IF max = min THEN IF min = 1 THEN With(G, G[e]) ELSE Times(G)
      ELSE IF min = 0 THEN MakeOptionalList(G, e, max)
      ELSE IF min = 1
           THEN LET H == MakeOptionalList(G, e, max - 1) IN Plus(H, e, Len(H))
      ELSE Then(Times(G), MakeOptionalList(Times(G), e, max - min))

DelimitedList(G, e, delim) ==
  LET H == With(G, Suppress(G, delim))
      F == Plus(H, Len(H), e)
      D == With(F, ZeroOrMore(F, Len(F), 0))
  IN  Plus(D, e, Len(D))

NestedExpr(G, opener, closer, content) ==
  LET ret == Len(G) + 1
      H == With(With(With(G, Forward), Suppress(G, opener)), Suppress(G, closer))
      C == Either(H, ret, content)
      Z == With(C, ZeroOrMore(C, Len(C), 0))
      P == Plus(Z, ret + 1, Len(Z))
      Q == Plus(P, Len(P), ret + 2)
      R == With(Q, Group(Q, Len(Q)))
  IN  With(Shift(R, ret, Len(R)), Group(R, ret))

(***************************************************************************)
(* infixNotation.  An operator is [op, arity, right, action], op the index *)
(* of its element.                                                         *)
(***************************************************************************)
(* _FB(front) + Group(front's first part + rest), then | last              *)
InfixLevel(G, this, last, front, rest, action) ==
  LET F == With(G, FB(G, front))
      H == With(F, And(F, rest))
      I == With(H, Group(H, Len(H)))
      J == With(I, [And(I, <<Len(F), Len(I)>>) EXCEPT !.parseAction = action])
      K == Either(J, Len(J), last)
  IN  Shift(K, this, Len(K))

(* operand (op operand)+ with the operand of the level below, or of this   *)
(* level if the operator associates to the right.                          *)
Binary(G, this, last, o) ==
  LET right == IF o.right THEN this ELSE last
      F == Plus(G, last, o.op)
      H == Plus(F, Len(F), right)
      P == Plus(H, o.op, right)
      M == With(P, OneOrMore(P, Len(P), 0))
  IN  InfixLevel(M, this, last, Len(H), <<last, Len(M)>>, o.action)

UnaryLeft(G, this, last, o) ==
  LET F == Plus(G, last, o.op)
      M == With(F, OneOrMore(F, o.op, 0))
  IN  InfixLevel(M, this, last, Len(F), <<last, Len(M)>>, o.action)

UnaryRight(G, this, last, o) ==
  LET F == With(G, Optional(G, o.op, <<>>))
      H == Plus(F, o.op, this)
  IN  InfixLevel(H, this, last, Len(H), <<Len(F), this>>, o.action)

InfixNotation(G, base, operators, lpar, rpar) ==
  LET ret == Len(G) + 1
      F == With(G, Forward)
      P == Plus(F, lpar, ret)
      Q == Plus(P, Len(P), rpar)
      L == Either(Q, base, Len(Q))
      Level(s, o) ==
        LET this == Len(s.G) + 1
            H    == With(s.G, Forward)
        IN  [G |-> IF o.arity = 2 THEN Binary(H, this, s.last, o)
                   ELSE IF o.right THEN UnaryRight(H, this, s.last, o)
                   ELSE UnaryLeft(H, this, s.last, o),
             last |-> this]
      all == FoldLeft(Level, [G |-> L, last |-> Len(L)], operators)
  IN  Shift(all.G, ret, all.last)
=============================================================================
