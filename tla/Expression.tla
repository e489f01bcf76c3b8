----------------------------- MODULE Expression ------------------------------
(***************************************************************************)
(* ucode/tools/expressionparser.py: the grammar of the expressions that    *)
(* the microcode assembler reads, and their values.                        *)
(***************************************************************************)
EXTENDS PegBuild

LOCAL Bits == INSTANCE Bitwise

hexnums   == {"0", "1", "2", "a", "b", "c", "A", "B", "C"}
nums      == {"0", "1", "2"}
alphanums == hexnums \cup {"x", "X"}

(* int() and the lambda of an integer leave its text.                      *)
IntegerToken(e) == [e EXCEPT !.parseAction = <<"trace">>]

BaseExpr ==
  LET C == <<CaselessLiteral(<<"0", "x">>), Word(hexnums, {}, 1, 0, 0)>>
      H == AdjacentCombine(With(C, And(C, <<1, 2>>)), 3)
      hexadecimal_integer == Len(H)
      D == [H EXCEPT ![hexadecimal_integer] = IntegerToken(@)] \o
           <<IntegerToken(Word(nums, {}, 1, 0, 0)), Word(alphanums \cup {"_", "$"}, {}, 1, 0, 0)>>
      E == Either(D, hexadecimal_integer, Len(D) - 1)
  IN  Either(E, Len(E), Len(D))

operators ==
  <<<<<<"+">>, <<"-">>, <<"~">>, <<"!">>>>,
    <<<<"*">>, <<"/">>>>,
    <<<<"+">>, <<"-">>>>,
    <<<<"<", "<">>, <<">", ">">>>>,
    <<<<"<", "=">>, <<"<">>, <<">">>, <<">", "=">>>>,
    <<<<"=", "=">>, <<"!", "=">>>>,
    <<<<"&">>>>,
    <<<<"^">>>>,
    <<<<"|">>>>>>

(* infixNotation(baseExpr, operators) + StringEnd(), with the operators of *)
(* the given levels.                                                       *)
ExpressionGrammar(levels) ==
  LET G    == BaseExpr
      base == Len(G)
      H    == With(With(G, Literal(<<"(">>)), Literal(<<")">>))
      P    == With(With(H, Suppress(H, base + 1)), Suppress(H, base + 2))
      O    == P \o [k \in DOMAIN levels |-> oneOf(operators[levels[k]])]
      opList == [k \in DOMAIN levels |->
                   [op |-> Len(P) + k, arity |-> IF levels[k] = 1 THEN 1 ELSE 2,
                    right |-> levels[k] = 1, action |-> <<"nest">>]]
      I    == InfixNotation(O, base, opList, base + 3, base + 4)
  IN  Plus(With(I, StringEnd), Len(O) + 1, Len(I) + 1)

(***************************************************************************)
(* infix_to_tree and eval                                                  *)
(***************************************************************************)
Truth(b) == IF b THEN 1 ELSE 0

unary_op_fn(op, x) ==
  CASE op = "+" -> x [] op = "-" -> -x [] op = "~" -> -x - 1 [] op = "!" -> Truth(x = 0)

binary_op_fn(op, x, y) ==
  CASE op = "*"  -> x * y
    [] op = "/"  -> IF y > 0 THEN x \div y ELSE (-x) \div (-y)
    [] op = "+"  -> x + y
    [] op = "-"  -> x - y
    [] op = "<<" -> x * 2 ^ y
    [] op = ">>" -> x \div 2 ^ y
    [] op = "<=" -> Truth(x <= y)
    [] op = "<"  -> Truth(x < y)
    [] op = ">"  -> Truth(x > y)
    [] op = ">=" -> Truth(x >= y)
    [] op = "==" -> Truth(x = y)
    [] op = "!=" -> Truth(x # y)
    [] op = "&"  -> Bits!&(x, y)
    [] op = "|"  -> Bits!|(x, y)
    [] op = "^"  -> Bits!^^(x, y)

(* The value of the tree in toks, given those of its operands; the lists   *)
(* have two or three items.                                                *)
RECURSIVE EvalTree(_, _)
EvalTree(toks, symtab) ==
  LET pe == Items(Inside(toks))
  IN  IF Len(toks) = 1 THEN symtab[toks[1]]
      ELSE IF Len(pe) = 2 THEN unary_op_fn(pe[1][1], EvalTree(pe[2], symtab))
      ELSE binary_op_fn(pe[2][1], EvalTree(pe[1], symtab), EvalTree(pe[3], symtab))

(***************************************************************************)
(* The reference: an expression is split at the last of its loosest binary *)
(* operators outside parentheses; a text that is none has no value.        *)
(***************************************************************************)
Depth(s, k) ==
  Cardinality({i \in 1 .. k : s[i] = "("}) - Cardinality({i \in 1 .. k : s[i] = ")"})

(* Places [at, op] in s where a binary operator of a level stands.         *)
BinaryAt(s, level) ==
  {[at |-> k, op |-> o] : k \in 2 .. Len(s), o \in Range(operators[level])}

Splits(s, level) ==
  {p \in BinaryAt(s, level) :
     /\ StartsWith(s, p.op, p.at - 1) /\ Depth(s, p.at) = 0
     /\ s[p.at - 1] \in alphanums \cup {")"}
     /\ \A o \in UNION {Range(operators[l]) : l \in 2 .. Len(operators)} :
          StartsWith(s, o, p.at - 1) => Len(o) <= Len(p.op)}

RECURSIVE Value(_, _)
Value(s, symtab) ==
  LET loosest == {l \in 2 .. Len(operators) : Splits(s, l) # {}}
      p == CHOOSE p \in Splits(s, Max(loosest)) : \A q \in Splits(s, Max(loosest)) : q.at <= p.at
      left  == Value(SubSeq(s, 1, p.at - 1), symtab)
      right == Value(SubSeq(s, p.at + Len(p.op), Len(s)), symtab)
      tail  == Value(Tail(s), symtab)
  IN  IF s = <<>> THEN <<>>
      ELSE IF loosest # {}
      THEN IF left = <<>> \/ right = <<>> THEN <<>>
           ELSE <<binary_op_fn(Str(p.op), left[1], right[1])>>
      ELSE IF <<s[1]>> \in Range(operators[1])
      THEN IF tail = <<>> THEN <<>> ELSE <<unary_op_fn(s[1], tail[1])>>
      ELSE IF s[1] = "(" /\ Last(s) = ")" THEN Value(Inside(s), symtab)
      ELSE IF Str(s) \in DOMAIN symtab THEN <<symtab[Str(s)]>> ELSE <<>>
=============================================================================
