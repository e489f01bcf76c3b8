---------------------------- MODULE MCPegGrammars ----------------------------
(***************************************************************************)
(* Small grammars and inputs for TLC.  A family is a sequence of grammars, *)
(* each the sequence of its elements, the root last.                       *)
(***************************************************************************)
EXTENDS Expression

LitA   == Literal(<<"a">>)
LitB   == Literal(<<"b">>)
LitAB  == Literal(<<"a", "b">>)
WordA  == Word({"a"}, {}, 1, 0, 0)
WordAB == Word({"a", "b"}, {}, 1, 0, 0)
Acting(e, actions) == [e EXCEPT !.parseAction = actions]
Always(e)          == [e EXCEPT !.callDuringTry = TRUE]

Family(grammars, kinds, entries, strings) ==
  [grammars |-> grammars, packrat |-> kinds, entry |-> entries, instring |-> strings]

(* The n grammars that Op makes of each grammar.                           *)
Grow(grammars, n, Op(_)) ==
  [k \in 1 .. n * Len(grammars) |-> Op(grammars[(k - 1) \div n + 1])[((k - 1) % n) + 1]]

(***************************************************************************)
(* Elements within elements                                                *)
(***************************************************************************)
Pairs(G, i, j) ==
  <<With(G, And(G, <<i, j>>)), With(G, Or(G, <<i, j>>)), With(G, MatchFirst(G, <<i, j>>)),
    With(G, Each(G, <<i, j>>))>>

Wraps(G) ==
  LET i == Len(G)
  IN  <<With(G, Optional(G, i, <<>>)), With(G, OneOrMore(G, i, 0)), With(G, ZeroOrMore(G, i, 0)),
        With(G, NotAny(G, i)), With(G, FollowedBy(G, i)), With(G, Group(G, i)),
        With(G, SkipTo(G, i, TRUE, 0, 0)), AdjacentCombine(G, i), Minus(G, 1, i)>>

Outer(G) ==
  <<Plus(G, Len(G), 1), Either(G, Len(G), 2), With(G, Or(G, <<1, Len(G)>>))>>

Leaves == <<<<LitA, Acting(LitA, <<"trace">>)>>, <<WordAB, Acting(LitAB, <<"trace">>)>>,
            <<LitAB, Acting(WordAB, <<"trace">>)>>>>
Nested  == Grow(Leaves, 4, LAMBDA G : Pairs(G, 1, 2))
Wrapped == Grow(Nested, 9, Wraps)

OfNesting(grammars) ==
  Family(grammars, {"none", "fifo"}, {"parse"}, {<<"a", "b", "a">>, <<"a", " ", "a", "b">>})

Nestings == <<OfNesting(Nested), OfNesting(Wrapped), OfNesting(Grow(Wrapped, 3, Outer))>>

(***************************************************************************)
(* Tokens                                                                  *)
(***************************************************************************)
TokenList ==
  <<Empty, NoMatch, Literal(<<>>), Keyword(<<"a">>, {"a", "b"}, FALSE), Keyword(<<"a">>, {"a", "b"}, TRUE),
    CaselessLiteral(<<"a">>), CaselessKeyword(<<"a">>, {"a", "b"}), Word({"a"}, {"b"}, 1, 2, 0),
    Word({"a", "b"}, {}, 2, 0, 0), Word({"b"}, {"a"}, 1, 0, 2), Char({"a", "b"}), CharsNotIn({"b"}, 1, 0),
    CharsNotIn({"b"}, 2, 2), White({" ", "\n"}, 1, 0), White({"\n"}, 1, 1), LineStart, LineEnd, StringEnd,
    WordStart({"a", "b"}), WordEnd({"a", "b"}), CloseMatch(<<"a", "b">>, 1), oneOf(<<<<"a">>, <<"a", "b">>, <<"b">>>>)>>

Alone  == [t \in DOMAIN TokenList |-> <<TokenList[t]>>]
Behind == [t \in DOMAIN TokenList |-> Plus(<<LitA, TokenList[t]>>, 1, 2)]

OfTokens ==
  <<Family(Alone \o Behind, {"none"}, {"parse", "scan"},
           {<<"a", "b">>, <<"A", " ", "a">>, <<"a", "\n", "b">>, <<"b", "a", "b", "b">>, <<"a">>, <<" ">>})>>

(***************************************************************************)
(* Actions that raise, error stops, ignorables                             *)
(***************************************************************************)
Acts == <<<<"trace">>, <<"reject">>, <<"fatal">>, <<"index">>, <<"replace", "trace">>, <<"reset">>>>

ActingPairs ==
  Grow([a \in DOMAIN Acts |-> <<Acting(WordAB, Acts[a]), Acting(LitA, <<"trace">>)>>]
       \o [a \in DOMAIN Acts |-> <<Always(Acting(LitA, Acts[a])), Acting(LitAB, <<"reject">>)>>],
       4, LAMBDA G : Pairs(G, 1, 2))
(* Elements with parts and actions, within elements.                       *)
WithAction(k) ==
  LET G == Pairs(<<LitA, WordAB>>, 1, 2)[((k - 1) % 4) + 1]
  IN  [G EXCEPT ![Len(G)] = Acting(@, Acts[((k - 1) \div 4) + 1])]
ActingWholes == Grow([k \in 1 .. 4 * Len(Acts) |-> WithAction(k)], 3, Outer)
Repeated(G) == <<With(G, OneOrMore(G, Len(G), 0)), With(G, NotAny(G, Len(G)))>>

Stopping ==
  LET G == Minus(<<LitA, LitB>>, 1, 2)
      H == Plus(G, 1, Len(G))
      F == With(G, FB(G, Len(G)))
      R == [G EXCEPT ![Len(G)] = Acting(@, <<"reject">>)]
  IN  <<G, H, Either(F, Len(F), 1), Either(R, Len(R), 1), With(H, SkipTo(H, Len(H), FALSE, 0, 0))>>
      \o Wraps(G) \o Pairs(G, Len(G), 1) \o Pairs(H, Len(H), 1) \o Pairs(G, 1, Len(G))

Ignoring ==
  LET B == With(<<Acting(LitB, <<"trace">>)>>, Suppress(<<LitB>>, 1))
      Some == <<With(B, LitA), Plus(B \o <<WordA, LitA>>, 3, 4)>>
      Built == Grow(Some, 9, Wraps) \o Grow(Some, 2, Repeated)
  IN  [g \in DOMAIN Built |-> Ignore(Built[g], Len(Built[g]), 2)]

OfActions ==
  <<Family(ActingPairs, {"none", "fifo"}, {"parse", "scan"}, {<<"a", "b", "a">>, <<"a", " ", "a">>}),
    Family(Grow(ActingPairs, 2, Repeated), {"none", "fifo"}, {"parse", "scan"},
           {<<"a", "b", "a">>, <<"a", " ", "a">>}),
    Family(ActingWholes, {"none", "fifo"}, {"parse"}, {<<"a", "b", "a">>, <<"a", " ", "a", "b">>}),
    Family(Stopping, {"none", "unbounded"}, {"parse", "parseAll"},
           {<<"a", "b", "a">>, <<"a", "a", "b">>, <<"a", "a">>}),
    Family(Ignoring, {"none", "fifo"}, {"parse", "parseAll", "scan"},
           {<<"a", "b", "b", "a">>, <<"b", " ", "a", "b", "a">>})>>

(***************************************************************************)
(* Repetition, lookahead and behind, recursion                             *)
(***************************************************************************)
Multiples ==
  <<<<0, MAX_INT>>, <<1, MAX_INT>>, <<2, MAX_INT>>, <<2, 2>>, <<1, 1>>, <<0, 2>>, <<1, 3>>, <<2, 4>>>>

Repetitions ==
  LET W == <<LitA, LitB, Keyword(<<"a", "b">>, {"a", "b"}, FALSE), WordAB>>
      N == With(W, NotAny(W, 3))
      O == With(N, Optional(N, 1, <<"d">>))
      M == With(O, OneOrMore(O, 2, 0))
      Z == With(M, ZeroOrMore(M, 1, 0))
  IN  [m \in DOMAIN Multiples |-> Multiplied(<<LitA>>, 1, Multiples[m][1], Multiples[m][2])]
      \o <<DelimitedList(<<LitA, LitB>>, 1, 2), NestedExpr(<<LitA, LitB, WordAB>>, 1, 2, 3),
           With(N, OneOrMore(N, 4, 5)), With(N, ZeroOrMore(N, 4, 5)), With(O, Each(O, <<1, 6>>)),
           With(M, Each(M, <<6, 2>>)), With(M, Each(M, <<7, 1>>)), With(Z, Each(Z, <<6, 8, 2>>)),
           With(Z, Each(Z, <<7, 8>>))>>

Skips ==
  LET W == <<LitA, LitB, LitAB>>
  IN  <<With(W, SkipTo(W, 2, FALSE, 0, 0)), With(W, SkipTo(W, 3, TRUE, 0, 0)),
        With(W, SkipTo(W, 2, TRUE, 3, 0)), With(W, SkipTo(W, 3, FALSE, 0, 2)),
        With(W, SkipTo(W, 3, TRUE, 2, 1))>>

LookBehind ==
  LET Parts5(action) ==
        Plus(<<LitA, Acting(LitB, action), Acting(WordAB, action), StringEnd>>, 3, 4)
      Seen(G, e, retreat) == With(G, PrecededBy(G, e, retreat, 5))
      Back(G, e, retreat) == LET B == Seen(G, e, retreat) IN Plus(B, Len(B), 1)
      BackAtEnd(G, e, retreat) ==
        LET B == Plus(Seen(G, e, retreat), 1, 4) IN Plus(B, Len(B), Len(B) - 1)
      Start == LET G == <<LineStart, LitA>> IN With(G, PrecededBy(G, 1, 0, 0))
      Quiet == Parts5(<<>>)   Traced == Parts5(<<"trace">>)   Fails == Parts5(<<"fatal">>)
      Trials(G) == <<With(G, FollowedBy(G, Len(G))), With(G, NotAny(G, Len(G))), Either(G, Len(G), 1)>>
  IN  <<Back(Quiet, 2, 0), Back(Quiet, 3, 2), Back(Quiet, 5, 3), Plus(Start, 3, 2),
        Back(Traced, 3, 2), BackAtEnd(Traced, 3, 2)>>
      \o Trials(Back(Fails, 2, 0)) \o Trials(Back(Fails, 3, 2)) \o Trials(Back(Traced, 2, 0))

Recursions ==
  LET F == <<Forward, LitA, LitB>>
      R == Plus(F, 2, 1)   B == Either(R, 4, 3)
      L == Plus(F, 1, 2)   D == Either(L, 4, 3)
      (* A Group made before the << of its Forward to an Optional.         *)
      G == With(F, Group(F, 1))   O == With(G, Optional(G, 2, <<>>))
  IN  <<With(Shift(B, 1, 5), Group(Shift(B, 1, 5), 1)), With(Shift(D, 1, 5), Group(Shift(D, 1, 5), 1)),
        G, Plus(Shift(O, 1, 5), 4, 3)>>

OfRest ==
  <<Family(Repetitions, {"none", "fifo"}, {"parse", "parseAll"},
           {<<"a", "a", "a">>, <<"a", "b", "a">>, <<"b", "a", " ", "a", "b", "b">>, <<"a", "a", "b", "b">>, <<>>}),
    Family(Skips \o LookBehind, {"none", "unbounded"}, {"parse", "scan", "overlap"},
           {<<"a", "b", "a">>, <<"b", " ", "a", "b", "a">>, <<"\n", "a">>}),
    Family(Recursions, {"none", "unbounded", "fifo"}, {"parse", "scan"},
           {<<"a", "a", "b">>, <<"b", "a">>, <<"a">>})>>

(***************************************************************************)
(* Expressions                                                             *)
(***************************************************************************)
OfExpressions ==
  <<Family(<<ExpressionGrammar(<<1, 2>>)>>, {"unbounded", "fifo"}, {"parse"},
           {<<"-", "a", "*", "b">>, <<"a", "*", "-", "b">>, <<"-", "(", "a", ")">>, <<"~", "!", "a">>,
            <<"a", "/", "2", "*", "b">>, <<"a", "*", "+">>, <<"a", ")">>, <<"0", " ", "x">>}),
    Family(<<ExpressionGrammar(<<2, 3>>)>>, {"none", "fifo"}, {"parse"},
           {<<"a", "-", "b", "-", "1">>, <<"a", "+", "b", "*", "a">>, <<"(", "a", "-", "b", ")", "*", "2">>,
            <<"a", " ", "b">>, <<"0", "x", "a">>, <<"0", "X", "a", "-", "1">>}),
    Family(<<ExpressionGrammar(<<4, 5, 6>>)>>, {"unbounded"}, {"parse"},
           {<<"a", "<", "<", "1", "<", "b">>, <<"a", "<", "=", "b", "=", "=", "1">>, <<"a", ">", "b", "!", "=", "1">>,
            <<"b", ">", ">", "1", ">", "=", "2">>, <<"a", "<", "b", "<", "2">>}),
    Family(<<ExpressionGrammar(<<7, 8, 9>>)>>, {"fifo"}, {"parse"},
           {<<"a", "|", "b", "&", "1">>, <<"a", "^", "b", "^", "1">>, <<"1", "&", "2", "|", "a">>})>>

(***************************************************************************)
(* All of them                                                              *)
(***************************************************************************)
Families == Nestings \o OfTokens \o OfActions \o OfRest \o OfExpressions

(* The grammars are numbered through the families.                         *)
Before(f) == SumFunction([k \in 1 .. f - 1 |-> Len(Families[k].grammars)])

MCGrammars ==
  LET Numbered(f, g) == Before(f) < g /\ g <= Before(f + 1)
      FamilyOf(g)   == CHOOSE f \in DOMAIN Families : Numbered(f, g)
      Grammar(g)     == Families[FamilyOf(g)].grammars[g - Before(FamilyOf(g))]
  IN  [g \in 1 .. Before(Len(Families) + 1) |->
         [elements |-> Grammar(g), root |-> Len(Grammar(g))]]
=============================================================================
