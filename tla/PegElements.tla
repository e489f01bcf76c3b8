---------------------------- MODULE PegElements -----------------------------
(***************************************************************************)
(* The parser elements of ucode/tools/pyparsing.py: what each constructor  *)
(* sets, and how the elements without parts match.  A grammar is a         *)
(* sequence of elements; an element names its parts by their index.  The   *)
(* input is a sequence of one-character strings, and locations count from  *)
(* 0 as in the code.  A token is a string; the tokens of a Group stand     *)
(* between Open and Close.                                                 *)
(***************************************************************************)
EXTENDS Integers, Sequences, FiniteSetsExt, SequencesExt, TLC

DEFAULT_WHITE_CHARS == {" ", "\n", "\t", "\r"}
MAX_INT == 1000
NONE == "NONE"
Open == "["
Close == "]"

Upper(c) == CASE c = "a" -> "A" [] c = "b" -> "B" [] c = "c" -> "C" [] c = "x" -> "X"
                 [] OTHER -> c
Uppers(s) == [i \in DOMAIN s |-> Upper(s[i])]
Str(s) == FoldLeft(LAMBDA x, c : x \o c, "", s)
At(s, loc) == s[loc + 1]
Cut(s, from, to) == SubSeq(s, from + 1, Min({to, Len(s)}))

(***************************************************************************)
(* ParserElement.__init__; arg holds what one class only has.              *)
(***************************************************************************)
NoArg == [match |-> <<>>, chars |-> {}, body |-> {}, min |-> 1, max |-> MAX_INT,
          flag |-> FALSE, caseless |-> FALSE, id |-> 0, id2 |-> 0, default |-> <<>>]

ParserElement ==
  [cls |-> NONE, exprs |-> <<>>, parseAction |-> <<>>, callDuringTry |-> FALSE,
   resultsName |-> NONE, skipWhitespace |-> TRUE, whiteChars |-> DEFAULT_WHITE_CHARS,
   copyDefaultWhiteChars |-> TRUE, mayReturnEmpty |-> FALSE, mayIndexError |-> TRUE,
   ignoreExprs |-> <<>>, callPreparse |-> TRUE, arg |-> NoArg]

SetWhitespaceChars(chars) ==
  [skipWhitespace |-> TRUE, whiteChars |-> chars, copyDefaultWhiteChars |-> FALSE]

Token(cls, arg) ==
  [cls |-> cls, mayIndexError |-> FALSE, arg |-> arg @@ NoArg] @@ ParserElement

EmptyToken(cls, arg) == [mayReturnEmpty |-> TRUE] @@ Token(cls, arg)

NoArgs == [id |-> 0]
Empty   == EmptyToken("Empty", NoArgs)
NoMatch == EmptyToken("NoMatch", NoArgs)

Literal(match) == IF match = <<>> THEN Empty ELSE Token("Literal", [match |-> match])

Keyword(match, identChars, caseless) ==
  Token("Keyword", [match |-> match, caseless |-> caseless,
                    chars |-> IF caseless THEN {Upper(c) : c \in identChars} ELSE identChars])

CaselessLiteral(match) ==
  Token("CaselessLiteral", [match |-> Uppers(match), default |-> <<Str(match)>>])

CaselessKeyword(match, identChars) ==
  [Keyword(match, identChars, TRUE) EXCEPT !.cls = "CaselessKeyword"]

CloseMatch(match, maxMismatches) ==
  Token("CloseMatch", [match |-> match, max |-> maxMismatches])

(* flag: a maximum was given (but not an exact length).                    *)
Word(initChars, bodyChars, min, max, exact) ==
  Token("Word", [chars |-> initChars,
                 body |-> IF bodyChars = {} THEN initChars ELSE bodyChars,
                 min |-> IF exact > 0 THEN exact ELSE min,
                 max |-> IF exact > 0 THEN exact ELSE IF max > 0 THEN max ELSE MAX_INT,
                 flag |-> max > 0])

Char(charset) == [Word(charset, {}, 1, 0, 1) EXCEPT !.cls = "Char"]

CharsNotIn(notChars, min, max) ==
  [skipWhitespace |-> FALSE] @@
  Token("CharsNotIn", [chars |-> notChars, min |-> min, max |-> IF max > 0 THEN max ELSE MAX_INT])

White(ws, min, max) ==
  SetWhitespaceChars(DEFAULT_WHITE_CHARS \ ws) @@ [mayIndexError |-> TRUE] @@
  EmptyToken("White", [chars |-> ws, min |-> min, max |-> IF max > 0 THEN max ELSE MAX_INT])

(* A Regex of alternatives; oneOf puts a symbol before those that it       *)
(* begins with: the longest first.                                         *)
Regex(alternatives) == EmptyToken("Regex", [default |-> alternatives])

oneOf(symbols) == Regex(SortSeq(symbols, LAMBDA x, y : Len(x) > Len(y)))

LineStart == EmptyToken("LineStart", NoArgs)
LineEnd   == SetWhitespaceChars(DEFAULT_WHITE_CHARS \ {"\n"}) @@ EmptyToken("LineEnd", NoArgs)
StringEnd == EmptyToken("StringEnd", NoArgs)
WordStart(wordChars) == EmptyToken("WordStart", [chars |-> wordChars])
WordEnd(wordChars) ==
  [skipWhitespace |-> FALSE] @@ EmptyToken("WordEnd", [chars |-> wordChars])

(* And._ErrorStop: leaveWhitespace.                                        *)
ErrorStop == [skipWhitespace |-> FALSE] @@ EmptyToken("ErrorStop", NoArgs)

(***************************************************************************)
(* Elements with parts, given the elements E built before                  *)
(***************************************************************************)
ParseExpression(cls, exprs, mayBeEmpty) ==
  [cls |-> cls, exprs |-> exprs, callPreparse |-> FALSE,
   mayReturnEmpty |-> mayBeEmpty] @@ ParserElement

Parts(E, exprs) == {E[exprs[i]] : i \in DOMAIN exprs}

AllEmpty(E, exprs) == \A e \in Parts(E, exprs) : e.mayReturnEmpty

And(E, exprs) ==
  [callPreparse |-> TRUE] @@ [skipWhitespace |-> E[exprs[1]].skipWhitespace] @@
  SetWhitespaceChars(E[exprs[1]].whiteChars) @@
  ParseExpression("And", exprs, AllEmpty(E, exprs))

(* Mutant of SomeEmpty: all in place of any.                               *)
SomeEmptyAll(E, exprs) == exprs = <<>> \/ AllEmpty(E, exprs)

SomeEmpty(E, exprs) == exprs = <<>> \/ \E e \in Parts(E, exprs) : e.mayReturnEmpty

Or(E, exprs)         == ParseExpression("Or", exprs, SomeEmpty(E, exprs))
MatchFirst(E, exprs) == ParseExpression("MatchFirst", exprs, SomeEmpty(E, exprs))
Each(E, exprs) == ParseExpression("Each", exprs, AllEmpty(E, exprs))

ParseElementEnhance(E, cls, expr) ==
  LET e == E[expr]
  IN  [skipWhitespace |-> e.skipWhitespace] @@ SetWhitespaceChars(e.whiteChars) @@
      [cls |-> cls, exprs |-> <<expr>>, mayIndexError |-> e.mayIndexError,
       mayReturnEmpty |-> e.mayReturnEmpty, callPreparse |-> e.callPreparse,
       ignoreExprs |-> e.ignoreExprs] @@ ParserElement

(* _FB is the FollowedBy of infixNotation, which only tries.               *)
FB(E, expr) ==
  [ParseElementEnhance(E, "_FB", expr) EXCEPT !.mayReturnEmpty = TRUE]

FollowedBy(E, expr) ==
  [ParseElementEnhance(E, "FollowedBy", expr) EXCEPT !.mayReturnEmpty = TRUE]

PositionTokens == {"LineStart", "LineEnd", "StringEnd", "WordStart", "WordEnd"}

(* The retreat, and whether it is exact, follow from the element looked    *)
(* back for.  id is the And of the element and a StringEnd.                *)
PrecededBy(E, expr, retreat, test) ==
  LET e == E[expr]
      fixed  == {"Literal", "Keyword", "CaselessLiteral", "CaselessKeyword"}
      counts == e.cls \in {"Word", "Char", "CharsNotIn"} /\ e.arg.max # MAX_INT
      exact  == counts \/ e.cls \in fixed \cup PositionTokens
      back   == IF e.cls \in fixed THEN Len(e.arg.match)
                ELSE IF counts THEN e.arg.max ELSE IF exact THEN 0 ELSE retreat
  IN  [ParseElementEnhance(E, "PrecededBy", expr) EXCEPT
         !.mayReturnEmpty = TRUE, !.mayIndexError = FALSE, !.skipWhitespace = FALSE,
         !.arg = [flag |-> exact, max |-> back, id |-> test] @@ NoArg]

NotAny(E, expr) ==
  [ParseElementEnhance(E, "NotAny", expr) EXCEPT !.skipWhitespace = FALSE, !.mayReturnEmpty = TRUE]

(* id is the NotAny of stopOn, or 0.                                       *)
OneOrMore(E, expr, not_ender) ==
  [ParseElementEnhance(E, "OneOrMore", expr) EXCEPT !.arg.id = not_ender]

ZeroOrMore(E, expr, not_ender) ==
  [OneOrMore(E, expr, not_ender) EXCEPT !.cls = "ZeroOrMore", !.mayReturnEmpty = TRUE]

Optional(E, expr, default) ==
  [ParseElementEnhance(E, "Optional", expr) EXCEPT
     !.mayReturnEmpty = TRUE, !.arg.default = default]

(* id is ignore, id2 failOn, or 0.                                         *)
SkipTo(E, expr, include, ignore, failOn) ==
  [ParseElementEnhance(E, "SkipTo", expr) EXCEPT
     !.mayReturnEmpty = TRUE, !.mayIndexError = FALSE,
     !.arg.flag = include, !.arg.id = ignore, !.arg.id2 = failOn]

(* A Forward before << has no part; << copies the flags of that moment.    *)
Forward == [ParserElement EXCEPT !.cls = "Forward"]

Shift(E, fwd, other) ==
  LET e == E[other]
  IN  [E EXCEPT ![fwd] = [skipWhitespace |-> e.skipWhitespace] @@
         SetWhitespaceChars(e.whiteChars) @@
         [exprs |-> <<other>>, mayIndexError |-> e.mayIndexError,
          mayReturnEmpty |-> e.mayReturnEmpty,
          ignoreExprs |-> E[fwd].ignoreExprs \o e.ignoreExprs] @@ E[fwd]]

Group(E, expr)    == ParseElementEnhance(E, "Group", expr)
Suppress(E, expr) == ParseElementEnhance(E, "Suppress", expr)

(* An adjacent Combine is given an element made not to skip whitespace.    *)
Combine(E, expr) ==
  [ParseElementEnhance(E, "Combine", expr) EXCEPT !.skipWhitespace = TRUE, !.callPreparse = TRUE]

(***************************************************************************)
(* Outcomes of a parse                                                     *)
(***************************************************************************)
Ok(loc, toks) == [ok |-> TRUE, exc |-> "none", loc |-> loc, toks |-> toks]
Fail(exc, loc) == [ok |-> FALSE, exc |-> exc, loc |-> loc, toks |-> <<>>]
ParseException(loc) == Fail("ParseException", loc)
IndexError == Fail("IndexError", 0)

Fatal(out) == out.exc \notin {"none", "ParseException", "IndexError"}

(***************************************************************************)
(* preParse without ignorables                                             *)
(***************************************************************************)
SkipWhite(e, s, loc) ==
  IF ~e.skipWhitespace THEN loc
  ELSE LET stops == {k \in loc .. Len(s) - 1 : At(s, k) \notin e.whiteChars}
       IN  IF stops = {} THEN Max({loc, Len(s)}) ELSE Min(stops)

(***************************************************************************)
(* parseImpl of the elements without parts                                 *)
(***************************************************************************)
StartsWith(s, match, loc) == Cut(s, loc, loc + Len(match)) = match

(* The end of the run of characters in set from loc on, at most to max.    *)
RunEnd(s, loc, set, max) ==
  LET top   == Min({loc + max, Len(s)})
      stops == {k \in loc .. top - 1 : At(s, k) \notin set}
  IN  IF stops = {} THEN Max({loc, top}) ELSE Min(stops)

Col(s, loc) ==
  LET newlines == {k \in 0 .. Min({loc, Len(s)}) - 1 : At(s, k) = "\n"}
  IN  IF newlines = {} THEN loc + 1
      ELSE IF loc < Len(s) /\ loc - 1 \in newlines THEN 1 ELSE loc - Max(newlines)

ParseLiteral(e, s, loc) ==
  IF loc >= Len(s) THEN IndexError
  ELSE IF StartsWith(s, e.arg.match, loc) THEN Ok(loc + Len(e.arg.match), <<Str(e.arg.match)>>)
  ELSE ParseException(loc)

EndsKeyword(s, loc, chars) == loc >= Len(s) \/ At(s, loc) \notin chars

ParseKeyword(e, s, loc) ==
  LET text  == IF e.arg.caseless THEN Uppers(s) ELSE s
      match == IF e.arg.caseless THEN Uppers(e.arg.match) ELSE e.arg.match
      end   == loc + Len(match)
  IN  IF loc >= Len(s) /\ ~e.arg.caseless THEN IndexError
      ELSE IF /\ StartsWith(text, match, loc) /\ EndsKeyword(text, end, e.arg.chars)
              /\ (loc = 0 \/ At(text, loc - 1) \notin e.arg.chars)
           THEN Ok(end, <<Str(e.arg.match)>>) ELSE ParseException(loc)

ParseCaselessLiteral(e, s, loc) ==
  IF StartsWith(Uppers(s), e.arg.match, loc) THEN Ok(loc + Len(e.arg.match), e.arg.default)
  ELSE ParseException(loc)

ParseCaselessKeyword(e, s, loc) ==
  LET end == loc + Len(e.arg.match)
  IN  IF StartsWith(Uppers(s), Uppers(e.arg.match), loc) /\ EndsKeyword(Uppers(s), end, e.arg.chars)
      THEN Ok(end, <<Str(e.arg.match)>>) ELSE ParseException(loc)

(* The location returned is counted from the start of the match.           *)
ParseCloseMatch(e, s, loc) ==
  LET n == Len(e.arg.match)
      mismatches == {k \in 1 .. n : s[loc + k] # e.arg.match[k]}
  IN  IF loc + n <= Len(s) /\ Cardinality(mismatches) <= e.arg.max
      THEN Ok(n, <<Str(Cut(s, loc, n))>>) ELSE ParseException(loc)

ByRegex(e) == e.cls = "Char" \/ (e.arg.min = 1 /\ e.arg.max = MAX_INT)

ParseWord(e, s, loc) ==
  IF loc >= Len(s) THEN IF ByRegex(e) THEN ParseException(loc) ELSE IndexError
  ELSE IF At(s, loc) \notin e.arg.chars THEN ParseException(loc)
  ELSE LET end == RunEnd(s, loc + 1, e.arg.body, e.arg.max - 1)
       IN  IF \/ end - loc < e.arg.min
              \/ e.arg.flag /\ end < Len(s) /\ At(s, end) \in e.arg.body
           THEN ParseException(end) ELSE Ok(end, <<Str(Cut(s, loc, end))>>)

(* CharsNotIn and White: a run of characters of chars.                     *)
ParseRun(e, s, loc, chars) ==
  IF loc >= Len(s) THEN IndexError
  ELSE IF At(s, loc) \notin chars THEN ParseException(loc)
  ELSE LET end == RunEnd(s, loc + 1, chars, e.arg.max - 1)
       IN  IF end - loc < e.arg.min THEN ParseException(end) ELSE Ok(end, <<Str(Cut(s, loc, end))>>)

ParseCharsNotIn(e, s, loc) == ParseRun(e, s, loc, Range(s) \ e.arg.chars)
ParseWhite(e, s, loc)      == ParseRun(e, s, loc, e.arg.chars)

ParseRegex(e, s, loc) ==
  LET alternatives == e.arg.default
      matching == {i \in DOMAIN alternatives : StartsWith(s, alternatives[i], loc)}
  IN  IF matching = {} THEN ParseException(loc)
      ELSE LET match == alternatives[Min(matching)]
           IN  Ok(loc + Len(match), <<Str(match)>>)

ParseLineStart(s, loc) == IF Col(s, loc) = 1 THEN Ok(loc, <<>>) ELSE ParseException(loc)

ParseLineEnd(s, loc) ==
  IF loc < Len(s)
  THEN IF At(s, loc) = "\n" THEN Ok(loc + 1, <<"\n">>) ELSE ParseException(loc)
  ELSE IF loc = Len(s) THEN Ok(loc + 1, <<>>) ELSE ParseException(loc)

ParseStringEnd(s, loc) ==
  IF loc < Len(s) THEN ParseException(loc)
  ELSE Ok(IF loc = Len(s) THEN loc + 1 ELSE loc, <<>>)

ParseWordStart(e, s, loc) ==
  IF loc = 0 THEN Ok(loc, <<>>)
  ELSE IF At(s, loc - 1) \in e.arg.chars THEN ParseException(loc)
  ELSE IF loc >= Len(s) THEN IndexError
  ELSE IF At(s, loc) \notin e.arg.chars THEN ParseException(loc) ELSE Ok(loc, <<>>)

(* At location 0 instring[loc-1] is the last character.                    *)
ParseWordEnd(e, s, loc) ==
  LET before == IF loc = 0 THEN s[Len(s)] ELSE At(s, loc - 1)
  IN  IF loc < Len(s) /\ (At(s, loc) \in e.arg.chars \/ before \notin e.arg.chars)
      THEN ParseException(loc) ELSE Ok(loc, <<>>)

ParseToken(e, s, loc) ==
  CASE e.cls \in {"Empty", "ErrorStop"} -> Ok(loc, <<>>)
    [] e.cls = "NoMatch"         -> ParseException(loc)
    [] e.cls = "Literal"         -> ParseLiteral(e, s, loc)
    [] e.cls = "Keyword"         -> ParseKeyword(e, s, loc)
    [] e.cls = "CaselessLiteral" -> ParseCaselessLiteral(e, s, loc)
    [] e.cls = "CaselessKeyword" -> ParseCaselessKeyword(e, s, loc)
    [] e.cls = "CloseMatch"      -> ParseCloseMatch(e, s, loc)
    [] e.cls \in {"Word", "Char"} -> ParseWord(e, s, loc)
    [] e.cls = "CharsNotIn"      -> ParseCharsNotIn(e, s, loc)
    [] e.cls = "White"           -> ParseWhite(e, s, loc)
    [] e.cls = "Regex"           -> ParseRegex(e, s, loc)
    [] e.cls = "LineStart"       -> ParseLineStart(s, loc)
    [] e.cls = "LineEnd"         -> ParseLineEnd(s, loc)
    [] e.cls = "StringEnd"       -> ParseStringEnd(s, loc)
    [] e.cls = "WordStart"       -> ParseWordStart(e, s, loc)
    [] e.cls = "WordEnd"         -> ParseWordEnd(e, s, loc)

Tokens == {"Empty", "ErrorStop", "NoMatch", "Literal", "Keyword", "CaselessLiteral",
           "CaselessKeyword", "CloseMatch", "Word", "Char", "CharsNotIn", "White", "Regex",
           "LineStart", "LineEnd", "StringEnd", "WordStart", "WordEnd"}

(***************************************************************************)
(* What an element of a grammar of n elements is                           *)
(***************************************************************************)
Enhanced  == {"Forward", "Group", "Suppress", "Combine"}
Multiple  == {"OneOrMore", "ZeroOrMore"}
Lookaround == {"FollowedBy", "_FB", "PrecededBy", "NotAny"}
Listed    == {"Or", "MatchFirst", "Each"}
Classes   == Tokens \cup Enhanced \cup Multiple \cup Lookaround \cup Listed
               \cup {"And", "Optional", "SkipTo"}

(* How many parts a class takes; a Forward may not have got its part.      *)
Arity(cls) ==
  CASE cls \in Tokens     -> {0}
    [] cls \in Listed     -> Nat
    [] cls = "And"        -> Nat \ {0}
    [] cls = "Forward"    -> {0, 1}
    [] OTHER              -> {1}

Actions == {"trace", "reset", "replace", "nest", "reject", "fatal", "index"}

Args(n) ==
  [match : Seq(STRING), chars : SUBSET STRING, body : SUBSET STRING, min : Nat, max : Nat,
   flag : BOOLEAN, caseless : BOOLEAN, id : 0 .. n, id2 : 0 .. n]

IsElement(e, n) ==
  /\ DOMAIN e = DOMAIN ParserElement /\ DOMAIN e.arg = DOMAIN NoArg
  /\ e.cls \in Classes
  /\ e.exprs \in Seq(1 .. n) /\ e.ignoreExprs \in Seq(1 .. n) /\ Len(e.exprs) \in Arity(e.cls)
  /\ e.parseAction \in Seq(Actions)
  /\ \A flag \in {"callDuringTry", "skipWhitespace", "copyDefaultWhiteChars",
                   "mayReturnEmpty", "mayIndexError", "callPreparse"} : e[flag] \in BOOLEAN
  /\ e.whiteChars \subseteq STRING
  /\ [a \in DOMAIN NoArg \ {"default"} |-> e.arg[a]] \in Args(n)
  /\ e.cls = "Regex" => e.arg.default \in Seq(Seq(STRING))
  /\ e.cls = "PrecededBy" => e.arg.flag \/ e.arg.id # 0

(* postParse: tokens of a matched element.                                 *)
PostParse(e, toks) ==
  CASE e.cls = "Group"    -> <<Open>> \o toks \o <<Close>>
    [] e.cls = "Suppress" -> <<>>
    [] e.cls = "Combine"  -> <<FoldLeft(LAMBDA x, t : IF t \in {Open, Close} THEN x ELSE x \o t, "", toks)>>
    [] OTHER              -> toks

(***************************************************************************)
(* Parse actions: one that returns nothing ("trace", "reset"), one that    *)
(* returns other tokens ("replace"; "nest" is nest_operand_pairs of        *)
(* expressionparser.py) and one that raises.                               *)
(***************************************************************************)
(* The tokens and the Groups of a token list.                              *)
Items(toks) ==
  LET Add(acc, t) ==
        LET depth == acc.depth + (IF t = Open THEN 1 ELSE IF t = Close THEN -1 ELSE 0)
            item  == Append(acc.item, t)
        IN  IF depth = 0 THEN [items |-> Append(acc.items, item), item |-> <<>>, depth |-> 0]
            ELSE [acc EXCEPT !.item = item, !.depth = depth]
  IN  FoldLeft(Add, [items |-> <<>>, item |-> <<>>, depth |-> 0], toks).items

Inside(group)  == SubSeq(group, 2, Len(group) - 1)
Bracket(items) == <<Open>> \o FlattenSeq(items) \o <<Close>>

(* Mutant of NestOperandPairs: the operands are nested from the right.     *)
NestOperandPairsRight(toks) ==
  LET items == Items(Inside(toks))
      n     == Len(items)
  IN  FoldRight(LAMBDA k, ret : Bracket(<<items[2 * k - 1], items[2 * k]>> \o <<ret>>),
                [k \in 1 .. (n - 1) \div 2 |-> k], items[n])

NestOperandPairs(toks) ==
  LET items == Items(Inside(toks))
      Pair(ret, k) == Bracket(<<ret, items[2 * k], items[2 * k + 1]>>)
  IN  FoldLeft(Pair, Bracket(SubSeq(items, 1, Min({3, Len(items)}))), [k \in 1 .. (Len(items) - 3) \div 2 |-> k + 1])

Raised(action, loc) ==
  CASE action = "reject" -> ParseException(loc)
    [] action = "fatal"  -> Fail("ParseFatalException", loc)
    [] action = "index"  -> ParseException(0)

(* The tokens that the actions make of those of a match.                  *)
ActedOn(actions, toks) ==
  LET Call(t, action) ==
        CASE action = "replace" -> <<"X">>
          [] action = "nest"    -> NestOperandPairs(t)
          [] OTHER              -> t
  IN  FoldLeft(Call, toks, actions)

(* What they make of the outcome of a match at loc: the first that raises  *)
(* ends it.                                                                *)
CallActions(actions, loc, out) ==
  LET raising == {k \in DOMAIN actions : actions[k] \in {"reject", "fatal", "index"}}
  IN  IF raising = {} THEN Ok(out.loc, ActedOn(actions, out.toks))
      ELSE Raised(actions[Min(raising)], loc)
=============================================================================
