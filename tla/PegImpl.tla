------------------------------- MODULE PegImpl -------------------------------
(***************************************************************************)
(* parseImpl of the parser elements with parts, ucode/tools/pyparsing.py.  *)
(* A parseImpl that calls _parse on its parts is written as what it does   *)
(* between two such calls: given its frame f and the outcome out of the    *)
(* part it called last (NoOutcome at first) it makes another call or is    *)
(* done.  The module has no state: PegParse runs the frames on a stack,    *)
(* PegEval by recursion.                                                   *)
(***************************************************************************)
EXTENDS PegElements

CONSTANTS
  E,           (* the elements of the grammar                              *)
  instring     (* the input                                                *)

NoOutcome == [ok |-> FALSE, exc |-> "none", loc |-> -1, toks |-> <<>>]

(* A call of _parse; end is the end of the string it is given, which       *)
(* PrecededBy cuts.                                                        *)
Call(e, loc, act, pre, end) ==
  [e |-> e, loc |-> loc, act |-> act, pre |-> pre, end |-> end]

(* loc is where parseImpl began, pos where it is, i and todo what it is at *)
(* and last where the last repetition ended.                               *)
Frame(c) ==
  [call |-> c, phase |-> "preParse", loc |-> c.loc, pos |-> c.loc, last |-> c.loc,
   i |-> 0, todo |-> <<>>, toks |-> <<>>, farthest |-> NoOutcome, found |-> FALSE]

Elem(f)    == E[f.call.e]
Part(f, i) == Elem(f).exprs[i]
Text(f)    == Cut(instring, 0, f.call.end)

Done(out) == [do |-> "return", out |-> out, ran |-> FALSE]
Parse(f, e, loc, act, pre) ==
  [do |-> "call", frame |-> f, call |-> Call(e, loc, act, pre, f.call.end)]
Try(f, e, loc) == Parse(f, e, loc, FALSE, TRUE)

(* What tryParse makes of an outcome.                                      *)
Tried(out, loc) == IF Fatal(out) /\ out.exc # "RecursionError" THEN ParseException(loc) ELSE out

Missed(out)   == out.exc \in {"ParseException", "IndexError"}
BaseException(out) == out.exc \notin {"none", "IndexError", "RecursionError"}

(***************************************************************************)
(* preParse: each ignorable as often as it matches, until none does        *)
(***************************************************************************)
(* The result of the loop is in pos when the frame is done with it.        *)
Skipped(f) == [do |-> "skipped", frame |-> [f EXCEPT !.i = 0, !.found = FALSE]]

SkipIgnorables(f, out) ==
  LET n == Len(Elem(f).ignoreExprs)
      Ignore(g, i) == Parse([g EXCEPT !.i = i], Elem(f).ignoreExprs[i], g.pos, TRUE, TRUE)
  IN  IF f.i = 0 THEN IF n = 0 THEN Skipped(f) ELSE Ignore(f, 1)
      ELSE IF out.ok THEN Ignore([f EXCEPT !.pos = out.loc, !.found = TRUE], f.i)
      ELSE IF out.exc # "ParseException" THEN Done(out)
      ELSE IF f.i < n THEN Ignore(f, f.i + 1)
      ELSE IF f.found THEN Ignore([f EXCEPT !.found = FALSE], 1)
      ELSE Skipped(f)

(***************************************************************************)
(* Sequences: those of s that are in S, and s without the first e          *)
(***************************************************************************)
Filtered(s, S) ==
  LET kept[k \in 0 .. Len(s)] ==
        IF k = 0 THEN <<>> ELSE IF s[k] \in S THEN Append(kept[k - 1], s[k]) ELSE kept[k - 1]
  IN  kept[Len(s)]

Removed(s, e) ==
  LET at == {k \in DOMAIN s : s[k] = e}
  IN  IF at = {} THEN s ELSE RemoveAt(s, Min(at))

(***************************************************************************)
(* And, MatchFirst, Or                                                     *)
(***************************************************************************)
IsErrorStop(f, i) == E[Part(f, i)].cls = "ErrorStop"

(* Mutant of Stopped: the error stop only covers the part behind it.       *)
StoppedNext(f) == f.i > 2 /\ IsErrorStop(f, f.i - 1)

Stopped(f) == \E i \in 2 .. f.i - 1 : IsErrorStop(f, i)

SyntaxError(f, out) ==
  IF out.exc = "RecursionError" THEN out
  ELSE Fail("ParseSyntaxException", IF out.exc = "IndexError" THEN f.call.end ELSE out.loc)

(* Mutant of AndImpl: each part starts where the whole did.                *)
AndImplRestart(f, out) ==
  LET rest == {i \in f.i + 1 .. Len(Elem(f).exprs) : f.i = 0 \/ ~IsErrorStop(f, i)}
      g    == [f EXCEPT !.toks = @ \o out.toks]
  IN  IF f.i > 0 /\ ~out.ok THEN Done(IF Stopped(f) THEN SyntaxError(f, out) ELSE out)
      ELSE IF rest = {} THEN Done(Ok(out.loc, g.toks))
      ELSE Parse([g EXCEPT !.i = Min(rest)], Part(f, Min(rest)), f.loc, f.call.act, f.i > 0)

AndImpl(f, out) ==
  LET rest == {i \in f.i + 1 .. Len(Elem(f).exprs) : f.i = 0 \/ ~IsErrorStop(f, i)}
      g    == [f EXCEPT !.toks = @ \o out.toks]
  IN  IF f.i > 0 /\ ~out.ok THEN Done(IF Stopped(f) THEN SyntaxError(f, out) ELSE out)
      ELSE IF rest = {} THEN Done(Ok(out.loc, g.toks))
      ELSE Parse([g EXCEPT !.i = Min(rest)], Part(f, Min(rest)),
                 IF f.i = 0 THEN f.loc ELSE out.loc, f.call.act, f.i > 0)

(* The failure that came farthest is the one reported.                     *)
Farthest(f, out) ==
  LET loc == IF out.exc = "IndexError" THEN f.call.end ELSE out.loc
  IN  IF loc > f.farthest.loc THEN ParseException(loc) ELSE f.farthest

NoAlternative(f, failure) ==
  Done(IF failure = NoOutcome THEN ParseException(f.loc) ELSE failure)

MatchFirstImpl(f, out) ==
  LET g == IF f.i = 0 THEN f ELSE [f EXCEPT !.farthest = Farthest(f, out)]
  IN  IF f.i > 0 /\ (out.ok \/ ~Missed(out)) THEN Done(out)
      ELSE IF f.i = Len(Elem(f).exprs) THEN NoAlternative(f, g.farthest)
      ELSE Parse([g EXCEPT !.i = @ + 1], Part(f, f.i + 1), f.loc, f.call.act, TRUE)

(* The first of the longest of the matches left.                           *)
Longest(matches) ==
  CHOOSE m \in Range(matches) : \A n \in Range(matches) :
     m.loc > n.loc \/ (m.loc = n.loc /\ m.i <= n.i)

(* todo holds the alternatives that matched; once all were tried (i beyond *)
(* their number) the longest is parsed, then the next if that fails.       *)
OrImpl(f, out) ==
  LET n == Len(Elem(f).exprs)
      tried == IF f.i \in 1 .. n THEN Tried(out, f.loc) ELSE out
      g == IF f.i = 0 THEN f
           ELSE IF f.i <= n /\ tried.ok THEN [f EXCEPT !.todo = Append(@, [loc |-> out.loc, i |-> f.i])]
           ELSE [f EXCEPT !.farthest = Farthest(f, tried)]
      Again(m) == Parse([g EXCEPT !.i = n + 1, !.todo = Removed(@, m)],
                        Part(f, m.i), f.loc, f.call.act, TRUE)
  IN  IF f.i \in 1 .. n /\ ~tried.ok /\ ~Missed(tried) THEN Done(tried)
      ELSE IF f.i > n /\ (out.ok \/ out.exc # "ParseException") THEN Done(out)
      ELSE IF f.i < n THEN Try([g EXCEPT !.i = @ + 1], Part(f, f.i + 1), f.loc)
      ELSE IF g.todo = <<>> THEN NoAlternative(f, g.farthest)
      ELSE Again(Longest(g.todo))

(***************************************************************************)
(* Each: rounds of tryParse over what is still wanted, then the parts in   *)
(* the order found, then the optional ones not found                       *)
(***************************************************************************)
OfClass(f, classes) == Filtered(Elem(f).exprs, {e \in DOMAIN E : E[e].cls \in classes})
BodiesOf(exprs)     == [i \in DOMAIN exprs |-> E[exprs[i]].exprs[1]]

Multirequired(f)  == BodiesOf(OfClass(f, {"OneOrMore"}))
Multioptionals(f) == BodiesOf(OfClass(f, {"ZeroOrMore"}))
Single(e)         == E[e].cls \notin {"Optional", "ZeroOrMore", "OneOrMore"}
Required(f)       == Filtered(Elem(f).exprs, {e \in DOMAIN E : Single(e)}) \o Multirequired(f)
Optionals(f) ==
  BodiesOf(OfClass(f, {"Optional"})) \o
  Filtered(Elem(f).exprs, {e \in DOMAIN E : E[e].mayReturnEmpty /\ E[e].cls # "Optional"})

(* The Optionals whose body is among parts.                                *)
Wholes(f, parts) ==
  Filtered(OfClass(f, {"Optional"}), {o \in DOMAIN E : Range(E[o].exprs) \subseteq parts})

(* opt1map: the Optional a part is the body of.                            *)
Whole(f, e) == IF Wholes(f, {e}) = <<>> THEN e ELSE Last(Wholes(f, {e}))

Round(f, reqd, opt) == reqd \o opt \o Multioptionals(f) \o Multirequired(f)

(* toks is the tokens; todo the record of the rounds, then what to parse.  *)
EachStart(f) ==
  [reqd |-> Required(f), opt |-> Optionals(f), i |-> 0, failed |-> 0, order |-> <<>>,
   exprs |-> Round(f, Required(f), Optionals(f))]

EachFound(f, r, e) ==
  [r EXCEPT !.order = Append(@, Whole(f, e)),
            !.reqd = Removed(@, e),
            !.opt = IF e \in Range(r.reqd) THEN @ ELSE Removed(@, e)]

EachParse(f, order, toks, loc) ==
  IF order = <<>> THEN Done(Ok(loc, toks))
  ELSE Parse([f EXCEPT !.i = 2, !.todo = Tail(order), !.toks = toks],
             Head(order), loc, f.call.act, TRUE)

EachRound(f, r, pos) ==
  LET again == [r EXCEPT !.i = 0, !.failed = 0, !.exprs = Round(f, r.reqd, r.opt)]
      next  == IF r.i = Len(r.exprs) /\ r.failed < r.i THEN again ELSE r
  IN  IF next.i < Len(next.exprs)
      THEN Try([f EXCEPT !.i = 1, !.pos = pos, !.todo = [next EXCEPT !.i = @ + 1]],
               next.exprs[next.i + 1], pos)
      ELSE IF next.reqd # <<>> THEN Done(ParseException(f.loc))
      ELSE EachParse(f, next.order \o Wholes(f, Range(next.opt)), <<>>, f.loc)

EachImpl(f, out) ==
  IF f.i = 0 THEN EachRound(f, EachStart(f), f.loc)
  ELSE IF f.i = 2
       THEN IF out.ok THEN EachParse(f, f.todo, f.toks \o out.toks, out.loc) ELSE Done(out)
  ELSE LET tried == Tried(out, f.pos)
       IN  IF tried.ok THEN EachRound(f, EachFound(f, f.todo, f.todo.exprs[f.todo.i]), tried.loc)
           ELSE IF tried.exc = "ParseException"
                THEN EachRound(f, [f.todo EXCEPT !.failed = @ + 1], f.pos)
           ELSE Done(tried)

(***************************************************************************)
(* ParseElementEnhance and its subclasses                                  *)
(***************************************************************************)
EnhanceImpl(f, out) ==
  IF f.i > 0 THEN Done(out)
  ELSE IF Elem(f).exprs = <<>> THEN Done(ParseException(f.loc))
  ELSE Parse([f EXCEPT !.i = 1], Part(f, 1), f.loc, f.call.act, FALSE)

FollowedByImpl(f, out) ==
  LET tries == Elem(f).cls = "_FB"
  IN  IF f.i = 0
      THEN Parse([f EXCEPT !.i = 1], Part(f, 1), f.loc, f.call.act /\ ~tries, TRUE)
      ELSE Done(IF out.ok THEN Ok(f.loc, <<>>) ELSE IF tries THEN Tried(out, f.loc) ELSE out)

(* Mutant of PrecededByImpl: looks back beyond the start of the string.    *)
PrecededByImplUnguarded(f, out) ==
  LET arg  == Elem(f).arg
      next == f.i + 1
      Back == [Parse([f EXCEPT !.i = next], arg.id, f.loc - next, TRUE, TRUE)
                 EXCEPT !.call.end = Min({f.loc, @})]
  IN  IF f.i > 0 /\ out.ok THEN Done(Ok(f.loc, <<>>))
      ELSE IF f.i > 0 /\ (arg.flag \/ ~BaseException(out)) THEN Done(out)
      ELSE IF arg.flag
           THEN Parse([f EXCEPT !.i = 1], Part(f, 1), f.loc - arg.max, TRUE, TRUE)
      ELSE IF next < Min({f.loc, arg.max + 1}) THEN Back
      ELSE Done(IF f.i = 0 THEN ParseException(f.loc) ELSE out)

(* Looks back from the end of the string it cuts at loc; the actions of    *)
(* the part always run.                                                    *)
PrecededByImpl(f, out) ==
  LET arg  == Elem(f).arg
      next == f.i + 1
      Back == [Parse([f EXCEPT !.i = next], arg.id, f.loc - next, TRUE, TRUE)
                 EXCEPT !.call.end = Min({f.loc, @})]
  IN  IF f.i > 0 /\ out.ok THEN Done(Ok(f.loc, <<>>))
      ELSE IF f.i > 0 /\ (arg.flag \/ ~BaseException(out)) THEN Done(out)
      ELSE IF arg.flag
           THEN IF f.loc < arg.max THEN Done(ParseException(f.loc))
                ELSE Parse([f EXCEPT !.i = 1], Part(f, 1), f.loc - arg.max, TRUE, TRUE)
      ELSE IF next < Min({f.loc, arg.max + 1}) THEN Back
      ELSE Done(IF f.i = 0 THEN ParseException(f.loc) ELSE out)

(* Mutant of NotAnyImpl: canParseNext parses with the actions.             *)
NotAnyImplActs(f, out) ==
  LET tried == Tried(out, f.loc)
  IN  IF f.i = 0 THEN Parse([f EXCEPT !.i = 1], Part(f, 1), f.loc, TRUE, TRUE)
      ELSE IF tried.ok THEN Done(ParseException(f.loc))
      ELSE Done(IF Missed(tried) THEN Ok(f.loc, <<>>) ELSE tried)

NotAnyImpl(f, out) ==
  LET tried == Tried(out, f.loc)
  IN  IF f.i = 0 THEN Try([f EXCEPT !.i = 1], Part(f, 1), f.loc)
      ELSE IF tried.ok THEN Done(ParseException(f.loc))
      ELSE Done(IF Missed(tried) THEN Ok(f.loc, <<>>) ELSE tried)

(* _MultipleMatch: the part, as often as it matches and stopOn does not,   *)
(* with the ignorables skipped in between.  A failure after the first      *)
(* match ends the repetition.                                              *)
FirstTime(f) == f.todo = <<>>

EndsRepetition(f, out) ==
  IF ~Missed(out) THEN Done(out)
  ELSE IF ~FirstTime(f) THEN Done(Ok(f.last, f.toks))
  ELSE Done(IF Elem(f).cls = "ZeroOrMore" THEN Ok(f.loc, <<>>) ELSE out)

Repeat(f, loc, pre) == Parse([f EXCEPT !.phase = "expr"], Part(f, 1), loc, f.call.act, pre)

BeforeNext(f, out) ==
  LET d == SkipIgnorables([f EXCEPT !.phase = "ignore"], out)
  IN  CASE d.do = "skipped" -> Repeat(d.frame, d.frame.pos, TRUE)
        [] d.do = "return"  -> EndsRepetition(f, d.out)
        [] d.do = "call"    -> d

Wanted(f) == IF FirstTime(f) THEN Repeat(f, f.loc, FALSE) ELSE BeforeNext(f, NoOutcome)

CheckEnder(f) ==
  IF Elem(f).arg.id = 0 THEN Wanted(f)
  ELSE Try([f EXCEPT !.phase = "ender"], Elem(f).arg.id, f.last)

MultipleImpl(f, out) ==
  CASE f.phase = "impl"   -> CheckEnder(f)
    [] f.phase = "ender"  -> LET tried == Tried(out, f.last)
                             IN  IF tried.ok THEN Wanted(f) ELSE EndsRepetition(f, tried)
    [] f.phase = "ignore" -> BeforeNext(f, out)
    [] f.phase = "expr"   ->
         IF out.ok THEN CheckEnder([f EXCEPT !.todo = <<"more">>, !.toks = @ \o out.toks,
                                             !.last = out.loc, !.pos = out.loc])
         ELSE EndsRepetition(f, out)

OptionalImpl(f, out) ==
  IF f.i = 0 THEN Parse([f EXCEPT !.i = 1], Part(f, 1), f.loc, f.call.act, FALSE)
  ELSE Done(IF Missed(out) THEN Ok(f.loc, Elem(f).arg.default) ELSE out)

(* SkipTo.parseImpl, from one place to the next                            *)
SkipToFound(f) ==
  LET skiptext == <<Str(Cut(Text(f), f.loc, f.pos))>>
  IN  IF ~Elem(f).arg.flag THEN Done(Ok(f.pos, skiptext))
      ELSE Parse([f EXCEPT !.phase = "include", !.toks = skiptext],
                 Part(f, 1), f.pos, f.call.act, FALSE)

SkipToExpr(f) == Parse([f EXCEPT !.phase = "expr"], Part(f, 1), f.pos, FALSE, FALSE)

SkipToIgnore(f) ==
  IF Elem(f).arg.id = 0 THEN SkipToExpr(f)
  ELSE Try([f EXCEPT !.phase = "ignore"], Elem(f).arg.id, f.pos)

SkipToAt(f) ==
  IF f.pos > f.call.end THEN Done(ParseException(f.loc))
  ELSE IF Elem(f).arg.id2 = 0 THEN SkipToIgnore(f)
  ELSE Try([f EXCEPT !.phase = "failOn"], Elem(f).arg.id2, f.pos)

(* Mutant of SkipToImpl: the place after a failure is not moved on.        *)
SkipToImplStays(f, out) ==
  IF f.phase = "expr" /\ Missed(out) THEN SkipToAt(f) ELSE SkipToAt([f EXCEPT !.pos = @ + 1])

SkipToImpl(f, out) ==
  LET tried == Tried(out, f.pos)
  IN  CASE f.phase = "impl"    -> SkipToAt(f)
        [] f.phase = "failOn"  -> IF tried.ok THEN SkipToFound(f)
                                  ELSE IF Missed(tried) THEN SkipToIgnore(f) ELSE Done(tried)
        [] f.phase = "ignore"  -> IF tried.ok THEN SkipToIgnore([f EXCEPT !.pos = out.loc])
                                  ELSE IF BaseException(tried) THEN SkipToExpr(f) ELSE Done(tried)
        [] f.phase = "expr"    -> IF out.ok THEN SkipToFound(f)
                                  ELSE IF Missed(out) THEN SkipToAt([f EXCEPT !.pos = @ + 1])
                                  ELSE Done(out)
        [] f.phase = "include" -> Done(IF out.ok THEN Ok(out.loc, f.toks \o out.toks) ELSE out)

(***************************************************************************)
(* _parseNoCache: preParse, parseImpl, postParse, parse actions            *)
(***************************************************************************)
Impl(f, out) ==
  LET cls == Elem(f).cls
  IN  CASE cls \in Tokens       -> Done(ParseToken(Elem(f), Text(f), f.loc))
        [] cls \in Enhanced     -> EnhanceImpl(f, out)
        [] cls \in Multiple     -> MultipleImpl(f, out)
        [] cls = "And"          -> AndImpl(f, out)
        [] cls = "Or"           -> OrImpl(f, out)
        [] cls = "MatchFirst"   -> MatchFirstImpl(f, out)
        [] cls = "Each"         -> EachImpl(f, out)
        [] cls \in {"FollowedBy", "_FB"} -> FollowedByImpl(f, out)
        [] cls = "PrecededBy"   -> PrecededByImpl(f, out)
        [] cls = "NotAny"       -> NotAnyImpl(f, out)
        [] cls = "Optional"     -> OptionalImpl(f, out)
        [] cls = "SkipTo"       -> SkipToImpl(f, out)

PreParsed(f) == SkipWhite(Elem(f), Text(f), f.pos)
Preparses(f) == f.phase = "preParse" /\ f.call.pre /\ Elem(f).callPreparse

ActsOn(f) == Elem(f).parseAction # <<>> /\ (f.call.act \/ Elem(f).callDuringTry)

Acted(f, loc, toks) ==
  IF ActsOn(f) THEN CallActions(Elem(f).parseAction, f.loc, Ok(loc, toks)) ELSE Ok(loc, toks)

(* What _parseNoCache makes of the outcome of parseImpl; ran says that the *)
(* actions were called.                                                    *)
Returned(f, out) ==
  [do |-> "return", ran |-> out.ok /\ ActsOn(f),
   out |-> IF out.exc = "IndexError" /\ (Elem(f).mayIndexError \/ f.loc >= f.call.end)
           THEN ParseException(f.call.end)
           ELSE IF out.ok THEN Acted(f, out.loc, PostParse(Elem(f), out.toks)) ELSE out]

Finished(f, d) == IF d.do = "return" THEN Returned(f, d.out) ELSE d

Begin(f, loc) ==
  LET g == [f EXCEPT !.phase = "impl", !.loc = loc, !.pos = loc, !.last = loc]
  IN  Finished(g, Impl(g, NoOutcome))

(* _parseNoCache, from one call of _parse to the next or to the end.       *)
Advance(f, out) ==
  LET d == SkipIgnorables(f, out)
  IN  IF f.phase # "preParse" THEN Finished(f, Impl(f, out))
      ELSE IF ~Preparses(f) THEN Begin(f, f.loc)
      ELSE IF d.do = "skipped" THEN Begin(d.frame, PreParsed(d.frame))
      ELSE d
=============================================================================
