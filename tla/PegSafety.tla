----------------------------- MODULE PegSafety ------------------------------
(***************************************************************************)
(* What parsing with pyparsing never does, whatever the grammar, the input *)
(* and the cache.                                                          *)
(***************************************************************************)
EXTENDS PegParse

(* CloseMatch returns the length of what it matched for its location, and  *)
(* so may go back.                                                         *)
WithoutCloseMatch ==
  {g \in DOMAIN Prepared : \A e \in Range(Prepared[g].elements) : e.cls # "CloseMatch"}

(* The first location that a parse from loc may come to.                   *)
Base(loc) == IF grammar \in WithoutCloseMatch THEN loc ELSE 0

Outcome(o) ==
  /\ o.ok = (o.exc = "none" /\ o.loc >= 0)
  /\ o.loc \in -1 .. Len(instring) + 1
  /\ o.exc \in {"none", "ParseException", "IndexError", "ParseSyntaxException",
                "ParseFatalException", "RecursionError"}

(* No location runs away: one step past the end, which LineEnd and         *)
(* StringEnd take, is as far as it goes, and only a CloseMatch goes back.  *)
TypeOK ==
  /\ Outcome(out) /\ Len(stack) <= MaxDepth
  /\ \A i \in DOMAIN stack :
       LET f == stack[i]
       IN  /\ f.call.e \in DOMAIN E /\ f.call.end \in 0 .. Len(instring)
           /\ {f.loc, f.pos, f.last} \subseteq Base(f.call.loc) .. f.call.end + 1
  /\ call = NoCall \/ (call.e \in DOMAIN E /\ call.loc \in 0 .. call.end + 1)

(* The frame that a step takes from the stack.                             *)
Returns == /\ Len(stack') < Len(stack)
           /\ Last(stack).phase # "preParse only"

(***************************************************************************)
(* Matching the empty string                                               *)
(***************************************************************************)
(* The flag of an element is the one its constructor gives for the parts   *)
(* as they are now.  (An element that uses a Forward before << keeps the   *)
(* flag of that moment, and a Keyword of no characters has a wrong one.)   *)
FlagIsCurrent(G, e) ==
  e.mayReturnEmpty \/
  CASE e.cls = "And"            -> ~AllEmpty(G, e.exprs)
    [] e.cls = "Each"           -> ~AllEmpty(G, e.exprs)
    [] e.cls \in {"Or", "MatchFirst"} -> ~SomeEmpty(G, e.exprs)
    [] e.cls \in Enhanced \cup {"OneOrMore"} -> \A part \in Parts(G, e.exprs) : ~part.mayReturnEmpty
    [] e.cls \in {"Literal", "Keyword", "CaselessLiteral", "CaselessKeyword"} -> e.arg.match # <<>>
    [] OTHER                    -> e.cls \in {"Word", "Char", "CharsNotIn"}

(* An Each does not have the body of one of its Optionals as another part: *)
(* it would parse the Optional for both.                                   *)
BodiesApart(G, e) ==
  e.cls = "Each" => \A part, o \in Range(e.exprs) :
    G[o].cls = "Optional" => part # G[o].exprs[1] /\ (G[part].cls = "OneOrMore" => G[part].exprs # G[o].exprs)

Consistent ==
  {g \in WithoutCloseMatch :
     /\ \A e \in Range(Prepared[g].built) : FlagIsCurrent(Prepared[g].built, e)
     /\ \A e \in Range(Prepared[g].elements) : BodiesApart(Prepared[g].elements, e)}

(* An element that is not said to match the empty string never does; on    *)
(* this the checks for left recursion and every repetition rely.           *)
EmptyOnlyWhenSaid ==
  [][(grammar \in Consistent /\ Returns /\ out'.ok /\ ~Elem(Last(stack)).mayReturnEmpty) =>
       out'.loc > Last(stack).loc]_vars

(***************************************************************************)
(* Actions and errors                                                      *)
(***************************************************************************)
(* A frame whose part is parsed for good, unless something behind it fails.*)
Committed(f) ==
  /\ f.phase \notin {"preParse", "preParse only", "ender", "ignore"}
  /\ Elem(f).cls \notin {"NotAny", "_FB", "FollowedBy"}
  /\ Elem(f).cls = "Or" => f.i > Len(Elem(f).exprs)
  /\ Elem(f).cls = "Each" => f.i = 2
  /\ Elem(f).cls = "SkipTo" => f.phase = "include"

(* The one look-ahead that passes doActions on.                            *)
ActsAhead(f) == Elem(f).cls = "FollowedBy"

(* Ignorables, and what PrecededBy looks back for, are parsed with their   *)
(* actions wherever they stand.                                            *)
Restarts(f) ==
  \/ f.phase \in {"preParse", "preParse only"}
  \/ Elem(f).cls \in Multiple /\ f.phase = "ignore"
  \/ Elem(f).cls = "PrecededBy"

(* An action without callDuringTry runs only for a match that the parse    *)
(* keeps unless something behind it fails: not while alternatives are      *)
(* compared, and not in the look-ahead of a NotAny, of a SkipTo or of an   *)
(* operator table.  There are three exceptions: FollowedBy runs the        *)
(* actions of what it looks ahead at (if its own place lets it),           *)
(* PrecededBy and the ignorables run theirs anywhere.                      *)
ActionsWhenCommitted ==
  [][acts' # acts =>
       \/ E[Last(acts').e].callDuringTry
       \/ /\ Last(acts').act
          /\ \A i \in 1 .. Len(stack) - 1 :
               \/ stack[i].call.act /\ (Committed(stack[i]) \/ ActsAhead(stack[i]))
               \/ \E k \in i .. Len(stack) - 1 : Restarts(stack[k])]_vars

(* A frame that does not hold up a fatal exception of its part: all but    *)
(* those that try it (tryParse turns it into an ordinary one) and the      *)
(* search backwards of PrecededBy.                                         *)
Passes(f) ==
  \/ f.phase \in {"preParse", "preParse only"}
  \/ CASE Elem(f).cls \in {"NotAny", "_FB"} -> FALSE
       [] Elem(f).cls = "Or"         -> f.i > Len(Elem(f).exprs)
       [] Elem(f).cls = "Each"       -> f.i = 2
       [] Elem(f).cls = "SkipTo"     -> f.phase \in {"expr", "include"}
       [] Elem(f).cls = "PrecededBy" -> Elem(f).arg.flag
       [] OTHER                      -> f.phase # "ender"

(* An And at a part behind an error stop.                                  *)
BehindStop(f) ==
  /\ Elem(f).cls = "And" /\ f.phase = "impl"
  /\ \E i \in 2 .. f.i - 1 : E[Elem(f).exprs[i]].cls = "ErrorStop"

(* Behind an error stop the failure of a part ends the parse: no           *)
(* alternative, option or repetition takes over, unless it is tried.       *)
ErrorStopIsFinal ==
  [][/\ Returns /\ BehindStop(Last(stack)) /\ ~out.ok => Fatal(out')
     /\ Fatal(out) /\ (\A f \in Top : Passes(f)) =>
          call' = NoCall /\ (Fatal(out') \/ driver'.phase = "end")]_vars
=============================================================================
