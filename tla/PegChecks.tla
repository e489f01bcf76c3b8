----------------------------- MODULE PegChecks ------------------------------
(***************************************************************************)
(* What parsing with pyparsing promises, whatever cache is used.  Eval is  *)
(* the outcome of a call by recursion without a cache: on the elements the *)
(* parser uses, and (Raw) on the grammar as it was built.                  *)
(***************************************************************************)
EXTENDS PegSafety, Expression

CONSTANTS
  Expressions, (* the numbers of grammars that ExpressionGrammar builds    *)
  Symtab       (* the values of the operands                               *)

Plainly == INSTANCE PegEval
Raw     == INSTANCE PegEval WITH E <- Prepared[grammar].built

(* What is kept for a call is what the call gives: the location, the       *)
(* whitespace rule and the look-ahead flag are all in the key, and an      *)
(* action that parses something itself does no harm.                       *)
CacheSound ==
  [][cache' # cache /\ cache' # <<>> =>
       LET new == Last(cache') IN Plainly!Eval(new.key) = new.value]_vars

(* The result is that of the grammar as it was built, parsed without a     *)
(* cache: neither streamline nor packrat can be noticed.  (But for an error *)
(* stop, which a - b puts into an And of its own and which has no effect   *)
(* before streamline has merged it with what is behind it.)                *)
Plain0 == Call(Root, 0, TRUE, TRUE, Len(instring))

(* The elements that a parse may call.                                     *)
Used ==
  FoldLeft(LAMBDA S, k : S \cup UNION {Range(E[e].exprs) : e \in S}, {Root}, E)

SameAsBuilt ==
  /\ driver.phase = "end" /\ entry = "parse" /\ driver.result.exc # "RecursionError"
  /\ \A e \in Used : E[e].cls # "ErrorStop"
  => driver.result = Raw!Eval(Plain0)

(* The tokens spell the text that was matched: nothing is lost, matched    *)
(* twice or taken from a branch that was given up.                         *)
Spells == {"Literal", "Word", "Char", "Keyword", "And", "Or", "MatchFirst",
           "Each", "Optional", "OneOrMore", "ZeroOrMore", "Group", "Combine", "Forward",
           "NotAny", "FollowedBy", "StringEnd", "Empty", "ErrorStop", "LineStart"}
Faithful(e) ==
  e.cls \in Spells /\ e.ignoreExprs = <<>> /\ "replace" \notin Range(e.parseAction) /\ ~e.arg.caseless
    /\ (e.cls = "Optional" => e.arg.default = <<>>)
Visible(s) == SelectSeq(s, LAMBDA c : c \notin DEFAULT_WHITE_CHARS)
Spelled(toks) == Str(SelectSeq(toks, LAMBDA t : t \notin {Open, Close}))

NothingLost ==
  driver.phase = "end" /\ entry = "parse" /\ driver.result.ok /\ (\A e \in Used : Faithful(E[e])) =>
    Spelled(driver.result.toks) = Str(Visible(Cut(instring, 0, driver.result.loc)))

(* The assembler's expressions mean what the usual rules of precedence and *)
(* association to the left give, and nothing else is taken for one.        *)
ExpressionValue ==
  driver.phase = "end" /\ grammar \in Expressions =>
    LET value == Value(Visible(instring), Symtab)
    IN  driver.result.ok = (value # <<>>)
        /\ (driver.result.ok => EvalTree(driver.result.toks, Symtab) = value[1])

(* A parse comes to an end if nothing that can match the empty string is   *)
(* repeated or ignored.                                                    *)
Advances(G, e) ==
  /\ G[e].cls \in Multiple => ~G[G[e].exprs[1]].mayReturnEmpty
  /\ \A i \in DOMAIN G[e].ignoreExprs : ~G[G[e].ignoreExprs[i]].mayReturnEmpty

Advancing ==
  {g \in DOMAIN Prepared : \A e \in DOMAIN Prepared[g].elements : Advances(Prepared[g].elements, e)}

Ends == grammar \in Advancing ~> driver.phase = "end"
=============================================================================
