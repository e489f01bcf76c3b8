------------------------------ MODULE PegParse ------------------------------
(***************************************************************************)
(* Parsing with ucode/tools/pyparsing.py: parseString and scanString drive *)
(* _parse, which calls itself through parseImpl and keeps, if told to, a   *)
(* packrat cache.  The Python stack is a sequence of frames (PegImpl); a   *)
(* step goes from one call of _parse to the next.                          *)
(***************************************************************************)
EXTENDS PegElements

CONSTANTS
  Grammars,    (* a sequence of records [elements, root]                   *)
  Parses,      (* records [grammar, entry, packrat, instring]              *)
  CacheSize,   (* cache_size_limit                                         *)
  MaxDepth     (* the recursion limit, in calls of _parse                  *)

ASSUME BoundsAssumption == CacheSize \in Nat /\ MaxDepth \in Nat \ {0}

ASSUME GrammarsAssumption ==
  \A g \in DOMAIN Grammars :
    LET G == Grammars[g].elements
    IN  /\ G \in Seq({G[k] : k \in DOMAIN G}) /\ Grammars[g].root \in DOMAIN G
        /\ \A k \in DOMAIN G : IsElement(G[k], Len(G))

ASSUME ParsesAssumption ==
  Parses \subseteq [grammar : DOMAIN Grammars, entry : {"parse", "parseAll", "scan", "overlap"},
                   packrat : {"none", "unbounded", "fifo"}, instring : Seq(STRING)]

(***************************************************************************)
(* streamline: an And of two parts takes over the parts of an And in it    *)
(* that has no action and no name; likewise Or, MatchFirst and Each.  The  *)
(* parts of an element come before it.                                     *)
(***************************************************************************)
Plain(e) == e.parseAction = <<>> /\ e.resultsName = NONE

(* Mutant of Absorbs: an And with a parse action is taken apart as well.   *)
AbsorbsActing(e, part) ==
  e.cls \in {"And", "Or", "MatchFirst", "Each"} /\ part.cls = e.cls

Absorbs(e, part) ==
  e.cls \in {"And", "Or", "MatchFirst", "Each"} /\ part.cls = e.cls /\ Plain(part)

Absorbed(e, part, exprs) ==
  [e EXCEPT !.exprs = exprs, !.mayReturnEmpty = @ \/ part.mayReturnEmpty,
            !.mayIndexError = @ \/ part.mayIndexError]

Streamlined(G, k) ==
  LET e    == G[k]
      head == G[e.exprs[1]]
      left == IF Absorbs(e, head) THEN Absorbed(e, head, head.exprs \o <<e.exprs[2]>>) ELSE e
      last == G[Last(left.exprs)]
  IN  IF Len(e.exprs) # 2 THEN e
      ELSE IF Absorbs(left, last) THEN Absorbed(left, last, Front(left.exprs) \o last.exprs)
      ELSE left

StreamlinedAt(G, k) == [G EXCEPT ![k] = Streamlined(G, k)]

Streamline(G) ==
  LET upTo[k \in 0 .. Len(G)] == IF k = 0 THEN G ELSE StreamlinedAt(upTo[k - 1], k)
  IN  upTo[Len(G)]

Prepared ==
  LET G == Grammars
  IN  [g \in DOMAIN G |-> [built |-> G[g].elements, elements |-> Streamline(G[g].elements),
                           root |-> G[g].root]]

(***************************************************************************)
(* The state.  parseString and scanString call streamline before anything  *)
(* else, so the elements E of a parse are the streamlined ones.            *)
(***************************************************************************)
VARIABLES
  grammar,     (* the number of the grammar                                *)
  entry,       (* "parse", "parseAll", "scan" or "overlap"                 *)
  packrat,     (* the kind of cache: "none", "unbounded" or "fifo"         *)
  instring,    (* the string parsed                                        *)
  driver,      (* the locals of parseString or scanString                  *)
  stack,       (* the calls of _parse in progress                          *)
  call,        (* the call being made, or NoCall                           *)
  out,         (* the outcome being returned, or NoOutcome                 *)
  cache,       (* the packrat cache, in the order of insertion             *)
  acts         (* the calls whose parse actions ran                        *)

args == <<grammar, entry, packrat, instring>>
machine == <<stack, call, out, cache, acts>>
vars == <<args, driver, machine>>

E == Prepared[grammar].elements
INSTANCE PegImpl

NoCall == Call(0, 0, FALSE, FALSE, 0)

Init ==
  /\ \E p \in Parses : /\ grammar = p.grammar /\ instring = p.instring
                       /\ entry = p.entry /\ packrat = p.packrat
  /\ driver = [phase |-> "start", loc |-> 0, preloc |-> 0, matches |-> <<>>, result |-> NoOutcome]
  /\ stack = <<>> /\ call = NoCall /\ out = NoOutcome /\ cache = <<>> /\ acts = <<>>

(***************************************************************************)
(* The packrat caches                                                      *)
(***************************************************************************)
(* Mutant of Key: the look-ahead flag is left out of the key.              *)
KeyNoActions(c) == [c EXCEPT !.act = TRUE]

(* self, instring (of which end is what differs), loc, callPreParse and    *)
(* doActions                                                               *)
Key(c) == c

Cached(c) == \E i \in DOMAIN cache : cache[i].key = Key(c)
Lookup(c) == LET i == CHOOSE i \in DOMAIN cache : cache[i].key = Key(c) IN cache[i].value

Evicted(entries) ==
  IF packrat = "fifo" /\ Len(entries) > CacheSize
  THEN SubSeq(entries, Len(entries) - CacheSize + 1, Len(entries)) ELSE entries

(* ParseBaseExceptions are kept, other exceptions are not.                 *)
Keeps(value) == value.exc \notin {"IndexError", "RecursionError"}

Stored(entries, c, value) ==
  LET entry_c == [key |-> Key(c), value |-> value]
      same    == {i \in DOMAIN entries : entries[i].key = Key(c)}
  IN  IF packrat = "none" \/ ~Keeps(value) THEN entries
      ELSE IF same # {} THEN [i \in DOMAIN entries |-> IF i \in same THEN entry_c ELSE entries[i]]
      ELSE Evicted(Append(entries, entry_c))

(* "reset" is an action that calls parseString itself, which clears the    *)
(* cache for everyone.                                                     *)
Cleared(f, d) ==
  IF d.ran /\ "reset" \in Range(Elem(f).parseAction) THEN <<>> ELSE cache

(***************************************************************************)
(* _parse                                                                  *)
(***************************************************************************)
Hit ==
  /\ call # NoCall /\ packrat # "none" /\ Cached(call)
  /\ out' = Lookup(call) /\ call' = NoCall
  /\ UNCHANGED <<args, driver, stack, cache, acts>>

Miss ==
  /\ call # NoCall /\ (packrat = "none" \/ ~Cached(call)) /\ Len(stack) < MaxDepth
  /\ stack' = Append(stack, Frame(call)) /\ call' = NoCall /\ out' = NoOutcome
  /\ UNCHANGED <<args, driver, cache, acts>>

TooDeep ==
  /\ call # NoCall /\ (packrat = "none" \/ ~Cached(call)) /\ Len(stack) >= MaxDepth
  /\ out' = Fail("RecursionError", 0) /\ call' = NoCall
  /\ UNCHANGED <<args, driver, stack, cache, acts>>

(* The frame on top of the stack, where no call is being made.             *)
Top == {stack[i] : i \in {Len(stack)} \ {0}}
Goes(d) ==
  /\ stack' = [stack EXCEPT ![Len(stack)] = d.frame]
  /\ call' = d.call /\ out' = NoOutcome /\ UNCHANGED <<cache, acts>>

Step(classes) ==
  /\ call = NoCall /\ UNCHANGED <<args, driver>>
  /\ \E f \in Top :
       /\ f.phase # "preParse only" /\ Elem(f).cls \in classes
       /\ \E d \in {Advance(f, out)} :
            IF d.do = "call" THEN Goes(d)
            ELSE /\ stack' = Front(stack) /\ out' = d.out
                 /\ cache' = Stored(Cleared(f, d), f.call, d.out)
                 /\ acts' = IF d.ran THEN Append(acts, f.call) ELSE acts
                 /\ UNCHANGED call

TokenStep      == Step(Tokens)
AndStep        == Step({"And"})
OrStep         == Step({"Or"})
MatchFirstStep == Step({"MatchFirst"})
EachStep       == Step({"Each"})
EnhanceStep    == Step(Enhanced)
FollowedByStep == Step({"FollowedBy", "_FB"})
PrecededByStep == Step({"PrecededBy"})
NotAnyStep     == Step({"NotAny"})
MultipleStep   == Step(Multiple)
OptionalStep   == Step({"Optional"})
SkipToStep     == Step({"SkipTo"})

(* A call of preParse by the driver: a frame that goes no further.         *)
PreParseStep ==
  /\ call = NoCall /\ UNCHANGED <<args, driver>>
  /\ \E f \in Top :
       /\ f.phase = "preParse only"
       /\ \E d \in {SkipIgnorables(f, out)} :
            IF d.do = "call" THEN Goes(d)
            ELSE /\ stack' = Front(stack) /\ UNCHANGED <<call, cache, acts>>
                 /\ out' = IF d.do = "skipped" THEN Ok(PreParsed(d.frame), <<>>) ELSE d.out

(***************************************************************************)
(* parseString and scanString                                              *)
(***************************************************************************)
Root == Prepared[grammar].root
Idle == stack = <<>> /\ call = NoCall

CallRoot(d, loc, pre) ==
  /\ call' = Call(Root, loc, TRUE, pre, Len(instring))
  /\ driver' = d /\ out' = NoOutcome /\ UNCHANGED <<stack, cache, acts>>

CallPreParse(d, loc) ==
  /\ stack' = <<[Frame(Call(Root, loc, TRUE, TRUE, Len(instring))) EXCEPT !.phase = "preParse only"]>>
  /\ driver' = d /\ out' = NoOutcome /\ UNCHANGED <<call, cache, acts>>

Return(result) ==
  /\ driver' = [driver EXCEPT !.phase = "end", !.result = result]
  /\ out' = NoOutcome /\ UNCHANGED <<stack, call, cache, acts>>

(* streamline (E) and resetCache come first.                               *)
Begins ==
  /\ driver.phase = "start"
  /\ IF entry \in {"parse", "parseAll"} THEN CallRoot([driver EXCEPT !.phase = "parse"], 0, TRUE)
     ELSE CallPreParse([driver EXCEPT !.phase = "scan preparse"], 0)
  /\ UNCHANGED args

(* (Empty() + StringEnd())._parse                                          *)
AtEnd(loc) ==
  LET end == ParseStringEnd(instring, SkipWhite(StringEnd, instring, loc))
  IN  IF end.ok THEN Ok(end.loc, driver.result.toks) ELSE end

ParseString ==
  /\ Idle /\ UNCHANGED args
  /\ \/ driver.phase = "parse"
        /\ IF entry = "parseAll" /\ out.ok
           THEN CallPreParse([driver EXCEPT !.phase = "parseAll", !.result = out], out.loc)
           ELSE Return(out)
     \/ driver.phase = "parseAll" /\ Return(IF out.ok THEN AtEnd(out.loc) ELSE out)

ScanFrom(d) ==
  IF d.loc <= Len(instring) THEN CallPreParse([d EXCEPT !.phase = "scan preparse"], d.loc)
  ELSE Return(Ok(d.loc, <<>>))

Matched ==
  LET d == [driver EXCEPT !.matches =
              Append(@, [start |-> driver.preloc, end |-> out.loc, toks |-> out.toks])]
  IN  IF entry = "overlap"
      THEN CallPreParse([d EXCEPT !.phase = "scan overlap", !.preloc = out.loc], d.loc)
      ELSE ScanFrom([d EXCEPT !.loc = out.loc])

(* In the overlap phase preloc holds nextLoc.                              *)
ScanString ==
  /\ Idle /\ UNCHANGED args
  /\ \/ driver.phase = "scan preparse"
        /\ IF out.ok THEN CallRoot([driver EXCEPT !.phase = "scan", !.preloc = out.loc], out.loc, FALSE)
           ELSE Return(out)
     \/ driver.phase = "scan"
        /\ IF out.ok /\ out.loc > driver.loc THEN Matched
           ELSE IF out.ok \/ out.exc = "ParseException"
                THEN ScanFrom([driver EXCEPT !.loc = driver.preloc + 1])
           ELSE Return(out)
     \/ driver.phase = "scan overlap"
        /\ IF ~out.ok THEN Return(out)
           ELSE ScanFrom([driver EXCEPT !.loc =
                  IF out.loc > driver.loc THEN driver.preloc ELSE driver.loc + 1])

Ended == driver.phase = "end" /\ UNCHANGED vars

Next ==
  \/ Begins \/ ParseString \/ ScanString \/ PreParseStep
  \/ Hit \/ Miss \/ TooDeep
  \/ TokenStep \/ AndStep \/ OrStep \/ MatchFirstStep \/ EachStep \/ EnhanceStep
  \/ FollowedByStep \/ PrecededByStep \/ NotAnyStep \/ MultipleStep
  \/ OptionalStep \/ SkipToStep \/ Ended

(* Weak fairness of Next, with ENABLED <<Next>>_vars spelled out: until a  *)
(* parse is at its end it can go on.                                       *)
Fairness == []<>(driver.phase = "end") \/ []<><<Next>>_vars

Spec == Init /\ [][Next]_vars /\ Fairness
=============================================================================
