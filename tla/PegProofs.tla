----------------------------- MODULE PegProofs ------------------------------
(***************************************************************************)
(* Proofs about the parser, for every grammar, input and cache.            *)
(***************************************************************************)
EXTENDS PegSafety, FiniteSetTheorems, NaturalsInduction, SequenceTheorems, WellFoundedInduction,
        TLAPS

(***************************************************************************)
(* Least elements                                                          *)
(***************************************************************************)
LEMMA LeastNat ==
  ASSUME NEW T, T \subseteq Nat, T # {}
  PROVE  \E x \in T : \A y \in T : x <= y
<1> DEFINE less == OpToRel(<, Nat)
<1>1. \A x, y \in Nat : x < y => <<x, y>> \in less
  BY DEF OpToRel
<1>2. IsWellFoundedOn(less, Nat)
  BY NatLessThanWellFounded, Zenon
<1> HIDE DEF less
<1>3. PICK x \in T : \A y \in T : ~(<<y, x>> \in less)
  BY <1>2, WFMin
<1>4. ASSUME NEW y \in T PROVE x <= y
  <2>1. x \in Nat /\ y \in Nat /\ ~(<<y, x>> \in less)
    BY <1>3
  <2>2. ~(y < x)
    BY <1>1, <2>1, Zenon
  <2> QED BY <2>1, <2>2
<1> QED BY <1>4

LEMMA MinOf ==
  ASSUME NEW S, S \subseteq Nat, S # {}
  PROVE  Min(S) \in S /\ \A y \in S : Min(S) <= y
BY LeastNat DEF Min

(***************************************************************************)
(* Induction on the index of a sequence, as a fact about a set, and the    *)
(* functions that are defined by it                                        *)
(***************************************************************************)
LEMMA IndexInduction ==
  ASSUME NEW n \in Nat, NEW T, 0 \in T, \A i \in 1 .. n : i - 1 \in T => i \in T
  PROVE  \A i \in 0 .. n : i \in T
<1> SUFFICES ASSUME NEW j \in 0 .. n, j \notin T PROVE FALSE
  OBVIOUS
<1> DEFINE U == {i \in 0 .. n : i \notin T}
<1>1. U \subseteq Nat /\ U # {}
  OBVIOUS
<1>2. PICK x \in U : \A y \in U : x <= y
  <2> HIDE DEF U
  <2> QED BY <1>1, LeastNat
<1>3. x \in 0 .. n /\ x \notin T /\ x # 0
  BY <1>2
<1>4. x \in 1 .. n /\ x - 1 \in 0 .. n /\ ~(x <= x - 1)
  BY <1>3
<1>5. x - 1 \notin U
  <2> HIDE DEF U
  <2> QED BY <1>2, <1>4
<1> QED BY <1>3, <1>4, <1>5

(* h is the function on 0 .. n that begins at base and goes on by F.       *)
Iterates(h, n, base, F) ==
  h = [i \in 0 .. n |-> IF i = 0 THEN base ELSE F[<<h[i - 1], i>>]]

LEMMA Iteration ==
  ASSUME NEW n \in Nat, NEW S, NEW base \in S, NEW F \in [S \X (1 .. n) -> S]
  PROVE  \E h \in [0 .. n -> S] : Iterates(h, n, base, F)
<1> DEFINE T == {k \in 0 .. n : \E h \in [0 .. k -> S] : Iterates(h, k, base, F)}
<1>1. 0 \in T
  <2> DEFINE h == [i \in 0 .. 0 |-> base]
  <2>1. h \in [0 .. 0 -> S] /\ Iterates(h, 0, base, F)
    BY DEF Iterates
  <2> QED BY <2>1
<1>2. ASSUME NEW k \in 1 .. n, k - 1 \in T PROVE k \in T
  <2>1. PICK h \in [0 .. k - 1 -> S] : Iterates(h, k - 1, base, F)
    BY <1>2
  <2> DEFINE g == [i \in 0 .. k |-> IF i = k THEN F[<<h[k - 1], k>>] ELSE h[i]]
  <2>2. h[k - 1] \in S /\ <<h[k - 1], k>> \in S \X (1 .. n)
    BY <2>1
  <2>3. F[<<h[k - 1], k>>] \in S
    BY <2>2
  <2>4. g \in [0 .. k -> S]
    BY <2>1, <2>3
  <2>5. \A i \in 0 .. k - 1 : g[i] = h[i]
    OBVIOUS
  <2>6. g[k] = F[<<h[k - 1], k>>]
    OBVIOUS
  <2>7. \A i \in 0 .. k - 1 : h[i] = IF i = 0 THEN base ELSE F[<<h[i - 1], i>>]
    BY <2>1, Zenon DEF Iterates
  <2> HIDE DEF g
  <2>8. ASSUME NEW i \in 0 .. k PROVE g[i] = IF i = 0 THEN base ELSE F[<<g[i - 1], i>>]
    <3>1. CASE i = k
      <4>1. i # 0 /\ k - 1 \in 0 .. k - 1
        BY <3>1
      <4>2. g[k - 1] = h[k - 1]
        BY <2>5, <4>1
      <4> QED BY <2>6, <3>1, <4>1, <4>2
    <3>2. CASE i = 0
      <4>1. 0 \in 0 .. k - 1
        OBVIOUS
      <4> QED BY <2>5, <2>7, <3>2, <4>1
    <3>3. CASE i # k /\ i # 0
      <4>1. i \in 0 .. k - 1 /\ i - 1 \in 0 .. k - 1
        BY <3>3
      <4>2. g[i] = h[i] /\ g[i - 1] = h[i - 1]
        BY <2>5, <4>1
      <4>3. h[i] = F[<<h[i - 1], i>>]
        BY <2>7, <3>3, <4>1
      <4> QED BY <3>3, <4>2, <4>3
    <3> QED BY <3>1, <3>2, <3>3
  <2>9. Iterates(g, k, base, F)
    <3> DEFINE f == [i \in 0 .. k |-> IF i = 0 THEN base ELSE F[<<g[i - 1], i>>]]
    <3>1. DOMAIN g = 0 .. k /\ g = [i \in 0 .. k |-> g[i]]
      BY <2>4
    <3>2. \A i \in 0 .. k : g[i] = f[i]
      BY <2>8
    <3>3. f = [i \in 0 .. k |-> f[i]]
      OBVIOUS
    <3> HIDE DEF f
    <3>4. g = f
      BY <3>1, <3>2, <3>3
    <3> QED BY <3>4 DEF f, Iterates
  <2> QED BY <2>4, <2>9
<1> HIDE DEF T
<1>3. \A k \in 0 .. n : k \in T
  BY <1>1, <1>2, IndexInduction, Zenon
<1>4. n \in T
  BY <1>3
<1> QED BY <1>4 DEF T

(***************************************************************************)
(* A grammar, and the elements of it that never match the empty string     *)
(***************************************************************************)
Flagless == IF grammar \in Consistent
            THEN {k \in DOMAIN E : ~Prepared[grammar].built[k].mayReturnEmpty} ELSE {}

(* Why the element e does not match the empty string, if those of S do not.*)
Nonempty(S, e) ==
  /\ e.cls \in {"And", "Each", "Or", "MatchFirst", "OneOrMore", "Literal", "Keyword",
                "CaselessLiteral", "CaselessKeyword", "Word", "Char", "CharsNotIn"} \cup Enhanced
  /\ e.cls \in {"And", "Each"} => \E i \in DOMAIN e.exprs : e.exprs[i] \in S
  /\ e.cls \in {"Or", "MatchFirst"} => e.exprs # <<>>
  /\ e.cls \in {"Or", "MatchFirst", "OneOrMore"} \cup Enhanced =>
       \A i \in DOMAIN e.exprs : e.exprs[i] \in S
  /\ e.cls \in {"Literal", "Keyword", "CaselessLiteral", "CaselessKeyword"} => e.arg.match # <<>>

GrammarOK ==
  /\ Len(E) \in Nat /\ DOMAIN E = 1 .. Len(E) /\ Len(instring) \in Nat
  /\ \E S : instring \in Seq(S)
  /\ \A k \in DOMAIN E : IsElement(E[k], Len(E))
  /\ Flagless # {} => grammar \in WithoutCloseMatch
  /\ \A k \in Flagless : k \in DOMAIN E /\ Nonempty(Flagless, E[k]) /\ BodiesApart(E, E[k])

(***************************************************************************)
(* Calls, outcomes and the answer to a call                                *)
(***************************************************************************)
IsCall(c) ==
  /\ DOMAIN c = {"e", "loc", "act", "pre", "end"}
  /\ c.e \in DOMAIN E /\ c.end \in 0 .. Len(instring) /\ c.loc \in 0 .. c.end + 1

Exceptions == {"none", "ParseException", "IndexError", "ParseSyntaxException",
               "ParseFatalException", "RecursionError"}

IsOutcome(o) ==
  /\ DOMAIN o = {"ok", "exc", "loc", "toks"}
  /\ o.exc \in Exceptions /\ o.ok = (o.exc = "none") /\ o.loc \in 0 .. Len(instring) + 1

(* A match of e from loc on, in a string that ends at end, may end at to.  *)
Matches(e, loc, end, to) ==
  /\ to \in Base(loc) .. end + 1
  /\ e \in Flagless => to > loc

Answers(c, o) == IsOutcome(o) /\ (o.ok => Matches(c.e, c.loc, c.end, o.loc))

(* What parseImpl of the frame f may return.                               *)
Results(f, o) == IsOutcome(o) /\ (o.ok => Matches(f.call.e, f.loc, f.call.end, o.loc))

(***************************************************************************)
(* What a frame is, and one that waits for a call to return                *)
(***************************************************************************)
Phases(cls) ==
  CASE cls \in Multiple -> {"impl", "ender", "ignore", "expr"}
    [] cls = "SkipTo"   -> {"impl", "failOn", "ignore", "expr", "include"}
    [] OTHER            -> {"impl"}

IsFailure(o) == IsOutcome(o) /\ ~o.ok

Fields == {"call", "phase", "loc", "pos", "last", "i", "todo", "toks", "farthest", "found"}

IsFrame(f) ==
  /\ DOMAIN f = Fields /\ IsCall(f.call) /\ f.i \in Nat
  /\ f.phase \in {"preParse", "preParse only"} \cup Phases(Elem(f).cls)
  /\ f.loc \in Base(f.call.loc) .. f.call.end + 1
  /\ f.pos \in Base(f.call.loc) .. f.call.end + 1
  /\ f.last \in Base(f.call.loc) .. f.call.end + 1
  /\ f.farthest = NoOutcome \/ IsFailure(f.farthest)

(* Before parseImpl, and at its beginning.                                 *)
Unbegun(f) ==
  /\ f.loc = f.call.loc /\ f.last = f.call.loc
  /\ f.todo = <<>> /\ f.farthest = NoOutcome

Begun(f) ==
  /\ IsFrame(f) /\ f.phase = "impl" /\ f.pos = f.loc /\ f.last = f.loc
  /\ f.i = 0 /\ f.todo = <<>> /\ f.farthest = NoOutcome

Called(f) ==
  IF f.phase \in {"preParse", "preParse only"} THEN f.i > 0
  ELSE CASE Elem(f).cls \in Multiple -> f.phase # "impl" /\ (f.phase = "ignore" => f.i > 0)
         [] Elem(f).cls \in Tokens   -> FALSE
         [] Elem(f).cls = "SkipTo"   -> f.phase # "impl"
         [] OTHER                    -> f.i > 0

LetsAct(f)      == Committed(f) \/ ActsAhead(f)
ActsFor(f, act) == act => (f.call.act /\ LetsAct(f)) \/ Restarts(f)

(***************************************************************************)
(* The call that a frame waits for, by phase and class                     *)
(***************************************************************************)
AwaitsIgnorable(f, c) ==
  /\ f.i \in DOMAIN Elem(f).ignoreExprs /\ c.e = Elem(f).ignoreExprs[f.i]
  /\ c.loc = f.pos /\ c.end = f.call.end

AwaitsAnd(f, c) ==
  /\ f.i \in DOMAIN Elem(f).exprs /\ c.e = Part(f, f.i) /\ c.end = f.call.end
  /\ c.loc >= Base(f.loc)
  /\ f.call.e \in Flagless /\ (\E j \in 1 .. f.i - 1 : Part(f, j) \in Flagless) => c.loc > f.loc

AwaitsPart(f, c) ==
  /\ \E j \in DOMAIN Elem(f).exprs : c.e = Part(f, j)
  /\ c.loc = f.loc /\ c.end = f.call.end

Alternatives(f) == [loc : 0 .. Len(instring) + 1, i : DOMAIN Elem(f).exprs]

IsRound(f, r) ==
  /\ DOMAIN r = {"reqd", "opt", "i", "failed", "order", "exprs"}
  /\ r.reqd \in Seq(DOMAIN E) /\ r.opt \in Seq(DOMAIN E) /\ r.order \in Seq(DOMAIN E)
  /\ r.exprs \in Seq(DOMAIN E) /\ r.failed \in Nat /\ r.i \in 0 .. Len(r.exprs)
  /\ \A e \in Range(Required(f)) : e \in Range(r.reqd) \/ Whole(f, e) \in Range(r.order)

AwaitsEach(f, c) ==
  /\ f.i \in {1, 2} /\ c.end = f.call.end
  /\ f.i = 1 => /\ IsRound(f, f.todo) /\ f.todo.i > 0
                /\ c.e = f.todo.exprs[f.todo.i] /\ c.loc = f.pos
  /\ f.i = 2 => /\ f.todo \in Seq(DOMAIN E) /\ c.loc >= Base(f.loc)
                /\ f.call.e \in Flagless =>
                     c.loc > f.loc \/ c.e \in Flagless \/ Range(f.todo) \cap Flagless # {}

AwaitsMultiple(f, c) ==
  /\ c.end = f.call.end
  /\ f.last >= Base(f.loc) /\ f.pos >= Base(f.last)
  /\ FirstTime(f) => f.last = f.loc /\ f.pos = f.loc
  /\ ~FirstTime(f) /\ f.call.e \in Flagless => f.last > f.loc
  /\ f.phase = "ignore" => ~FirstTime(f) /\ AwaitsIgnorable(f, c)
  /\ f.phase # "ignore" => f.i = 0
  /\ f.phase = "expr" => c.e = Part(f, 1) /\ c.loc >= Base(f.last)

AwaitsSkipTo(f, c) == c.end = f.call.end /\ f.pos >= Base(f.loc) /\ c.loc = f.pos

Parting == {"MatchFirst", "Or", "Optional", "FollowedBy", "_FB", "NotAny"} \cup Enhanced

Awaits(f, c) ==
  /\ f.phase = "preParse" => Unbegun(f) /\ Preparses(f) /\ AwaitsIgnorable(f, c)
  /\ f.phase = "preParse only" => AwaitsIgnorable(f, c)
  /\ f.phase \notin {"preParse", "preParse only"} =>
       /\ Elem(f).cls = "And" => AwaitsAnd(f, c)
       /\ Elem(f).cls \in Parting => AwaitsPart(f, c)
       /\ Elem(f).cls = "MatchFirst" => f.i <= Len(Elem(f).exprs)
       /\ Elem(f).cls = "Or" => f.todo \in Seq(Alternatives(f))
       /\ Elem(f).cls = "Each" => AwaitsEach(f, c)
       /\ Elem(f).cls \in Multiple => AwaitsMultiple(f, c)
       /\ Elem(f).cls = "SkipTo" => AwaitsSkipTo(f, c)

Expects(f, c) == IsFrame(f) /\ IsCall(c) /\ Called(f) /\ ActsFor(f, c.act) /\ Awaits(f, c)

(* The step d of parseImpl of f goes on with a call or returns.            *)
GoesOn(f, d) ==
  \/ /\ d.do = "call" /\ d.frame.call = f.call /\ Expects(d.frame, d.call)
     /\ d.frame.phase # "preParse only"
  \/ d.do = "return" /\ Results(f, d.out)

(***************************************************************************)
(* Locations                                                               *)
(***************************************************************************)
LEMMA BaseFacts ==
  ASSUME NEW a \in Nat
  PROVE  Base(a) \in Nat /\ Base(a) <= a
BY DEF Base

LEMMA BaseTransitive ==
  ASSUME NEW a \in Nat, NEW b \in Nat, NEW c \in Nat, b >= Base(a), c >= Base(b)
  PROVE  c >= Base(a)
BY DEF Base

LEMMA BaseMonotone ==
  ASSUME NEW a \in Nat, NEW b \in Nat, b >= a
  PROVE  b >= Base(a)
BY DEF Base

LEMMA BaseFlagless ==
  ASSUME GrammarOK, Flagless # {}, NEW a PROVE Base(a) = a
BY Zenon DEF GrammarOK, Base

(***************************************************************************)
(* Elements                                                                *)
(***************************************************************************)
LEMMA ElemFacts ==
  ASSUME GrammarOK, NEW f, IsCall(f.call)
  PROVE  /\ IsElement(Elem(f), Len(E)) /\ f.call.e \in DOMAIN E /\ DOMAIN E = 1 .. Len(E)
         /\ Elem(f).cls \in Classes /\ Len(Elem(f).exprs) \in Arity(Elem(f).cls)
         /\ Len(Elem(f).exprs) \in Nat /\ DOMAIN Elem(f).exprs = 1 .. Len(Elem(f).exprs)
         /\ Elem(f).exprs \in Seq(DOMAIN E) /\ Elem(f).ignoreExprs \in Seq(DOMAIN E)
         /\ Len(Elem(f).ignoreExprs) \in Nat
         /\ DOMAIN Elem(f).ignoreExprs = 1 .. Len(Elem(f).ignoreExprs)
<1>1. f.call.e \in DOMAIN E /\ DOMAIN E = 1 .. Len(E) /\ IsElement(E[f.call.e], Len(E))
  BY DEF GrammarOK, IsCall
<1>2. IsElement(Elem(f), Len(E))
  BY <1>1, Zenon DEF Elem
<1> DEFINE e == Elem(f)
<1>3. /\ e.cls \in Classes /\ e.exprs \in Seq(1 .. Len(E)) /\ e.ignoreExprs \in Seq(1 .. Len(E))
      /\ Len(e.exprs) \in Arity(e.cls)
  BY <1>2, Zenon DEF IsElement
<1> HIDE DEF e
<1>4. /\ Len(e.exprs) \in Nat /\ DOMAIN e.exprs = 1 .. Len(e.exprs)
      /\ Len(e.ignoreExprs) \in Nat /\ DOMAIN e.ignoreExprs = 1 .. Len(e.ignoreExprs)
  BY <1>3
<1>5. e.exprs \in Seq(DOMAIN E) /\ e.ignoreExprs \in Seq(DOMAIN E)
  BY <1>1, <1>3, Zenon
<1> QED BY <1>1, <1>2, <1>3, <1>4, <1>5, Zenon DEF e

LEMMA ArgFacts ==
  ASSUME GrammarOK, NEW f, IsCall(f.call)
  PROVE  LET a == Elem(f).arg
         IN  /\ a.match \in Seq(STRING) /\ a.min \in Nat /\ a.max \in Nat
             /\ a.flag \in BOOLEAN /\ a.id \in 0 .. Len(E) /\ a.id2 \in 0 .. Len(E)
             /\ Elem(f).cls = "Regex" => a.default \in Seq(Seq(STRING))
             /\ Elem(f).cls = "PrecededBy" => a.flag \/ a.id # 0
<1>1. IsElement(Elem(f), Len(E))
  BY ElemFacts
<1> DEFINE a == Elem(f).arg  n == Len(E)
           r == [x \in DOMAIN NoArg \ {"default"} |-> a[x]]
<1>2. r \in Args(n)
  BY <1>1, Zenon DEF IsElement
<1>3. DOMAIN NoArg \ {"default"} =
        {"match", "chars", "body", "min", "max", "flag", "caseless", "id", "id2"}
  BY DEF NoArg
<1>4. /\ r.match = a.match /\ r.min = a.min /\ r.max = a.max /\ r.flag = a.flag
      /\ r.id = a.id /\ r.id2 = a.id2
  BY <1>3
<1> HIDE DEF r
<1>5. /\ r.match \in Seq(STRING) /\ r.min \in Nat /\ r.max \in Nat /\ r.flag \in BOOLEAN
      /\ r.id \in 0 .. n /\ r.id2 \in 0 .. n
  BY <1>2 DEF Args
<1>6. /\ Elem(f).cls = "Regex" => a.default \in Seq(Seq(STRING))
      /\ Elem(f).cls = "PrecededBy" => a.flag \/ a.id # 0
  BY <1>1, Zenon DEF IsElement
<1> QED BY <1>4, <1>5, <1>6, Zenon

(* A class that takes exactly one part.                                    *)
LEMMA OnePart ==
  ASSUME GrammarOK, NEW f, IsCall(f.call),
         Elem(f).cls \in Lookaround \cup Multiple \cup {"Optional", "SkipTo", "Group", "Suppress", "Combine"}
  PROVE  Len(Elem(f).exprs) = 1 /\ 1 \in DOMAIN Elem(f).exprs /\ Part(f, 1) \in DOMAIN E
<1>1. Len(Elem(f).exprs) \in Arity(Elem(f).cls)
  BY ElemFacts
<1>2. Arity(Elem(f).cls) = {1}
  BY DEF Arity, Lookaround, Multiple, Tokens, Listed
<1>3. Len(Elem(f).exprs) = 1 /\ DOMAIN Elem(f).exprs = 1 .. Len(Elem(f).exprs) /\ Elem(f).exprs \in Seq(DOMAIN E)
  BY <1>1, <1>2, ElemFacts
<1> QED BY <1>3 DEF Part

LEMMA PartIsElement ==
  ASSUME GrammarOK, NEW f, IsCall(f.call), NEW i \in DOMAIN Elem(f).exprs
  PROVE  Part(f, i) \in DOMAIN E
<1>1. Elem(f).exprs \in Seq(DOMAIN E)
  BY ElemFacts
<1> QED BY <1>1 DEF Part

LEMMA IgnorableIsElement ==
  ASSUME GrammarOK, NEW f, IsCall(f.call), NEW i \in DOMAIN Elem(f).ignoreExprs
  PROVE  Elem(f).ignoreExprs[i] \in DOMAIN E
<1>1. Elem(f).ignoreExprs \in Seq(DOMAIN E)
  BY ElemFacts
<1> QED BY <1>1

LEMMA FlaglessFacts ==
  ASSUME GrammarOK, NEW f, f.call.e \in Flagless
  PROVE  Nonempty(Flagless, Elem(f)) /\ BodiesApart(E, Elem(f)) /\ \A a : Base(a) = a
<1>1. Flagless # {}
  OBVIOUS
<1> QED BY <1>1, BaseFlagless, Zenon DEF GrammarOK, Elem

(***************************************************************************)
(* What a step of parseImpl may be                                         *)
(***************************************************************************)
LEMMA CallNumbers ==
  ASSUME NEW c, IsCall(c), Len(instring) \in Nat
  PROVE  c.loc \in Nat /\ c.end \in Nat /\ c.end <= Len(instring) /\ c.loc <= c.end + 1
<1>1. c.end \in 0 .. Len(instring) /\ c.loc \in 0 .. c.end + 1
  BY Zenon DEF IsCall
<1> QED BY <1>1

LEMMA FrameNumbers ==
  ASSUME NEW f, IsFrame(f), GrammarOK
  PROVE  /\ f.i \in Nat /\ f.loc \in Nat /\ f.pos \in Nat /\ f.last \in Nat
         /\ f.call.loc \in Nat /\ f.call.end \in Nat /\ f.call.end <= Len(instring) /\ Len(instring) \in Nat
         /\ f.loc <= f.call.end + 1 /\ f.pos <= f.call.end + 1 /\ f.last <= f.call.end + 1
         /\ f.call.loc <= f.call.end + 1
         /\ f.loc >= Base(f.call.loc) /\ f.pos >= Base(f.call.loc) /\ f.last >= Base(f.call.loc)
         /\ Base(f.call.loc) \in Nat
<1>1. Len(instring) \in Nat
  BY DEF GrammarOK
<1>2. f.call.loc \in Nat /\ f.call.end \in Nat /\ f.call.end <= Len(instring) /\ f.call.loc <= f.call.end + 1
  <2>1. IsCall(f.call)
    BY Zenon DEF IsFrame
  <2> QED BY <1>1, <2>1, CallNumbers, Zenon
<1>3. Base(f.call.loc) \in Nat
  BY <1>2, BaseFacts
<1> DEFINE b == Base(f.call.loc)  end == f.call.end
<1>4. f.i \in Nat /\ f.loc \in b .. end + 1 /\ f.pos \in b .. end + 1 /\ f.last \in b .. end + 1
  BY Zenon DEF IsFrame
<1>5. b \in Nat /\ end \in Nat
  BY <1>2, <1>3
<1> HIDE DEF b, end
<1>6. /\ f.loc \in Nat /\ f.loc >= b /\ f.loc <= end + 1
      /\ f.pos \in Nat /\ f.pos >= b /\ f.pos <= end + 1
      /\ f.last \in Nat /\ f.last >= b /\ f.last <= end + 1
  BY <1>4, <1>5
<1> QED BY <1>1, <1>2, <1>3, <1>4, <1>6, Zenon DEF b, end

LEMMA FrameHere ==
  ASSUME NEW f, IsFrame(f), GrammarOK
  PROVE  IsCall(f.call) /\ f.loc \in 0 .. f.call.end + 1 /\ f.loc \in 0 .. Len(instring) + 1
<1>1. IsCall(f.call)
  BY Zenon DEF IsFrame
<1> QED BY <1>1, FrameNumbers

LEMMA FrameInside ==
  ASSUME NEW f, IsFrame(f), GrammarOK
  PROVE  f.pos \in 0 .. Len(instring) + 1 /\ f.last \in 0 .. Len(instring) + 1
BY FrameNumbers

LEMMA GoDone ==
  ASSUME NEW f, NEW o, Results(f, o) PROVE GoesOn(f, Done(o))
<1>1. Done(o).do = "return" /\ Done(o).out = o
  BY DEF Done
<1>2. Results(f, Done(o).out)
  BY <1>1, Zenon
<1> QED BY <1>1, <1>2, Zenon DEF GoesOn

LEMMA GoParse ==
  ASSUME GrammarOK, NEW f, NEW g, NEW e \in DOMAIN E, NEW loc, NEW act, NEW pre,
         g.call = f.call, g.phase # "preParse only", IsFrame(g), Called(g), ActsFor(g, act),
         loc \in 0 .. f.call.end + 1,
         Awaits(g, Call(e, loc, act, pre, f.call.end))
  PROVE  GoesOn(f, Parse(g, e, loc, act, pre))
<1> DEFINE d == Parse(g, e, loc, act, pre)  c == Call(e, loc, act, pre, f.call.end)
<1>1. /\ DOMAIN c = {"e", "loc", "act", "pre", "end"} /\ c.e = e /\ c.loc = loc /\ c.act = act
      /\ c.end = f.call.end
  BY DEF Call
<1>2. d.do = "call" /\ d.frame = g /\ d.call = c
  BY DEF Parse
<1>3. f.call.end \in 0 .. Len(instring)
  BY DEF IsFrame, IsCall
<1> HIDE DEF d, c
<1>4. IsCall(c)
  BY <1>1, <1>3 DEF IsCall
<1>5. ActsFor(g, c.act)
  BY <1>1, Zenon
<1>6. Awaits(g, c)
  BY Zenon DEF c
<1>7. Expects(g, c)
  BY <1>4, <1>5, <1>6, Zenon DEF Expects
<1>8. Expects(d.frame, d.call) /\ d.frame.call = f.call /\ d.frame.phase # "preParse only"
  BY <1>2, <1>7, Zenon
<1> QED BY <1>2, <1>8, Zenon DEF GoesOn, d

LEMMA FailureResults ==
  ASSUME NEW f, NEW o, IsOutcome(o), ~o.ok PROVE Results(f, o)
BY Zenon DEF Results

LEMMA FailIsOutcome ==
  ASSUME NEW exc \in Exceptions \ {"none"}, NEW loc \in 0 .. Len(instring) + 1
  PROVE  IsOutcome(Fail(exc, loc)) /\ ~Fail(exc, loc).ok
BY DEF IsOutcome, Fail

LEMMA ExceptionResults ==
  ASSUME NEW f, NEW loc \in 0 .. Len(instring) + 1
  PROVE  Results(f, ParseException(loc))
<1>1. IsOutcome(ParseException(loc)) /\ ~ParseException(loc).ok
  BY FailIsOutcome DEF ParseException, Exceptions
<1> QED BY <1>1, FailureResults, Zenon

LEMMA OkResults ==
  ASSUME GrammarOK, NEW f, IsCall(f.call), f.loc \in Nat, NEW loc \in Nat, NEW toks, loc >= Base(f.loc),
         loc <= f.call.end + 1, f.call.e \in Flagless => loc > f.loc
  PROVE  Results(f, Ok(loc, toks))
<1> DEFINE o == Ok(loc, toks)
<1>1. DOMAIN o = {"ok", "exc", "loc", "toks"} /\ o.ok = TRUE /\ o.exc = "none" /\ o.loc = loc
  BY DEF Ok
<1>2. Len(instring) \in Nat /\ f.call.end \in 0 .. Len(instring)
  BY DEF GrammarOK, IsCall
<1>3. Base(f.loc) \in Nat
  BY BaseFacts
<1> HIDE DEF o
<1>4. IsOutcome(o)
  <2>1. o.exc \in Exceptions /\ o.loc \in 0 .. Len(instring) + 1
    BY <1>1, <1>2 DEF Exceptions
  <2>2. o.ok = (o.exc = "none")
    BY <1>1
  <2> QED BY <1>1, <2>1, <2>2, Zenon DEF IsOutcome
<1>5. Matches(f.call.e, f.loc, f.call.end, o.loc)
  BY <1>1, <1>2, <1>3 DEF Matches
<1> QED BY <1>4, <1>5 DEF Results, o

(***************************************************************************)
(* And                                                                     *)
(***************************************************************************)
(* A frame at the beginning of parseImpl, or with the answer o.            *)
Resumes(f, o) == Begun(f) \/ (IsOutcome(o) /\ \E c : Expects(f, c) /\ Answers(c, o))

(* Frames of classes with one phase: only the count and what belongs to    *)
(* the class alone changes.                                                *)
SameFrame(f, g) ==
  /\ DOMAIN g = DOMAIN f /\ g.call = f.call /\ g.phase = f.phase /\ g.loc = f.loc
  /\ g.last = f.last

Counted == {"And", "Each", "PrecededBy"} \cup Parting

LEMMA ImplFrame ==
  ASSUME NEW f, NEW g, NEW n \in Nat \ {0}, IsFrame(f), Elem(f).cls \in Counted, f.phase = "impl",
         SameFrame(f, g), g.i = n, g.pos \in Base(f.call.loc) .. f.call.end + 1,
         g.farthest = NoOutcome \/ IsFailure(g.farthest)
  PROVE  IsFrame(g) /\ Called(g) /\ Elem(g) = Elem(f)
<1>1. Elem(g) = Elem(f) /\ g.call = f.call
  BY DEF Elem, SameFrame
<1>2. IsFrame(g)
  <2>1. g.i \in Nat /\ g.phase = f.phase /\ g.loc = f.loc /\ g.last = f.last /\ DOMAIN g = DOMAIN f
    BY DEF SameFrame
  <2> QED BY <1>1, <2>1, Zenon DEF IsFrame
<1>3. Elem(g).cls \notin Tokens \cup Multiple \cup {"SkipTo"} /\ g.i > 0 /\ g.phase = "impl"
  BY <1>1 DEF SameFrame, Counted, Parting, Enhanced, Tokens, Multiple
<1> QED BY <1>1, <1>2, <1>3 DEF Called

LEMMA ImplActs ==
  ASSUME NEW f, NEW g, Elem(f).cls \in {"And", "MatchFirst", "Optional", "FollowedBy"} \cup Enhanced,
         f.phase = "impl", SameFrame(f, g)
  PROVE  ActsFor(g, f.call.act)
<1>1. Elem(g) = Elem(f) /\ g.phase = "impl" /\ g.call = f.call
  BY DEF Elem, SameFrame
<1>2. Elem(g).cls \notin {"NotAny", "_FB", "Or", "Each", "SkipTo"}
  BY <1>1 DEF Enhanced
<1>3. LetsAct(g)
  BY <1>1, <1>2 DEF LetsAct, ActsAhead, Committed
<1> QED BY <1>1, <1>3, Zenon DEF ActsFor

(* What And knows of the answer to the call of its part f.i.               *)
LEMMA AndAnswer ==
  ASSUME GrammarOK, NEW f, NEW c, NEW o, Expects(f, c), Answers(c, o), Elem(f).cls = "And",
         f.phase = "impl", o.ok
  PROVE  /\ f.i \in DOMAIN Elem(f).exprs
         /\ o.loc \in Nat /\ o.loc >= Base(f.loc) /\ o.loc <= f.call.end + 1
         /\ f.call.e \in Flagless /\ (\E j \in 1 .. f.i : Part(f, j) \in Flagless) => o.loc > f.loc
<1>1. IsFrame(f) /\ IsCall(c) /\ AwaitsAnd(f, c)
  BY DEF Expects, Awaits
<1>2. f.i \in DOMAIN Elem(f).exprs /\ c.e = Part(f, f.i) /\ c.end = f.call.end
  BY <1>1, Zenon DEF AwaitsAnd
<1>3. c.loc >= Base(f.loc) /\ c.loc \in Nat /\ f.loc \in Nat /\ f.i \in Nat /\ c.end \in Nat
  BY <1>1, FrameNumbers, CallNumbers DEF AwaitsAnd
<1>4. o.loc \in Base(c.loc) .. c.end + 1 /\ (c.e \in Flagless => o.loc > c.loc)
  BY Zenon DEF Answers, Matches
<1>5. Base(c.loc) \in Nat
  BY <1>3, BaseFacts
<1>6. o.loc \in Nat /\ o.loc >= Base(c.loc) /\ o.loc <= c.end + 1
  BY <1>3, <1>4, <1>5
<1>7. o.loc >= Base(f.loc)
  BY <1>3, <1>6, BaseTransitive
<1>8. ASSUME f.call.e \in Flagless, NEW j \in 1 .. f.i, Part(f, j) \in Flagless
      PROVE  o.loc > f.loc
  <2>1. Base(f.loc) = f.loc /\ Base(c.loc) = c.loc
    BY <1>8, FlaglessFacts, Zenon
  <2>2. CASE j = f.i
    <3>1. o.loc > c.loc
      BY <1>2, <1>4, <1>8, <2>2, Zenon
    <3> QED BY <1>3, <1>6, <2>1, <3>1
  <2>3. CASE j # f.i
    <3>1. j \in 1 .. f.i - 1
      BY <1>3, <2>3
    <3>2. c.loc > f.loc
      BY <1>1, <1>8, <3>1, Zenon DEF AwaitsAnd
    <3> QED BY <1>3, <1>6, <2>1, <3>2
  <2> QED BY <2>2, <2>3
<1> QED BY <1>2, <1>6, <1>7, <1>8, Zenon

LEMMA AndGoes ==
  ASSUME GrammarOK, NEW f, IsFrame(f), Elem(f).cls = "And", f.phase = "impl", NEW o, Resumes(f, o)
  PROVE  GoesOn(f, AndImpl(f, o))
<1> DEFINE len == Len(Elem(f).exprs)
           rest == {i \in f.i + 1 .. len : f.i = 0 \/ ~IsErrorStop(f, i)}
           m == Min(rest)
           h == [f EXCEPT !.toks = @ \o o.toks]
           g == [h EXCEPT !.i = m]
           from == IF f.i = 0 THEN f.loc ELSE o.loc
<1>0. IsCall(f.call) /\ len \in Nat /\ DOMAIN Elem(f).exprs = 1 .. len /\ f.i \in Nat
  BY ElemFacts, Zenon DEF IsFrame
<1>a. /\ f.loc \in Nat /\ f.call.end \in Nat /\ f.loc <= f.call.end + 1 /\ Base(f.loc) \in Nat
      /\ Base(f.loc) <= f.loc
  BY FrameNumbers, BaseFacts
<1>1. CASE f.i > 0 /\ ~o.ok
  <2>1. IsOutcome(o)
    BY <1>1 DEF Resumes, Begun
  <2>2. o.exc # "none"
    BY <1>1, <2>1 DEF IsOutcome
  <2>3. Results(f, o)
    BY <1>1, <2>1, FailureResults
  <2>4. Results(f, SyntaxError(f, o))
    <3>1. f.call.end \in 0 .. Len(instring) + 1 /\ o.loc \in 0 .. Len(instring) + 1
      BY <2>1, <1>0 DEF IsOutcome, IsCall, GrammarOK
    <3>2. \A loc \in 0 .. Len(instring) + 1 : Results(f, Fail("ParseSyntaxException", loc))
      BY FailIsOutcome, FailureResults DEF Exceptions
    <3> QED BY <2>3, <3>1, <3>2, Zenon DEF SyntaxError
  <2> QED BY <1>1, <2>3, <2>4, GoDone, Zenon DEF AndImpl
<1>2. CASE ~(f.i > 0 /\ ~o.ok)
  <2>1. /\ from \in Nat /\ from >= Base(f.loc) /\ from <= f.call.end + 1
        /\ f.call.e \in Flagless /\ (\E j \in 1 .. f.i : Part(f, j) \in Flagless) => from > f.loc
        /\ f.i \in 0 .. len
    <3>1. CASE f.i = 0
      BY <1>0, <1>a, <3>1
    <3>2. CASE f.i # 0
      <4>1. PICK c : Expects(f, c) /\ Answers(c, o)
        BY <3>2 DEF Resumes, Begun
      <4>2. o.ok
        BY <1>0, <1>2, <3>2
      <4>3. /\ f.i \in DOMAIN Elem(f).exprs
            /\ o.loc \in Nat /\ o.loc >= Base(f.loc) /\ o.loc <= f.call.end + 1
            /\ f.call.e \in Flagless /\ (\E j \in 1 .. f.i : Part(f, j) \in Flagless) => o.loc > f.loc
        BY <4>1, <4>2, AndAnswer, Zenon
      <4>4. from = o.loc /\ f.i \in 0 .. len
        BY <1>0, <3>2, <4>3
      <4> QED BY <4>3, <4>4, Zenon
    <3> QED BY <3>1, <3>2
  <2>2. CASE rest = {}
    <3>1. f.i # 0
      <4>1. ~(f.i = 0 /\ len > 0)
        <5>1. SUFFICES ASSUME f.i = 0, len > 0 PROVE FALSE
          OBVIOUS
        <5>2. 1 \in f.i + 1 .. len
          BY <1>0, <5>1
        <5>3. 1 \in rest
          BY <5>1, <5>2, Zenon
        <5> QED BY <2>2, <5>3, Zenon
      <4>2. len \in Arity("And")
        BY <1>0, ElemFacts
      <4>3. Arity("And") = Nat \ {0}
        BY DEF Arity, Tokens, Listed
      <4> QED BY <4>1, <4>2, <4>3, <1>0
    <3>2. ASSUME f.call.e \in Flagless PROVE from > f.loc
      <4>1. Nonempty(Flagless, Elem(f))
        BY <3>2, FlaglessFacts
      <4>2. PICK j \in DOMAIN Elem(f).exprs : Part(f, j) \in Flagless
        BY <4>1 DEF Nonempty, Elem, Part
      <4>3. E[Part(f, j)].cls # "ErrorStop"
        BY <4>2 DEF GrammarOK, Nonempty, Enhanced
      <4>4. j \in 1 .. f.i
        BY <2>2, <1>0, <4>3 DEF IsErrorStop
      <4> QED BY <2>1, <3>2, <4>2, <4>4, Zenon
    <3>3. \A toks : Results(f, Ok(from, toks))
      BY <1>0, <1>a, <2>1, <3>2, OkResults, Zenon
    <3>4. AndImpl(f, o) = Done(Ok(o.loc, h.toks))
      BY <1>2, <2>2, Zenon DEF AndImpl
    <3>5. from = o.loc
      BY <3>1
    <3> QED BY <3>3, <3>4, <3>5, GoDone, Zenon
  <2>3. CASE rest # {}
    <3>1. rest \subseteq Nat
      BY <1>0
    <3>2. m \in rest /\ \A y \in rest : m <= y
      BY <2>3, <3>1, MinOf
    <3>3. m \in Nat \ {0} /\ m \in DOMAIN Elem(f).exprs /\ f.i + 1 <= m
      BY <1>0, <3>2
    <3>4. SameFrame(f, g) /\ g.i = m /\ g.pos = f.pos /\ g.farthest = f.farthest
      BY DEF IsFrame, Fields, SameFrame
    <3> HIDE DEF g
    <3>a. g.pos \in Base(f.call.loc) .. f.call.end + 1 /\ (g.farthest = NoOutcome \/ IsFailure(g.farthest))
      BY <3>4, Zenon DEF IsFrame
    <3>5. IsFrame(g) /\ Called(g) /\ Elem(g) = Elem(f) /\ ActsFor(g, f.call.act)
      BY <3>3, <3>4, <3>a, ImplFrame, ImplActs DEF Counted
    <3>6. Part(f, m) \in DOMAIN E
      BY <1>0, <3>3, PartIsElement
    <3>7. from \in 0 .. f.call.end + 1
      BY <1>a, <2>1
    <3>8. ASSUME f.call.e \in Flagless, NEW j \in 1 .. m - 1, Part(f, j) \in Flagless PROVE from > f.loc
      <4>1. E[Part(f, j)].cls # "ErrorStop"
        BY <3>8 DEF GrammarOK, Nonempty, Enhanced
      <4>2. j \in 1 .. len /\ j \notin rest
        BY <1>0, <3>2, <3>3
      <4>3. j \in 1 .. f.i
        BY <1>0, <4>1, <4>2 DEF IsErrorStop
      <4> QED BY <2>1, <3>8, <4>3, Zenon
    <3>9. ASSUME NEW act, NEW pre PROVE Awaits(g, Call(Part(f, m), from, act, pre, f.call.end))
      <4> DEFINE c == Call(Part(f, m), from, act, pre, f.call.end)
      <4>1. c.e = Part(f, m) /\ c.loc = from /\ c.end = f.call.end
        BY DEF Call
      <4>2. g.call = f.call /\ g.loc = f.loc /\ g.phase = "impl" /\ \A j : Part(g, j) = Part(f, j)
        BY <3>4, <3>5, Zenon DEF SameFrame, Part
      <4> HIDE DEF c, from
      <4>3. c.loc >= Base(g.loc)
        BY <2>1, <4>1, <4>2
      <4>4. g.call.e \in Flagless /\ (\E j \in 1 .. g.i - 1 : Part(g, j) \in Flagless) => c.loc > g.loc
        BY <3>4, <3>8, <4>1, <4>2, Zenon
      <4>5. AwaitsAnd(g, c)
        BY <3>3, <3>4, <3>5, <4>1, <4>2, <4>3, <4>4, Zenon DEF AwaitsAnd
      <4>6. Awaits(g, c)
        BY <3>5, <4>2, <4>5 DEF Awaits, Parting, Enhanced, Multiple
      <4> QED BY <4>6 DEF c
    <3>10. \A pre : GoesOn(f, Parse(g, Part(f, m), from, f.call.act, pre))
      BY <3>4, <3>5, <3>6, <3>7, <3>9, GoParse, Zenon DEF SameFrame
    <3>11. AndImpl(f, o) = Parse(g, Part(f, m), from, f.call.act, f.i > 0)
      BY <1>2, <2>3, Zenon DEF AndImpl, g
    <3> QED BY <3>10, <3>11, Zenon
  <2> QED BY <2>2, <2>3
<1> QED BY <1>1, <1>2

(***************************************************************************)
(* The classes that parse a part where they began                          *)
(***************************************************************************)
LEMMA NotFlagless ==
  ASSUME GrammarOK, NEW f,
         Elem(f).cls \in Lookaround \cup {"Optional", "ZeroOrMore", "SkipTo"}
  PROVE  f.call.e \notin Flagless
<1>1. SUFFICES ASSUME f.call.e \in Flagless PROVE FALSE
  OBVIOUS
<1>2. Nonempty(Flagless, Elem(f))
  BY <1>1, FlaglessFacts
<1> QED BY <1>2 DEF Nonempty, Elem, Lookaround, Enhanced

LEMMA PartResults ==
  ASSUME GrammarOK, NEW f, NEW c, NEW o, Expects(f, c), Answers(c, o), Elem(f).cls \in Parting,
         f.phase = "impl"
  PROVE  Results(f, o)
<1>1. IsFrame(f) /\ AwaitsPart(f, c)
  BY DEF Expects, Awaits
<1>2. PICK j \in DOMAIN Elem(f).exprs : c.e = Part(f, j)
  BY <1>1 DEF AwaitsPart
<1>3. IsOutcome(o) /\ c.loc = f.loc /\ c.end = f.call.end
  BY <1>1 DEF AwaitsPart, Answers
<1>4. o.ok => o.loc \in Base(f.loc) .. f.call.end + 1 /\ (c.e \in Flagless => o.loc > f.loc)
  BY <1>3, Zenon DEF Answers, Matches
<1>5. ASSUME f.call.e \in Flagless PROVE c.e \in Flagless
  <2>1. Nonempty(Flagless, Elem(f))
    BY <1>5, FlaglessFacts
  <2>2. Elem(f).cls \in {"Or", "MatchFirst", "OneOrMore"} \cup Enhanced
    BY <2>1 DEF Nonempty, Elem, Parting, Enhanced
  <2> QED BY <1>2, <2>1, <2>2 DEF Nonempty, Elem, Part
<1> QED BY <1>3, <1>4, <1>5, Zenon DEF Results, Matches

LEMMA PartGoes ==
  ASSUME GrammarOK, NEW f, NEW g, IsFrame(f), Elem(f).cls \in Parting, f.phase = "impl",
         SameFrame(f, g), NEW n \in Nat \ {0}, g.i = n, g.pos = f.pos,
         g.farthest = NoOutcome \/ IsFailure(g.farthest),
         Elem(f).cls = "MatchFirst" => n <= Len(Elem(f).exprs),
         Elem(f).cls = "Or" => g.todo \in Seq(Alternatives(f)),
         NEW j \in DOMAIN Elem(f).exprs, NEW act, NEW pre, ActsFor(g, act)
  PROVE  GoesOn(f, Parse(g, Part(f, j), f.loc, act, pre))
<1> DEFINE c == Call(Part(f, j), f.loc, act, pre, f.call.end)
<1>0. g.pos \in Base(f.call.loc) .. f.call.end + 1
  BY Zenon DEF IsFrame
<1>1. IsFrame(g) /\ Called(g) /\ Elem(g) = Elem(f)
  BY <1>0, ImplFrame DEF Counted
<1>2. IsCall(f.call) /\ f.loc \in 0 .. f.call.end + 1
  BY FrameHere
<1>3. Part(f, j) \in DOMAIN E
  BY <1>2, PartIsElement
<1>4. c.e = Part(f, j) /\ c.loc = f.loc /\ c.end = f.call.end
  BY DEF Call
<1>5. g.loc = f.loc /\ g.call = f.call /\ g.phase = "impl"
  BY DEF SameFrame
<1> HIDE DEF c
<1>6. AwaitsPart(g, c)
  BY <1>1, <1>4, <1>5, Zenon DEF AwaitsPart, Part
<1>7. Alternatives(g) = Alternatives(f)
  BY <1>1, Zenon DEF Alternatives
<1>8. Awaits(g, c)
  BY <1>1, <1>5, <1>6, <1>7 DEF Awaits, Parting, Enhanced, Multiple
<1> QED BY <1>1, <1>2, <1>3, <1>5, <1>8, GoParse DEF c

LEMMA PartTries ==
  ASSUME GrammarOK, NEW f, NEW g, IsFrame(f), Elem(f).cls \in Parting, f.phase = "impl",
         SameFrame(f, g), NEW n \in Nat \ {0}, g.i = n, g.pos = f.pos,
         g.farthest = NoOutcome \/ IsFailure(g.farthest),
         Elem(f).cls = "MatchFirst" => n <= Len(Elem(f).exprs),
         Elem(f).cls = "Or" => g.todo \in Seq(Alternatives(f)),
         NEW j \in DOMAIN Elem(f).exprs
  PROVE  GoesOn(f, Try(g, Part(f, j), f.loc))
<1>1. ActsFor(g, FALSE)
  BY Zenon DEF ActsFor
<1> QED BY <1>1, PartGoes DEF Try

(* The first call of a frame that does no more than count.                 *)
LEMMA FirstOfOne ==
  ASSUME NEW f, IsFrame(f)
  PROVE  LET g == [f EXCEPT !.i = 1]
         IN  /\ SameFrame(f, g) /\ g.i = 1 /\ g.pos = f.pos /\ g.todo = f.todo
             /\ g.farthest = f.farthest /\ (g.farthest = NoOutcome \/ IsFailure(g.farthest))
BY DEF IsFrame, Fields, SameFrame

LEMMA FirstPart ==
  ASSUME GrammarOK, NEW f, IsFrame(f), Elem(f).cls \in Parting \ {"MatchFirst", "Or"}, f.phase = "impl",
         1 \in DOMAIN Elem(f).exprs, NEW act, NEW pre, ActsFor([f EXCEPT !.i = 1], act)
  PROVE  GoesOn(f, Parse([f EXCEPT !.i = 1], Part(f, 1), f.loc, act, pre))
<1> DEFINE g == [f EXCEPT !.i = 1]
<1>1. SameFrame(f, g) /\ g.i = 1 /\ g.pos = f.pos /\ (g.farthest = NoOutcome \/ IsFailure(g.farthest))
  BY FirstOfOne
<1>2. ActsFor(g, act)
  OBVIOUS
<1>3. Elem(f).cls \in Parting /\ Elem(f).cls # "MatchFirst" /\ Elem(f).cls # "Or" /\ 1 \in Nat \ {0}
  OBVIOUS
<1> HIDE DEF g
<1>4. GoesOn(f, Parse(g, Part(f, 1), f.loc, act, pre))
  BY <1>1, <1>2, <1>3, PartGoes, Zenon
<1> QED BY <1>4 DEF g

LEMMA FirstTry ==
  ASSUME GrammarOK, NEW f, IsFrame(f), Elem(f).cls \in Parting \ {"MatchFirst", "Or"}, f.phase = "impl",
         1 \in DOMAIN Elem(f).exprs
  PROVE  GoesOn(f, Try([f EXCEPT !.i = 1], Part(f, 1), f.loc))
<1>1. ActsFor([f EXCEPT !.i = 1], FALSE)
  BY Zenon DEF ActsFor
<1> QED BY <1>1, FirstPart, Zenon DEF Try

LEMMA AwaitedCalled ==
  ASSUME GrammarOK, NEW f, NEW o, IsFrame(f), Elem(f).cls \in Counted, f.phase = "impl", Resumes(f, o)
  PROVE  /\ f.i = 0 => Begun(f)
         /\ f.i # 0 => IsOutcome(o) /\ \E c : Expects(f, c) /\ Answers(c, o)
<1>1. ASSUME NEW c, Expects(f, c) PROVE f.i # 0
  <2>1. Called(f)
    BY <1>1 DEF Expects
  <2> QED BY <2>1 DEF Called, Counted, Parting, Enhanced, Multiple, Tokens
<1>2. Begun(f) => f.i = 0
  BY DEF Begun
<1> QED BY <1>1, <1>2, Zenon DEF Resumes

LEMMA EnhanceGoes ==
  ASSUME GrammarOK, NEW f, IsFrame(f), Elem(f).cls \in Enhanced, f.phase = "impl", NEW o, Resumes(f, o)
  PROVE  GoesOn(f, EnhanceImpl(f, o))
<1> DEFINE g == [f EXCEPT !.i = 1]
<1>0. Elem(f).cls \in Parting /\ Elem(f).cls \in Counted /\ f.i \in Nat /\ IsCall(f.call)
      /\ Elem(f).cls \notin {"MatchFirst", "Or"}
  BY DEF Parting, Counted, IsFrame, Enhanced
<1>1. CASE f.i > 0
  <2>1. PICK c : Expects(f, c) /\ Answers(c, o)
    BY <1>0, <1>1, AwaitedCalled
  <2>2. Results(f, o)
    BY <1>0, <2>1, PartResults
  <2> QED BY <1>1, <2>2, GoDone, Zenon DEF EnhanceImpl
<1>2. CASE ~(f.i > 0) /\ Elem(f).exprs = <<>>
  <2>1. Results(f, ParseException(f.loc))
    BY FrameNumbers, ExceptionResults
  <2> QED BY <1>2, <2>1, GoDone, Zenon DEF EnhanceImpl
<1>3. CASE ~(f.i > 0) /\ Elem(f).exprs # <<>>
  <2>1. 1 \in DOMAIN Elem(f).exprs
    BY <1>0, <1>3, ElemFacts
  <2>2. ActsFor(g, f.call.act)
    BY FirstOfOne, ImplActs
  <2>3. \A pre : GoesOn(f, Parse(g, Part(f, 1), f.loc, f.call.act, pre))
    BY <1>0, <2>1, <2>2, FirstPart
  <2> QED BY <1>3, <2>3, Zenon DEF EnhanceImpl
<1> QED BY <1>1, <1>2, <1>3

LEMMA TriedOutcome ==
  ASSUME NEW o, IsOutcome(o), NEW loc \in 0 .. Len(instring) + 1
  PROVE  /\ IsOutcome(Tried(o, loc)) /\ Tried(o, loc).ok = o.ok
         /\ o.ok => Tried(o, loc) = o
<1>1. IsOutcome(ParseException(loc)) /\ ~ParseException(loc).ok
  BY FailIsOutcome DEF ParseException, Exceptions
<1>2. Fatal(o) => o.exc # "none"
  BY DEF Fatal
<1>3. Fatal(o) => ~o.ok
  BY <1>2 DEF IsOutcome
<1>4. ParseException(loc).ok = FALSE
  BY DEF ParseException, Fail
<1>5. Fatal(o) => o.ok = FALSE
  BY <1>2 DEF IsOutcome
<1>6. CASE Fatal(o) /\ o.exc # "RecursionError"
  <2>1. Tried(o, loc) = ParseException(loc)
    BY <1>6, Zenon DEF Tried
  <2> QED BY <1>1, <1>3, <1>4, <1>5, <1>6, <2>1, Zenon
<1>7. CASE ~(Fatal(o) /\ o.exc # "RecursionError")
  <2>1. Tried(o, loc) = o
    BY <1>7, Zenon DEF Tried
  <2> QED BY <2>1, Zenon
<1> QED BY <1>6, <1>7, Zenon

(* Those whose match is the place where they began.                        *)
LEMMA HereResults ==
  ASSUME GrammarOK, NEW f, IsFrame(f), f.call.e \notin Flagless, NEW toks
  PROVE  Results(f, Ok(f.loc, toks))
<1>1. IsCall(f.call) /\ f.loc \in Nat /\ f.loc >= Base(f.loc) /\ f.loc <= f.call.end + 1
  BY FrameNumbers, BaseFacts DEF IsFrame
<1> QED BY <1>1, OkResults

LEMMA FollowedByGoes ==
  ASSUME GrammarOK, NEW f, IsFrame(f), Elem(f).cls \in {"FollowedBy", "_FB"}, f.phase = "impl",
         NEW o, Resumes(f, o)
  PROVE  GoesOn(f, FollowedByImpl(f, o))
<1> DEFINE g == [f EXCEPT !.i = 1]
<1>0. /\ Elem(f).cls \in Parting /\ Elem(f).cls \in Counted /\ IsCall(f.call)
      /\ Elem(f).cls \notin {"MatchFirst", "Or"} /\ f.call.e \notin Flagless
      /\ 1 \in DOMAIN Elem(f).exprs /\ f.loc \in 0 .. Len(instring) + 1
  <2>1. IsCall(f.call) /\ f.loc \in 0 .. Len(instring) + 1
    BY FrameHere
  <2>2. Elem(f).cls \in Lookaround /\ Elem(f).cls \in Parting /\ Elem(f).cls \in Counted
    BY DEF Parting, Counted, Lookaround
  <2>3. f.call.e \notin Flagless /\ 1 \in DOMAIN Elem(f).exprs
    BY <2>1, <2>2, NotFlagless, OnePart
  <2> QED BY <2>1, <2>2, <2>3
<1>1. CASE f.i = 0
  <2>1. ActsFor(g, f.call.act /\ ~(Elem(f).cls = "_FB"))
    <3>1. CASE Elem(f).cls = "_FB"
      BY <3>1, Zenon DEF ActsFor
    <3>2. CASE Elem(f).cls = "FollowedBy"
      <4>1. ActsFor(g, f.call.act)
        BY <3>2, FirstOfOne, ImplActs
      <4> QED BY <4>1, Zenon DEF ActsFor
    <3> QED BY <3>1, <3>2
  <2>2. \A pre : GoesOn(f, Parse(g, Part(f, 1), f.loc, f.call.act /\ ~(Elem(f).cls = "_FB"), pre))
    BY <1>0, <2>1, FirstPart
  <2> QED BY <1>1, <2>2, Zenon DEF FollowedByImpl
<1>2. CASE f.i # 0
  <2>1. PICK c : IsOutcome(o) /\ Expects(f, c) /\ Answers(c, o)
    BY <1>0, <1>2, AwaitedCalled
  <2>2. Results(f, o)
    BY <1>0, <2>1, PartResults
  <2>3. Results(f, Ok(f.loc, <<>>))
    BY <1>0, HereResults
  <2>4. ~o.ok => Results(f, Tried(o, f.loc))
    BY <1>0, <2>1, TriedOutcome, FailureResults
  <2> QED BY <1>2, <2>2, <2>3, <2>4, GoDone, Zenon DEF FollowedByImpl
<1> QED BY <1>1, <1>2

LEMMA NotAnyGoes ==
  ASSUME GrammarOK, NEW f, IsFrame(f), Elem(f).cls = "NotAny", f.phase = "impl", NEW o, Resumes(f, o)
  PROVE  GoesOn(f, NotAnyImpl(f, o))
<1> DEFINE g == [f EXCEPT !.i = 1]
<1>0. /\ Elem(f).cls \in Parting /\ Elem(f).cls \in Counted /\ IsCall(f.call)
      /\ f.call.e \notin Flagless
      /\ 1 \in DOMAIN Elem(f).exprs /\ f.loc \in 0 .. Len(instring) + 1
  <2>1. IsCall(f.call) /\ f.loc \in 0 .. Len(instring) + 1
    BY FrameHere
  <2>2. Elem(f).cls \in Lookaround /\ Elem(f).cls \in Parting /\ Elem(f).cls \in Counted
    BY DEF Parting, Counted, Lookaround
  <2>3. f.call.e \notin Flagless /\ 1 \in DOMAIN Elem(f).exprs
    BY <2>1, <2>2, NotFlagless, OnePart
  <2> QED BY <2>1, <2>2, <2>3
<1>1. CASE f.i = 0
  <2>1. GoesOn(f, Try(g, Part(f, 1), f.loc))
    BY <1>0, FirstTry
  <2> QED BY <1>1, <2>1, Zenon DEF NotAnyImpl
<1>2. CASE f.i # 0
  <2>1. PICK c : IsOutcome(o) /\ Expects(f, c) /\ Answers(c, o)
    BY <1>0, <1>2, AwaitedCalled
  <2>2. Results(f, Ok(f.loc, <<>>)) /\ Results(f, ParseException(f.loc))
    BY <1>0, HereResults, ExceptionResults
  <2>3. ~Tried(o, f.loc).ok => Results(f, Tried(o, f.loc))
    BY <1>0, <2>1, TriedOutcome, FailureResults
  <2> QED BY <1>2, <2>2, <2>3, GoDone, Zenon DEF NotAnyImpl
<1> QED BY <1>1, <1>2

LEMMA OptionalGoes ==
  ASSUME GrammarOK, NEW f, IsFrame(f), Elem(f).cls = "Optional", f.phase = "impl", NEW o, Resumes(f, o)
  PROVE  GoesOn(f, OptionalImpl(f, o))
<1> DEFINE g == [f EXCEPT !.i = 1]
<1>0. /\ Elem(f).cls \in Parting /\ Elem(f).cls \in Counted /\ IsCall(f.call)
      /\ f.call.e \notin Flagless /\ 1 \in DOMAIN Elem(f).exprs
  BY NotFlagless, OnePart DEF Parting, Counted, IsFrame
<1>1. CASE f.i = 0
  <2>1. ActsFor(g, f.call.act)
    BY FirstOfOne, ImplActs
  <2>2. \A pre : GoesOn(f, Parse(g, Part(f, 1), f.loc, f.call.act, pre))
    BY <1>0, <2>1, FirstPart
  <2> QED BY <1>1, <2>2, Zenon DEF OptionalImpl
<1>2. CASE f.i # 0
  <2>1. PICK c : IsOutcome(o) /\ Expects(f, c) /\ Answers(c, o)
    BY <1>0, <1>2, AwaitedCalled
  <2>2. Results(f, o) /\ \A toks : Results(f, Ok(f.loc, toks))
    BY <1>0, <2>1, PartResults, HereResults
  <2> QED BY <1>2, <2>2, GoDone, Zenon DEF OptionalImpl
<1> QED BY <1>1, <1>2

(***************************************************************************)
(* MatchFirst and Or                                                       *)
(***************************************************************************)
LEMMA FarthestIsFailure ==
  ASSUME NEW f, IsFrame(f), GrammarOK, NEW o, IsOutcome(o)
  PROVE  Farthest(f, o) = NoOutcome \/ IsFailure(Farthest(f, o))
<1>1. f.call.end \in 0 .. Len(instring) + 1 /\ o.loc \in 0 .. Len(instring) + 1
  BY FrameNumbers DEF IsOutcome
<1>2. \A loc \in 0 .. Len(instring) + 1 : IsFailure(ParseException(loc))
  BY FailIsOutcome DEF ParseException, Exceptions, IsFailure
<1>3. f.farthest = NoOutcome \/ IsFailure(f.farthest)
  BY Zenon DEF IsFrame
<1> QED BY <1>1, <1>2, <1>3, Zenon DEF Farthest

LEMMA NoAlternativeGoes ==
  ASSUME NEW f, IsFrame(f), GrammarOK, NEW o, o = NoOutcome \/ IsFailure(o)
  PROVE  GoesOn(f, NoAlternative(f, o))
<1>1. Results(f, ParseException(f.loc))
  BY FrameHere, ExceptionResults
<1>2. IsFailure(o) => Results(f, o)
  BY FailureResults DEF IsFailure
<1> QED BY <1>1, <1>2, GoDone, Zenon DEF NoAlternative

LEMMA MatchFirstGoes ==
  ASSUME GrammarOK, NEW f, IsFrame(f), Elem(f).cls = "MatchFirst", f.phase = "impl", NEW o, Resumes(f, o)
  PROVE  GoesOn(f, MatchFirstImpl(f, o))
<1> DEFINE len == Len(Elem(f).exprs)
           h == IF f.i = 0 THEN f ELSE [f EXCEPT !.farthest = Farthest(f, o)]
           g == [h EXCEPT !.i = @ + 1]
<1>0. /\ Elem(f).cls \in Parting /\ Elem(f).cls \in Counted /\ IsCall(f.call) /\ len \in Nat
      /\ DOMAIN Elem(f).exprs = 1 .. len /\ f.i \in Nat
  <2>1. IsCall(f.call)
    BY FrameHere
  <2> QED BY <2>1, ElemFacts, FrameNumbers DEF Parting, Counted
<1>1. /\ f.i # 0 => IsOutcome(o) /\ Results(f, o) /\ f.i <= len
      /\ f.i = 0 => f.farthest = NoOutcome
  <2>1. CASE f.i # 0
    <3>1. PICK c : IsOutcome(o) /\ Expects(f, c) /\ Answers(c, o)
      BY <1>0, <2>1, AwaitedCalled
    <3>2. Results(f, o)
      BY <1>0, <3>1, PartResults
    <3>3. f.i <= len
      BY <3>1 DEF Expects, Awaits
    <3> QED BY <2>1, <3>1, <3>2, <3>3
  <2>2. CASE f.i = 0
    <3>1. Begun(f)
      BY <1>0, <2>2, AwaitedCalled
    <3> QED BY <2>2, <3>1 DEF Begun
  <2> QED BY <2>1, <2>2
<1>2. CASE f.i > 0 /\ (o.ok \/ ~Missed(o))
  <2>1. Results(f, o)
    BY <1>1, <1>2
  <2> QED BY <1>2, <2>1, GoDone, Zenon DEF MatchFirstImpl
<1>3. CASE ~(f.i > 0 /\ (o.ok \/ ~Missed(o)))
  <2>1. /\ h.farthest = NoOutcome \/ IsFailure(h.farthest)
        /\ SameFrame(f, h) /\ h.pos = f.pos /\ h.i = f.i /\ DOMAIN h = DOMAIN f
    <3>1. CASE f.i = 0
      BY <3>1, <1>1, Zenon DEF SameFrame
    <3>2. CASE f.i # 0
      <4>1. Farthest(f, o) = NoOutcome \/ IsFailure(Farthest(f, o))
        BY <1>1, <3>2, FarthestIsFailure
      <4>2. /\ h.farthest = Farthest(f, o) /\ SameFrame(f, h) /\ h.pos = f.pos /\ h.i = f.i
            /\ DOMAIN h = DOMAIN f
        BY <3>2 DEF IsFrame, Fields, SameFrame
      <4> QED BY <4>1, <4>2, Zenon
    <3> QED BY <3>1, <3>2, Zenon
  <2>2. CASE f.i = len
    <3>1. GoesOn(f, NoAlternative(f, h.farthest))
      BY <2>1, NoAlternativeGoes
    <3> QED BY <1>3, <2>2, <3>1, Zenon DEF MatchFirstImpl
  <2>3. CASE f.i # len
    <3>1. f.i + 1 \in DOMAIN Elem(f).exprs /\ f.i + 1 \in Nat \ {0} /\ f.i + 1 <= len
      BY <1>0, <1>1, <2>3
    <3>2. DOMAIN h = Fields
      BY <2>1, Zenon DEF IsFrame
    <3> HIDE DEF h
    <3>3. /\ SameFrame(f, g) /\ g.i = f.i + 1 /\ g.pos = f.pos /\ g.farthest = h.farthest
      BY <2>1, <3>2 DEF SameFrame, Fields
    <3> HIDE DEF g
    <3>4. ActsFor(g, f.call.act)
      BY <3>3, ImplActs
    <3>5. g.farthest = NoOutcome \/ IsFailure(g.farthest)
      BY <2>1, <3>3, Zenon
    <3>6. \A pre : GoesOn(f, Parse(g, Part(f, f.i + 1), f.loc, f.call.act, pre))
      BY <1>0, <3>1, <3>3, <3>4, <3>5, PartGoes
    <3> QED BY <1>3, <2>3, <3>6, Zenon DEF MatchFirstImpl, g, h
  <2> QED BY <2>2, <2>3
<1> QED BY <1>2, <1>3

LEMMA SeqRange ==
  ASSUME NEW S, NEW s \in Seq(S)
  PROVE  /\ Range(s) \subseteq S /\ DOMAIN s = 1 .. Len(s) /\ Len(s) \in Nat
         /\ s # <<>> => 1 \in DOMAIN s /\ Range(s) # {}
BY DEF Range

LEMMA RemovedFacts ==
  ASSUME NEW S, NEW s \in Seq(S), NEW e
  PROVE  Removed(s, e) \in Seq(S) /\ \A x \in Range(s) : x # e => x \in Range(Removed(s, e))
<1> DEFINE at == {k \in DOMAIN s : s[k] = e}  m == Min(at)
<1>1. CASE at = {}
  BY <1>1, Zenon DEF Removed
<1>2. CASE at # {}
  <2>1. at \subseteq Nat
    OBVIOUS
  <2>2. m \in at
    BY <1>2, <2>1, MinOf
  <2>3. m \in 1 .. Len(s) /\ s[m] = e /\ Len(s) \in Nat
    BY <2>2
  <2>4. Removed(s, e) = SubSeq(s, 1, m - 1) \o SubSeq(s, m + 1, Len(s))
    BY <1>2, Zenon DEF Removed, RemoveAt
  <2> DEFINE p == SubSeq(s, 1, m - 1)  q == SubSeq(s, m + 1, Len(s))  r == p \o q
  <2> HIDE DEF m
  <2>5. /\ p \in Seq(S) /\ Len(p) = m - 1 /\ \A k \in 1 .. m - 1 : p[k] = s[k]
        /\ q \in Seq(S) /\ Len(q) = Len(s) - m /\ \A k \in 1 .. Len(s) - m : q[k] = s[m + k]
    BY <2>3
  <2> HIDE DEF p, q
  <2>d. \A k \in 1 .. Len(p) + Len(q) : r[k] = IF k <= Len(p) THEN p[k] ELSE q[k - Len(p)]
    BY <2>5, ConcatProperties, Zenon
  <2>a. r \in Seq(S) /\ Len(r) = Len(s) - 1
    <3>1. r \in Seq(S) /\ Len(r) = Len(p) + Len(q)
      BY <2>5, ConcatProperties, Zenon
    <3> HIDE DEF r
    <3> QED BY <2>3, <2>5, <3>1
  <2>b. \A k \in 1 .. m - 1 : r[k] = p[k]
    BY <2>3, <2>5
  <2>c. ASSUME NEW k \in m .. Len(s) - 1 PROVE r[k] = q[k - (m - 1)]
    <3>1. k \in 1 .. Len(p) + Len(q) /\ ~(k <= Len(p)) /\ Len(p) = m - 1
      BY <2>3, <2>5
    <3> QED BY <2>d, <3>1, Zenon
  <2>6. /\ r \in Seq(S) /\ Len(r) = Len(s) - 1
        /\ \A k \in 1 .. m - 1 : r[k] = s[k]
        /\ \A k \in m .. Len(s) - 1 : r[k] = s[k + 1]
    <3>1. ASSUME NEW k \in m .. Len(s) - 1 PROVE r[k] = s[k + 1]
      <4>1. k - (m - 1) \in 1 .. Len(s) - m /\ m + (k - (m - 1)) = k + 1
        BY <2>3
      <4> QED BY <2>5, <2>c, <4>1, Zenon
    <3> HIDE DEF r
    <3> QED BY <2>5, <2>a, <2>b, <3>1
  <2> HIDE DEF r
  <2>7. ASSUME NEW k \in DOMAIN s, s[k] # e PROVE s[k] \in Range(r)
    <3>1. k \in 1 .. Len(s) /\ k # m
      BY <2>3, <2>7
    <3>2. CASE k < m
      <4>1. k \in DOMAIN r /\ r[k] = s[k]
        BY <2>3, <2>6, <3>1, <3>2
      <4> QED BY <4>1 DEF Range
    <3>3. CASE k > m
      <4>1. k - 1 \in DOMAIN r /\ r[k - 1] = s[k]
        BY <2>3, <2>6, <3>1, <3>3
      <4> QED BY <4>1 DEF Range
    <3> QED BY <2>3, <3>1, <3>2, <3>3
  <2>8. Removed(s, e) = r
    BY <2>4 DEF p, q, r
  <2>9. \A x \in Range(s) : x # e => x \in Range(r)
    BY <2>7 DEF Range
  <2> QED BY <2>6, <2>8, <2>9, Zenon
<1> QED BY <1>1, <1>2

LEMMA LongestIn ==
  ASSUME NEW n \in Nat, NEW I, I \subseteq Nat, NEW s \in Seq([loc : 0 .. n, i : I]), s # <<>>
  PROVE  Longest(s) \in Range(s)
<1>0. Range(s) \subseteq [loc : 0 .. n, i : I] /\ Range(s) # {}
  BY SeqRange
<1> DEFINE R == Range(s)
<1> HIDE DEF R
<1>1. R \subseteq [loc : 0 .. n, i : I] /\ R # {}
  BY <1>0 DEF R
<1>2. \A m \in R : m.loc \in 0 .. n /\ m.i \in Nat
  BY <1>1
<1> DEFINE L == {n - m.loc : m \in R}
<1>3. L \subseteq Nat /\ L # {}
  BY <1>1, <1>2
<1>4. PICK x \in L : \A y \in L : x <= y
  <2> HIDE DEF L
  <2> QED BY <1>3, LeastNat
<1> DEFINE J == {m.i : m \in {k \in R : n - k.loc = x}}
<1>5. J \subseteq Nat /\ J # {}
  BY <1>2, <1>4
<1>6. PICK j \in J : \A y \in J : j <= y
  <2> HIDE DEF J
  <2> QED BY <1>5, LeastNat
<1>7. PICK m \in R : n - m.loc = x /\ m.i = j
  BY <1>6
<1>8. \A k \in R : m.loc > k.loc \/ (m.loc = k.loc /\ m.i <= k.i)
  <2>1. ASSUME NEW k \in R PROVE m.loc > k.loc \/ (m.loc = k.loc /\ m.i <= k.i)
    <3>1. n - m.loc <= n - k.loc
      BY <1>4, <1>7
    <3>2. n - k.loc = x => m.i <= k.i
      BY <1>6, <1>7
    <3>3. m.loc \in Int /\ k.loc \in Int
      BY <1>2
    <3> QED BY <1>7, <3>1, <3>2, <3>3
  <2> QED BY <2>1
<1> QED BY <1>7, <1>8 DEF Longest, R

(* What Or goes on with: the answer is noted.                              *)
OrNoted(f, o) ==
  LET n == Len(Elem(f).exprs)
      tried == IF f.i \in 1 .. n THEN Tried(o, f.loc) ELSE o
  IN  IF f.i = 0 THEN f
      ELSE IF f.i <= n /\ tried.ok THEN [f EXCEPT !.todo = Append(@, [loc |-> o.loc, i |-> f.i])]
      ELSE [f EXCEPT !.farthest = Farthest(f, tried)]

LEMMA OrAnswer ==
  ASSUME GrammarOK, NEW f, IsFrame(f), Elem(f).cls = "Or", f.phase = "impl", NEW o, Resumes(f, o)
  PROVE  LET n == Len(Elem(f).exprs)
             tried == IF f.i \in 1 .. n THEN Tried(o, f.loc) ELSE o
         IN  /\ f.todo \in Seq(Alternatives(f))
             /\ f.i # 0 => /\ IsOutcome(o) /\ IsOutcome(tried) /\ Results(f, o)
                           /\ tried.ok = o.ok /\ (~tried.ok => Results(f, tried))
             /\ f.i = 0 => f.farthest = NoOutcome
<1> DEFINE n == Len(Elem(f).exprs)
           tried == IF f.i \in 1 .. n THEN Tried(o, f.loc) ELSE o
<1>0. Elem(f).cls \in Parting /\ Elem(f).cls \in Counted
  BY DEF Parting, Counted
<1>1. CASE f.i = 0
  <2>1. Begun(f)
    BY <1>0, <1>1, AwaitedCalled
  <2>2. f.todo = <<>> /\ f.farthest = NoOutcome
    BY <2>1, Zenon DEF Begun
  <2> QED BY <1>1, <2>2
<1>2. CASE f.i # 0
  <2>1. PICK c : IsOutcome(o) /\ Expects(f, c) /\ Answers(c, o)
    BY <1>0, <1>2, AwaitedCalled
  <2>2. Results(f, o)
    BY <1>0, <2>1, PartResults
  <2>3. f.todo \in Seq(Alternatives(f))
    BY <2>1 DEF Expects, Awaits
  <2>4. f.loc \in 0 .. Len(instring) + 1
    BY FrameHere
  <2>5. IsOutcome(tried) /\ tried.ok = o.ok
    <3>1. IsOutcome(Tried(o, f.loc)) /\ Tried(o, f.loc).ok = o.ok
      BY <2>1, <2>4, TriedOutcome
    <3> QED BY <2>1, <3>1, Zenon
  <2> HIDE DEF tried
  <2>6. ~tried.ok => Results(f, tried)
    BY <2>5, FailureResults
  <2> QED BY <1>2, <2>1, <2>2, <2>3, <2>5, <2>6, Zenon DEF tried
<1> QED BY <1>1, <1>2

LEMMA OrNotes ==
  ASSUME GrammarOK, NEW f, IsFrame(f), Elem(f).cls = "Or", f.phase = "impl", NEW o, Resumes(f, o)
  PROVE  LET g == OrNoted(f, o)
         IN  /\ SameFrame(f, g) /\ g.pos = f.pos /\ g.i = f.i /\ DOMAIN g = Fields
             /\ g.todo \in Seq(Alternatives(f))
             /\ g.farthest = NoOutcome \/ IsFailure(g.farthest)
<1> DEFINE n == Len(Elem(f).exprs)
           tried == IF f.i \in 1 .. n THEN Tried(o, f.loc) ELSE o
           g == OrNoted(f, o)
<1>0. /\ DOMAIN f = Fields /\ f.i \in Nat /\ n \in Nat /\ DOMAIN Elem(f).exprs = 1 .. n
      /\ f.farthest = NoOutcome \/ IsFailure(f.farthest)
  <2>1. IsCall(f.call)
    BY FrameHere
  <2>2. n \in Nat /\ DOMAIN Elem(f).exprs = 1 .. n
    BY <2>1, ElemFacts
  <2> QED BY <2>2, Zenon DEF IsFrame
<1>1. /\ f.todo \in Seq(Alternatives(f))
      /\ f.i # 0 => /\ IsOutcome(o) /\ IsOutcome(tried) /\ tried.ok = o.ok
  BY OrAnswer
<1>2. CASE f.i = 0
  <2>1. g = f
    BY <1>2, Zenon DEF OrNoted
  <2> QED BY <1>0, <1>1, <2>1, Zenon DEF SameFrame
<1>3. CASE f.i # 0 /\ f.i <= n /\ tried.ok
  <2> DEFINE m == [loc |-> o.loc, i |-> f.i]
  <2>1. g = [f EXCEPT !.todo = Append(@, m)]
    BY <1>3, Zenon DEF OrNoted
  <2>2. m \in Alternatives(f)
    <3>1. o.loc \in 0 .. Len(instring) + 1 /\ f.i \in DOMAIN Elem(f).exprs
      BY <1>0, <1>1, <1>3 DEF IsOutcome
    <3> QED BY <3>1 DEF Alternatives
  <2>3. Append(f.todo, m) \in Seq(Alternatives(f))
    BY <1>1, <2>2, AppendProperties
  <2>4. /\ g.todo = Append(f.todo, m) /\ g.farthest = f.farthest /\ g.pos = f.pos /\ g.i = f.i
        /\ DOMAIN g = Fields /\ SameFrame(f, g)
    BY <1>0, <2>1 DEF Fields, SameFrame
  <2> QED BY <1>0, <2>3, <2>4, Zenon
<1>4. CASE f.i # 0 /\ ~(f.i <= n /\ tried.ok)
  <2>1. g = [f EXCEPT !.farthest = Farthest(f, tried)]
    BY <1>4, Zenon DEF OrNoted
  <2>2. Farthest(f, tried) = NoOutcome \/ IsFailure(Farthest(f, tried))
    BY <1>1, <1>4, FarthestIsFailure
  <2>4. /\ g.todo = f.todo /\ g.farthest = Farthest(f, tried) /\ g.pos = f.pos /\ g.i = f.i
        /\ DOMAIN g = Fields /\ SameFrame(f, g)
    BY <1>0, <2>1 DEF Fields, SameFrame
  <2> QED BY <1>1, <2>2, <2>4, Zenon
<1> QED BY <1>2, <1>3, <1>4

LEMMA OrGoes ==
  ASSUME GrammarOK, NEW f, IsFrame(f), Elem(f).cls = "Or", f.phase = "impl", NEW o, Resumes(f, o)
  PROVE  GoesOn(f, OrImpl(f, o))
<1> DEFINE n == Len(Elem(f).exprs)
           tried == IF f.i \in 1 .. n THEN Tried(o, f.loc) ELSE o
           g == OrNoted(f, o)
           h == [g EXCEPT !.i = @ + 1]
           m == Longest(g.todo)
           a == [g EXCEPT !.i = n + 1, !.todo = Removed(@, m)]
<1>0. /\ f.i \in Nat /\ n \in Nat /\ DOMAIN Elem(f).exprs = 1 .. n /\ f.phase = "impl"
  <2>1. IsCall(f.call)
    BY FrameHere
  <2> QED BY <2>1, ElemFacts, FrameNumbers
<1>1. f.i # 0 => Results(f, o) /\ (~tried.ok => Results(f, tried))
  BY OrAnswer
<1>2. /\ SameFrame(f, g) /\ g.pos = f.pos /\ g.i = f.i /\ DOMAIN g = Fields
      /\ g.todo \in Seq(Alternatives(f))
      /\ g.farthest = NoOutcome \/ IsFailure(g.farthest)
  BY OrNotes
<1>3. OrImpl(f, o) =
        IF f.i \in 1 .. n /\ ~tried.ok /\ ~Missed(tried) THEN Done(tried)
        ELSE IF f.i > n /\ (o.ok \/ o.exc # "ParseException") THEN Done(o)
        ELSE IF f.i < n THEN Try(h, Part(f, f.i + 1), f.loc)
        ELSE IF g.todo = <<>> THEN NoAlternative(f, g.farthest)
        ELSE Parse(a, Part(f, m.i), f.loc, f.call.act, TRUE)
  BY Zenon DEF OrImpl, OrNoted
<1> HIDE DEF g
<1>4. CASE f.i \in 1 .. n /\ ~tried.ok /\ ~Missed(tried)
  <2>1. Results(f, tried)
    BY <1>1, <1>4
  <2> QED BY <1>3, <1>4, <2>1, GoDone, Zenon
<1>5. CASE f.i > n /\ (o.ok \/ o.exc # "ParseException")
  <2>1. Results(f, o) /\ ~(f.i \in 1 .. n)
    BY <1>0, <1>1, <1>5
  <2> QED BY <1>3, <1>5, <2>1, GoDone, Zenon
<1> DEFINE Neither == /\ ~(f.i \in 1 .. n /\ ~tried.ok /\ ~Missed(tried))
                      /\ ~(f.i > n /\ (o.ok \/ o.exc # "ParseException"))
<1>6. CASE Neither /\ f.i < n
  <2>1. f.i + 1 \in DOMAIN Elem(f).exprs /\ f.i + 1 \in Nat \ {0}
    BY <1>0, <1>6
  <2>2. /\ SameFrame(f, h) /\ h.i = f.i + 1 /\ h.pos = f.pos /\ h.farthest = g.farthest
        /\ h.todo = g.todo
    BY <1>2 DEF SameFrame, Fields
  <2> HIDE DEF h
  <2>3. GoesOn(f, Try(h, Part(f, f.i + 1), f.loc))
    BY <1>2, <2>1, <2>2, PartTries DEF Parting
  <2> QED BY <1>3, <1>6, <2>3, Zenon
<1>7. CASE Neither /\ ~(f.i < n) /\ g.todo = <<>>
  <2>1. GoesOn(f, NoAlternative(f, g.farthest))
    BY <1>2, NoAlternativeGoes
  <2> QED BY <1>3, <1>7, <2>1, Zenon
<1>8. CASE Neither /\ ~(f.i < n) /\ g.todo # <<>>
  <2>1. m \in Range(g.todo)
    <3>1. Len(instring) + 1 \in Nat /\ 1 .. n \subseteq Nat
      BY DEF GrammarOK
    <3>2. g.todo \in Seq([loc : 0 .. Len(instring) + 1, i : 1 .. n])
      BY <1>0, <1>2, Zenon DEF Alternatives
    <3> QED BY <1>8, <3>1, <3>2, LongestIn
  <2>2. m.i \in DOMAIN Elem(f).exprs
    <3>1. m \in Alternatives(f)
      BY <1>2, <2>1, SeqRange
    <3> QED BY <3>1 DEF Alternatives
  <2>3. Removed(g.todo, m) \in Seq(Alternatives(f))
    BY <1>2, RemovedFacts
  <2> HIDE DEF m
  <2>4. /\ SameFrame(f, a) /\ a.i = n + 1 /\ a.pos = f.pos /\ a.farthest = g.farthest
        /\ a.todo = Removed(g.todo, m)
    BY <1>2 DEF SameFrame, Fields
  <2> HIDE DEF a
  <2>5. ActsFor(a, f.call.act)
    <3>1. Elem(a) = Elem(f) /\ a.phase = "impl" /\ a.call = f.call
      BY <2>4 DEF Elem, SameFrame
    <3>2. a.i > Len(Elem(a).exprs)
      BY <1>0, <2>4, <3>1
    <3>3. LetsAct(a)
      BY <3>1, <3>2 DEF LetsAct, ActsAhead, Committed
    <3> QED BY <3>1, <3>3, Zenon DEF ActsFor
  <2>6. n + 1 \in Nat \ {0}
    BY <1>0
  <2>7. \A pre : GoesOn(f, Parse(a, Part(f, m.i), f.loc, f.call.act, pre))
    BY <1>2, <2>2, <2>3, <2>4, <2>5, <2>6, PartGoes DEF Parting
  <2> QED BY <1>3, <1>8, <2>7, Zenon DEF a
<1> QED BY <1>4, <1>5, <1>6, <1>7, <1>8

(***************************************************************************)
(* Each                                                                    *)
(***************************************************************************)
LEMMA RangeOfAppend ==
  ASSUME NEW T, NEW s \in Seq(T), NEW x \in T
  PROVE  Range(Append(s, x)) = Range(s) \cup {x}
<1> DEFINE a == Append(s, x)  n == Len(s)
<1>1. n \in Nat /\ DOMAIN s = 1 .. n
  BY LenProperties
<1>2. a \in Seq(T) /\ Len(a) = n + 1 /\ (\A i \in 1 .. n : a[i] = s[i]) /\ a[n + 1] = x
  BY AppendProperties
<1>3. DOMAIN a = 1 .. n + 1
  <2> HIDE DEF a, n
  <2> QED BY <1>2, LenProperties
<1> HIDE DEF a, n
<1>4. \A y : y \in Range(a) <=> \E i \in 1 .. n + 1 : a[i] = y
  BY <1>3 DEF Range
<1>5. \A y : y \in Range(s) <=> \E i \in 1 .. n : s[i] = y
  BY <1>1 DEF Range
<1>6. ASSUME NEW y PROVE y \in Range(a) <=> y \in Range(s) \/ y = x
  <2>1. ASSUME y \in Range(a) PROVE y \in Range(s) \/ y = x
    <3>1. PICK i \in 1 .. n + 1 : a[i] = y
      BY <1>4, <2>1
    <3>2. i \in 1 .. n \/ i = n + 1
      BY <1>1
    <3> QED BY <1>2, <1>5, <3>1, <3>2, Zenon
  <2>2. ASSUME y \in Range(s) PROVE y \in Range(a)
    <3>1. PICK i \in 1 .. n : s[i] = y
      BY <1>5, <2>2
    <3>2. i \in 1 .. n + 1
      BY <1>1
    <3> QED BY <1>2, <1>4, <3>1, <3>2, Zenon
  <2>3. x \in Range(a)
    <3>1. n + 1 \in 1 .. n + 1
      BY <1>1
    <3> QED BY <1>2, <1>4, <3>1, Zenon
  <2> QED BY <2>1, <2>2, <2>3
<1> QED BY <1>6 DEF a

LEMMA FilteredFacts ==
  ASSUME NEW T, NEW s \in Seq(T), NEW S
  PROVE  Filtered(s, S) \in Seq(T) /\ Range(Filtered(s, S)) = Range(s) \cap S
<1> DEFINE n == Len(s)
           Kept(r, i) == IF s[i] \in S THEN Append(r, s[i]) ELSE r
           kept[k \in 0 .. n] == IF k = 0 THEN <<>> ELSE Kept(kept[k - 1], k)
           F == [z \in Seq(T) \X (1 .. n) |-> Kept(z[1], z[2])]
<1>1. Filtered(s, S) = kept[n]
  BY Zenon DEF Filtered
<1>2. n \in Nat /\ \A i \in 1 .. n : s[i] \in T
  BY LenProperties
<1>3. \A r \in Seq(T), i \in 1 .. n :
        Kept(r, i) \in Seq(T) /\ Range(Kept(r, i)) = Range(r) \cup ({s[i]} \cap S)
  <2> SUFFICES ASSUME NEW r \in Seq(T), NEW i \in 1 .. n
               PROVE  Kept(r, i) \in Seq(T) /\ Range(Kept(r, i)) = Range(r) \cup ({s[i]} \cap S)
    OBVIOUS
  <2>1. s[i] \in T
    BY <1>2
  <2>2. Append(r, s[i]) \in Seq(T) /\ Range(Append(r, s[i])) = Range(r) \cup {s[i]}
    <3> DEFINE x == s[i]
    <3> HIDE DEF x
    <3>1. x \in T
      BY <2>1 DEF x
    <3>2. Append(r, x) \in Seq(T) /\ Range(Append(r, x)) = Range(r) \cup {x}
      BY <3>1, AppendProperties, RangeOfAppend
    <3> QED BY <3>2 DEF x
  <2> QED BY <2>2, Zenon
<1> HIDE DEF n, Kept
<1>4. F \in [Seq(T) \X (1 .. n) -> Seq(T)]
  BY <1>2, <1>3
<1>5. PICK f \in [0 .. n -> Seq(T)] : Iterates(f, n, <<>>, F)
  <2>1. <<>> \in Seq(T)
    OBVIOUS
  <2> HIDE DEF F
  <2> QED BY <1>2, <1>4, <2>1, Iteration, Zenon
<1>6. f = [i \in 0 .. n |-> IF i = 0 THEN <<>> ELSE Kept(f[i - 1], i)]
  <2>1. \A i \in 0 .. n : i # 0 => F[<<f[i - 1], i>>] = Kept(f[i - 1], i)
    <3> SUFFICES ASSUME NEW i \in 0 .. n, i # 0
                 PROVE  F[<<f[i - 1], i>>] = Kept(f[i - 1], i)
      OBVIOUS
    <3>1. i - 1 \in 0 .. n /\ i \in 1 .. n
      BY <1>2
    <3>2. f[i - 1] \in Seq(T)
      BY <1>5, <3>1
    <3> QED BY <3>1, <3>2
  <2>2. f = [i \in 0 .. n |-> IF i = 0 THEN <<>> ELSE F[<<f[i - 1], i>>]]
    BY <1>5, Zenon DEF Iterates
  <2> HIDE DEF F
  <2> QED BY <2>1, <2>2
<1>7. kept = [i \in 0 .. n |-> IF i = 0 THEN <<>> ELSE Kept(kept[i - 1], i)]
  BY <1>6
<1> HIDE DEF kept
<1>8. kept[0] = <<>> /\ \A i \in 1 .. n : kept[i] = Kept(kept[i - 1], i)
  <2>1. \A i \in 0 .. n : kept[i] = IF i = 0 THEN <<>> ELSE Kept(kept[i - 1], i)
    BY <1>7, Zenon
  <2> QED BY <1>2, <2>1
<1> DEFINE U == {i \in 0 .. n : kept[i] \in Seq(T) /\ Range(kept[i]) = {s[k] : k \in 1 .. i} \cap S}
<1>9. \A i \in 0 .. n : i \in U
  <2>1. 0 \in U
    <3>1. 0 \in 0 .. n /\ 1 .. 0 = {}
      BY <1>2
    <3>2. <<>> \in Seq(T) /\ Range(<<>>) = {}
      BY DEF Range
    <3> QED BY <1>8, <3>1, <3>2
  <2>2. ASSUME NEW i \in 1 .. n, i - 1 \in U PROVE i \in U
    <3>1. kept[i - 1] \in Seq(T) /\ Range(kept[i - 1]) = {s[k] : k \in 1 .. i - 1} \cap S /\ i \in 0 .. n
      BY <2>2
    <3>2. kept[i] = Kept(kept[i - 1], i)
      BY <1>8
    <3>3. kept[i] \in Seq(T) /\ Range(kept[i]) = Range(kept[i - 1]) \cup ({s[i]} \cap S)
      BY <1>3, <3>1, <3>2
    <3>4. 1 .. i = 1 .. i - 1 \cup {i}
      BY <1>2
    <3>5. {s[k] : k \in 1 .. i} = {s[k] : k \in 1 .. i - 1} \cup {s[i]}
      BY <3>4
    <3> QED BY <3>1, <3>3, <3>5
  <2> HIDE DEF U
  <2> QED BY <1>2, <2>1, <2>2, IndexInduction, Zenon
<1>10. kept[n] \in Seq(T) /\ Range(kept[n]) = {s[k] : k \in 1 .. n} \cap S
  <2>1. n \in U
    <3> HIDE DEF U
    <3> QED BY <1>2, <1>9
  <2> QED BY <2>1
<1>11. {s[k] : k \in 1 .. n} = Range(s)
  BY RangeEquality DEF n
<1> QED BY <1>1, <1>10, <1>11, Zenon

LEMMA OneBody ==
  ASSUME GrammarOK, NEW k \in DOMAIN E, E[k].cls \in {"Optional", "OneOrMore", "ZeroOrMore"}
  PROVE  E[k].exprs[1] \in DOMAIN E /\ E[k].exprs = <<E[k].exprs[1]>> /\ Range(E[k].exprs) = {E[k].exprs[1]}
<1> DEFINE x == E[k].exprs
<1>1. DOMAIN E = 1 .. Len(E) /\ IsElement(E[k], Len(E))
  BY Zenon DEF GrammarOK
<1>2. x \in Seq(1 .. Len(E)) /\ Len(x) \in Arity(E[k].cls)
  BY <1>1, Zenon DEF IsElement
<1>3. Arity(E[k].cls) = {1}
  BY DEF Arity, Tokens, Listed
<1> HIDE DEF x
<1>4. Len(x) = 1 /\ x[1] \in 1 .. Len(E) /\ DOMAIN x = 1 .. 1
  <2>1. Len(x) = 1
    BY <1>2, <1>3, Zenon
  <2>2. DOMAIN x = 1 .. Len(x) /\ \A i \in 1 .. Len(x) : x[i] \in 1 .. Len(E)
    BY <1>2, LenProperties, ElementOfSeq
  <2>3. 1 \in 1 .. 1
    OBVIOUS
  <2> QED BY <2>1, <2>2, <2>3, Zenon
<1>5. x = <<x[1]>>
  BY <1>2, <1>4
<1>6. Range(x) = {x[1]}
  BY <1>4 DEF Range
<1> QED BY <1>1, <1>4, <1>5, <1>6, Zenon DEF x

LEMMA BodiesFacts ==
  ASSUME NEW D, NEW s \in Seq(D), \A k \in Range(s) : E[k].exprs[1] \in D
  PROVE  BodiesOf(s) \in Seq(D) /\ Range(BodiesOf(s)) = {E[k].exprs[1] : k \in Range(s)}
<1> DEFINE n == Len(s)  b == BodiesOf(s)
<1>1. n \in Nat /\ DOMAIN s = 1 .. n /\ Range(s) = {s[i] : i \in 1 .. n}
  BY LenProperties, RangeEquality
<1>2. b = [i \in 1 .. n |-> E[s[i]].exprs[1]]
  BY <1>1, Zenon DEF BodiesOf
<1>3. \A i \in 1 .. n : E[s[i]].exprs[1] \in D
  BY <1>1
<1> HIDE DEF n, b
<1>4. b \in Seq(D)
  BY <1>1, <1>2, <1>3
<1>5. Range(b) = {b[i] : i \in 1 .. n}
  BY <1>2 DEF Range
<1>6. \A i \in 1 .. n : b[i] = E[s[i]].exprs[1]
  BY <1>2
<1>7. Range(b) = {E[k].exprs[1] : k \in Range(s)}
  BY <1>1, <1>5, <1>6
<1> QED BY <1>4, <1>7 DEF b

LEMMA OfClassFacts ==
  ASSUME GrammarOK, NEW f, IsCall(f.call), NEW classes
  PROVE  /\ OfClass(f, classes) \in Seq(DOMAIN E)
         /\ Range(OfClass(f, classes)) = {e \in Range(Elem(f).exprs) : E[e].cls \in classes}
<1>1. Elem(f).exprs \in Seq(DOMAIN E)
  BY ElemFacts
<1> DEFINE S == {e \in DOMAIN E : E[e].cls \in classes}  D == DOMAIN E  s == Elem(f).exprs
<1> HIDE DEF S, D, s
<1>2. Filtered(s, S) \in Seq(D) /\ Range(Filtered(s, S)) = Range(s) \cap S
  BY <1>1, FilteredFacts DEF s, D
<1>3. Range(s) \subseteq D
  BY <1>1, RangeOfSeq DEF s, D
<1>4. Range(s) \cap S = {e \in Range(s) : E[e].cls \in classes}
  BY <1>3 DEF S, D
<1> QED BY <1>2, <1>4, Zenon DEF OfClass, S, D, s

LEMMA OfClassBodies ==
  ASSUME GrammarOK, NEW f, IsCall(f.call), NEW cls \in {"Optional", "OneOrMore", "ZeroOrMore"}
  PROVE  /\ BodiesOf(OfClass(f, {cls})) \in Seq(DOMAIN E)
         /\ \A e \in Range(Elem(f).exprs) : E[e].cls = cls =>
              E[e].exprs[1] \in Range(BodiesOf(OfClass(f, {cls})))
<1> DEFINE s == OfClass(f, {cls})  D == DOMAIN E
<1>1. s \in Seq(D) /\ Range(s) = {e \in Range(Elem(f).exprs) : E[e].cls \in {cls}}
  BY OfClassFacts
<1>2. Range(s) \subseteq D
  BY <1>1, RangeOfSeq
<1>3. \A k \in Range(s) : E[k].exprs[1] \in D
  BY <1>1, <1>2, OneBody
<1> HIDE DEF s, D
<1>4. BodiesOf(s) \in Seq(D) /\ Range(BodiesOf(s)) = {E[k].exprs[1] : k \in Range(s)}
  BY <1>1, <1>3, BodiesFacts
<1>5. \A e \in Range(Elem(f).exprs) : E[e].cls = cls => E[e].exprs[1] \in Range(BodiesOf(s))
  BY <1>1, <1>4
<1> QED BY <1>4, <1>5, Zenon DEF s, D

LEMMA RequiredFacts ==
  ASSUME GrammarOK, NEW f, IsCall(f.call)
  PROVE  /\ Required(f) \in Seq(DOMAIN E)
         /\ \A e \in Range(Elem(f).exprs) :
              /\ Single(e) => e \in Range(Required(f))
              /\ E[e].cls = "OneOrMore" => E[e].exprs[1] \in Range(Required(f))
<1> DEFINE S == {e \in DOMAIN E : Single(e)}  D == DOMAIN E  s == Elem(f).exprs
           p == Filtered(s, S)  q == Multirequired(f)
<1>1. s \in Seq(D)
  BY ElemFacts
<1>2. q \in Seq(D) /\ \A e \in Range(s) : E[e].cls = "OneOrMore" => E[e].exprs[1] \in Range(q)
  BY OfClassBodies, Zenon DEF Multirequired
<1>3. Range(s) \subseteq D
  BY <1>1, RangeOfSeq
<1>4. \A e \in Range(s) : Single(e) => e \in S
  BY <1>3
<1> HIDE DEF S, D, s
<1>5. p \in Seq(D) /\ Range(p) = Range(s) \cap S
  BY <1>1, FilteredFacts
<1>6. Required(f) = p \o q
  BY Zenon DEF Required, S, s
<1> HIDE DEF p, q
<1>7. p \o q \in Seq(D) /\ Range(p \o q) = Range(p) \cup Range(q)
  BY <1>2, <1>5, ConcatProperties, RangeConcatenation
<1>8. \A e \in Range(s) : Single(e) => e \in Range(p \o q)
  BY <1>4, <1>5, <1>7
<1>9. \A e \in Range(s) : E[e].cls = "OneOrMore" => E[e].exprs[1] \in Range(p \o q)
  BY <1>2, <1>7
<1> QED BY <1>6, <1>7, <1>8, <1>9, Zenon DEF D, s

LEMMA OptionalsFacts ==
  ASSUME GrammarOK, NEW f, IsCall(f.call)
  PROVE  /\ Optionals(f) \in Seq(DOMAIN E) /\ Multirequired(f) \in Seq(DOMAIN E)
         /\ Multioptionals(f) \in Seq(DOMAIN E)
<1> DEFINE S == {e \in DOMAIN E : E[e].mayReturnEmpty /\ E[e].cls # "Optional"}  D == DOMAIN E
           s == Elem(f).exprs  p == BodiesOf(OfClass(f, {"Optional"}))  q == Filtered(s, S)
<1>1. s \in Seq(D)
  BY ElemFacts
<1>2. p \in Seq(D) /\ Multirequired(f) \in Seq(D) /\ Multioptionals(f) \in Seq(D)
  BY OfClassBodies, Zenon DEF Multirequired, Multioptionals
<1> HIDE DEF S, D, s
<1>3. q \in Seq(D)
  BY <1>1, FilteredFacts
<1>4. Optionals(f) = p \o q
  BY Zenon DEF Optionals, S, s
<1> HIDE DEF p, q
<1>5. p \o q \in Seq(D)
  BY <1>2, <1>3, ConcatProperties
<1> QED BY <1>2, <1>4, <1>5, Zenon DEF D

LEMMA WholesFacts ==
  ASSUME GrammarOK, NEW f, IsCall(f.call), NEW parts
  PROVE  /\ Wholes(f, parts) \in Seq(DOMAIN E)
         /\ \A o \in Range(Wholes(f, parts)) :
              /\ o \in Range(Elem(f).exprs) /\ o \in DOMAIN E /\ E[o].cls = "Optional"
              /\ E[o].exprs[1] \in parts
<1> DEFINE S == {o \in DOMAIN E : Range(E[o].exprs) \subseteq parts}  D == DOMAIN E
           s == OfClass(f, {"Optional"})
<1>1. s \in Seq(D) /\ Range(s) = {e \in Range(Elem(f).exprs) : E[e].cls \in {"Optional"}}
  BY OfClassFacts
<1>2. ASSUME NEW o \in S, E[o].cls = "Optional" PROVE E[o].exprs[1] \in parts /\ o \in DOMAIN E
  <2>1. Range(E[o].exprs) = {E[o].exprs[1]}
    BY <1>2, OneBody
  <2> QED BY <2>1
<1> HIDE DEF S, D, s
<1>3. Filtered(s, S) \in Seq(D) /\ Range(Filtered(s, S)) = Range(s) \cap S
  BY <1>1, FilteredFacts
<1>4. Wholes(f, parts) = Filtered(s, S)
  BY Zenon DEF Wholes, S, s
<1>5. \A o \in Range(s) \cap S : o \in Range(Elem(f).exprs) /\ E[o].cls = "Optional"
  BY <1>1
<1> QED BY <1>2, <1>3, <1>4, <1>5, Zenon DEF D

LEMMA WholeIsElement ==
  ASSUME GrammarOK, NEW f, IsCall(f.call), NEW e \in DOMAIN E
  PROVE  Whole(f, e) \in DOMAIN E
<1> DEFINE w == Wholes(f, {e})
<1>1. w \in Seq(DOMAIN E)
  BY WholesFacts
<1> HIDE DEF w
<1>2. w # <<>> => Last(w) \in DOMAIN E
  BY <1>1 DEF Last
<1> QED BY <1>2, Zenon DEF Whole, w

(* An Each that does not match the empty string requires something that    *)
(* does not, and parses it for itself.                                     *)
LEMMA RequiresFlagless ==
  ASSUME GrammarOK, NEW f, IsCall(f.call), Elem(f).cls = "Each", f.call.e \in Flagless
  PROVE  \E e \in Range(Required(f)) \cap Flagless : Whole(f, e) = e
<1>1. Nonempty(Flagless, Elem(f)) /\ BodiesApart(E, Elem(f))
  BY FlaglessFacts
<1>2. PICK p : p \in Range(Elem(f).exprs) /\ p \in Flagless
  <2>1. PICK i \in DOMAIN Elem(f).exprs : Elem(f).exprs[i] \in Flagless
    BY <1>1 DEF Nonempty, Elem
  <2> QED BY <2>1 DEF Range
<1>3. Nonempty(Flagless, E[p]) /\ p \in DOMAIN E
  BY <1>2, Zenon DEF GrammarOK
<1>4. E[p].cls # "Optional" /\ E[p].cls # "ZeroOrMore"
  BY <1>3 DEF Nonempty, Enhanced
<1>5. ASSUME NEW o \in Range(Elem(f).exprs), E[o].cls = "Optional"
      PROVE  p # E[o].exprs[1] /\ (E[p].cls = "OneOrMore" => E[p].exprs # E[o].exprs)
  BY <1>1, <1>2, <1>5, Zenon DEF BodiesApart
<1> DEFINE e == IF E[p].cls = "OneOrMore" THEN E[p].exprs[1] ELSE p
<1>6. e \in Range(Required(f))
  BY <1>2, <1>4, RequiredFacts DEF Single
<1>7. e \in Flagless
  <2>1. ASSUME E[p].cls = "OneOrMore" PROVE E[p].exprs[1] \in Flagless
    <3>1. 1 \in DOMAIN E[p].exprs
      BY <1>3, <2>1, OneBody
    <3> QED BY <1>3, <2>1, <3>1 DEF Nonempty
  <2> QED BY <1>2, <2>1
<1>8. ASSUME NEW o \in Range(Elem(f).exprs), o \in DOMAIN E, E[o].cls = "Optional", E[o].exprs[1] = e
      PROVE  FALSE
  <2>1. p # E[o].exprs[1] /\ (E[p].cls = "OneOrMore" => E[p].exprs # E[o].exprs)
    BY <1>5, <1>8
  <2>2. E[o].exprs = <<E[o].exprs[1]>>
    BY <1>8, OneBody
  <2>3. E[p].cls = "OneOrMore" => E[p].exprs = <<E[p].exprs[1]>>
    BY <1>3, OneBody
  <2> QED BY <1>8, <2>1, <2>2, <2>3, Zenon
<1> HIDE DEF e
<1>9. Wholes(f, {e}) = <<>>
  <2> DEFINE w == Wholes(f, {e})
  <2>1. w \in Seq(DOMAIN E)
    BY WholesFacts
  <2>2. \A o \in Range(w) : FALSE
    <3> SUFFICES ASSUME NEW o \in Range(w) PROVE FALSE
      OBVIOUS
    <3>1. o \in Range(Elem(f).exprs) /\ o \in DOMAIN E /\ E[o].cls = "Optional" /\ E[o].exprs[1] \in {e}
      BY WholesFacts
    <3> QED BY <1>8, <3>1
  <2> HIDE DEF w
  <2>3. w = <<>>
    BY <2>1, <2>2, SeqRange
  <2> QED BY <2>3 DEF w
<1>10. Whole(f, e) = e
  BY <1>9, Zenon DEF Whole
<1> QED BY <1>6, <1>7, <1>10

LEMMA EachParseGoes ==
  ASSUME GrammarOK, NEW f, IsFrame(f), Elem(f).cls = "Each", f.phase = "impl",
         NEW order \in Seq(DOMAIN E), NEW toks, NEW loc \in Nat, loc >= Base(f.loc),
         loc <= f.call.end + 1,
         f.call.e \in Flagless => loc > f.loc \/ Range(order) \cap Flagless # {}
  PROVE  GoesOn(f, EachParse(f, order, toks, loc))
<1> DEFINE D == DOMAIN E  x == Head(order)  rest == Tail(order)
           g == [f EXCEPT !.i = 2, !.todo = rest, !.toks = toks]
<1>0. IsCall(f.call) /\ f.loc \in Nat /\ f.call.end \in Nat
  BY FrameHere, FrameNumbers
<1>1. CASE order = <<>>
  <2>1. Range(order) = {}
    BY <1>1 DEF Range
  <2>2. Results(f, Ok(loc, toks))
    BY <1>0, <2>1, OkResults
  <2> QED BY <1>1, <2>2, GoDone, Zenon DEF EachParse
<1>2. CASE order # <<>>
  <2>1. x \in D /\ rest \in Seq(D) /\ Range(order) = Range(rest) \cup {x}
    <3>1. x \in D /\ rest \in Seq(D)
      BY <1>2, HeadTailProperties
    <3>2. order = <<x>> \o rest /\ <<x>> \in Seq(D)
      BY <1>2
    <3>3. Range(<<x>>) = {x}
      <4> HIDE DEF x
      <4> QED BY DEF Range
    <3> DEFINE one == <<x>>
    <3>a. one \in Seq(D) /\ rest \in Seq(D)
      BY <3>1, <3>2
    <3> HIDE DEF one, x, rest, D
    <3>b. Range(one \o rest) = Range(one) \cup Range(rest)
      BY <3>a, RangeConcatenation
    <3>4. Range(<<x>> \o rest) = Range(<<x>>) \cup Range(rest)
      BY <3>b DEF one
    <3> QED BY <3>1, <3>2, <3>3, <3>4
  <2> HIDE DEF x, rest, D
  <2>2. /\ SameFrame(f, g) /\ g.i = 2 /\ g.pos = f.pos /\ g.farthest = f.farthest /\ g.todo = rest
        /\ g.loc = f.loc /\ g.call = f.call /\ g.phase = "impl"
    BY DEF IsFrame, Fields, SameFrame
  <2> HIDE DEF g
  <2>3. g.pos \in Base(f.call.loc) .. f.call.end + 1 /\ (g.farthest = NoOutcome \/ IsFailure(g.farthest))
    BY <2>2, Zenon DEF IsFrame
  <2>4. IsFrame(g) /\ Called(g) /\ Elem(g) = Elem(f)
    BY <2>2, <2>3, ImplFrame DEF Counted
  <2>5. ActsFor(g, f.call.act)
    <3>1. LetsAct(g)
      BY <2>2, <2>4 DEF LetsAct, ActsAhead, Committed
    <3> QED BY <2>2, <3>1, Zenon DEF ActsFor
  <2>6. ASSUME NEW act, NEW pre PROVE Awaits(g, Call(x, loc, act, pre, f.call.end))
    <3> DEFINE c == Call(x, loc, act, pre, f.call.end)
    <3>1. c.e = x /\ c.loc = loc /\ c.end = f.call.end
      BY DEF Call
    <3> HIDE DEF c
    <3>2. g.call.e \in Flagless => c.loc > g.loc \/ c.e \in Flagless \/ Range(g.todo) \cap Flagless # {}
      BY <2>1, <2>2, <3>1
    <3>3. AwaitsEach(g, c)
      <4>1. g.i \in {1, 2} /\ g.i # 1
        BY <2>2
      <4>2. c.loc >= Base(g.loc) /\ g.todo \in Seq(DOMAIN E) /\ c.end = g.call.end
        BY <2>1, <2>2, <3>1 DEF D
      <4> QED BY <3>2, <4>1, <4>2, Zenon DEF AwaitsEach
    <3>4. Awaits(g, c)
      BY <2>2, <2>4, <3>3 DEF Awaits, Parting, Enhanced, Multiple
    <3> QED BY <3>4 DEF c
  <2>7. loc \in 0 .. f.call.end + 1 /\ x \in DOMAIN E
    BY <1>0, <2>1 DEF D
  <2>8. GoesOn(f, Parse(g, x, loc, f.call.act, TRUE))
    BY <2>2, <2>4, <2>5, <2>6, <2>7, GoParse
  <2> QED BY <1>2, <2>8, Zenon DEF EachParse, x, g, rest
<1> QED BY <1>1, <1>2

(* All but the count of a round.                                           *)
IsPlan(f, r) ==
  /\ DOMAIN r = {"reqd", "opt", "i", "failed", "order", "exprs"}
  /\ r.reqd \in Seq(DOMAIN E) /\ r.opt \in Seq(DOMAIN E) /\ r.order \in Seq(DOMAIN E)
  /\ r.exprs \in Seq(DOMAIN E) /\ r.failed \in Nat
  /\ \A e \in Range(Required(f)) : e \in Range(r.reqd) \/ Whole(f, e) \in Range(r.order)

LEMMA RoundExprs ==
  ASSUME GrammarOK, NEW f, IsCall(f.call), NEW reqd \in Seq(DOMAIN E), NEW opt \in Seq(DOMAIN E)
  PROVE  Round(f, reqd, opt) \in Seq(DOMAIN E)
<1> DEFINE D == DOMAIN E  m == Multioptionals(f)  q == Multirequired(f)
<1>1. m \in Seq(D) /\ q \in Seq(D) /\ reqd \in Seq(D) /\ opt \in Seq(D)
  BY OptionalsFacts
<1> HIDE DEF D, m, q
<1>2. reqd \o opt \in Seq(D)
  BY <1>1, ConcatProperties, Zenon
<1>3. (reqd \o opt) \o m \in Seq(D)
  BY <1>1, <1>2, ConcatProperties, Zenon
<1>4. ((reqd \o opt) \o m) \o q \in Seq(D)
  BY <1>1, <1>3, ConcatProperties, Zenon
<1> QED BY <1>4, Zenon DEF Round, D, m, q

LEMMA EachTries ==
  ASSUME GrammarOK, NEW f, IsFrame(f), Elem(f).cls = "Each", f.phase = "impl",
         NEW r, IsPlan(f, r), r.i \in 0 .. Len(r.exprs) - 1,
         NEW pos \in Base(f.call.loc) .. f.call.end + 1
  PROVE  GoesOn(f, Try([f EXCEPT !.i = 1, !.pos = pos, !.todo = [r EXCEPT !.i = @ + 1]],
                       r.exprs[r.i + 1], pos))
<1> DEFINE t == [r EXCEPT !.i = @ + 1]  x == r.exprs[r.i + 1]
           g == [f EXCEPT !.i = 1, !.pos = pos, !.todo = t]
<1>0. IsCall(f.call) /\ f.loc \in Nat /\ f.call.end \in Nat /\ Base(f.call.loc) \in Nat
  BY FrameHere, FrameNumbers
<1>1. /\ t.reqd = r.reqd /\ t.opt = r.opt /\ t.order = r.order /\ t.exprs = r.exprs
      /\ t.failed = r.failed /\ t.i = r.i + 1 /\ DOMAIN t = DOMAIN r
  BY DEF IsPlan
<1>2. r.exprs \in Seq(DOMAIN E) /\ Len(r.exprs) \in Nat
  BY DEF IsPlan
<1>3. r.i + 1 \in 1 .. Len(r.exprs) /\ r.i + 1 > 0
  BY <1>2
<1>4. x \in DOMAIN E
  BY <1>2, <1>3
<1> HIDE DEF t
<1>5. t.i \in 0 .. Len(t.exprs) /\ t.i > 0 /\ x = t.exprs[t.i]
  BY <1>1, <1>2, <1>3
<1>6. IsRound(f, t)
  BY <1>1, <1>5, Zenon DEF IsPlan, IsRound
<1> HIDE DEF x
<1>7. /\ SameFrame(f, g) /\ g.i = 1 /\ g.pos = pos /\ g.farthest = f.farthest /\ g.todo = t
      /\ g.loc = f.loc /\ g.call = f.call /\ g.phase = "impl"
  BY DEF IsFrame, Fields, SameFrame
<1> HIDE DEF g
<1>8. g.pos \in Base(f.call.loc) .. f.call.end + 1 /\ (g.farthest = NoOutcome \/ IsFailure(g.farthest))
  BY <1>7, Zenon DEF IsFrame
<1>9. IsFrame(g) /\ Called(g) /\ Elem(g) = Elem(f)
  BY <1>7, <1>8, ImplFrame DEF Counted
<1>10. ActsFor(g, FALSE)
  BY Zenon DEF ActsFor
<1>11. IsRound(g, t)
  <2>1. Required(g) = Required(f) /\ \A e : Whole(g, e) = Whole(f, e)
    BY <1>9, Zenon DEF Required, Multirequired, OfClass, Whole, Wholes
  <2> QED BY <1>6, <2>1, Zenon DEF IsRound
<1>12. Awaits(g, Call(x, pos, FALSE, TRUE, f.call.end))
  <2> DEFINE c == Call(x, pos, FALSE, TRUE, f.call.end)
  <2>1. c.e = x /\ c.loc = pos /\ c.end = f.call.end
    BY DEF Call
  <2> HIDE DEF c
  <2>2. AwaitsEach(g, c)
    BY <1>5, <1>7, <1>11, <2>1 DEF AwaitsEach
  <2>3. Awaits(g, c)
    BY <1>7, <1>9, <2>2 DEF Awaits, Parting, Enhanced, Multiple
  <2> QED BY <2>3 DEF c
<1>13. pos \in 0 .. f.call.end + 1
  BY <1>0
<1>14. GoesOn(f, Parse(g, x, pos, FALSE, TRUE))
  BY <1>4, <1>7, <1>9, <1>10, <1>12, <1>13, GoParse
<1> QED BY <1>14, Zenon DEF Try, g, t, x

LEMMA EachRoundGoes ==
  ASSUME GrammarOK, NEW f, IsFrame(f), Elem(f).cls = "Each", f.phase = "impl",
         NEW r, IsRound(f, r), NEW pos \in Base(f.call.loc) .. f.call.end + 1
  PROVE  GoesOn(f, EachRound(f, r, pos))
<1> DEFINE again == [r EXCEPT !.i = 0, !.failed = 0, !.exprs = Round(f, r.reqd, r.opt)]
           next  == IF r.i = Len(r.exprs) /\ r.failed < r.i THEN again ELSE r
<1>0. /\ IsCall(f.call) /\ f.loc \in Nat /\ f.call.end \in Nat /\ f.loc <= f.call.end + 1
      /\ Base(f.loc) \in Nat /\ Base(f.loc) <= f.loc
  BY FrameHere, FrameNumbers, BaseFacts
<1>1. IsPlan(f, next) /\ Len(next.exprs) \in Nat /\ next.i \in 0 .. Len(next.exprs)
  <2>1. IsPlan(f, r) /\ r.i \in 0 .. Len(r.exprs) /\ Len(r.exprs) \in Nat
    BY DEF IsRound, IsPlan
  <2> DEFINE new == Round(f, r.reqd, r.opt)
  <2>2. new \in Seq(DOMAIN E) /\ Len(new) \in Nat
    <3>1. new \in Seq(DOMAIN E)
      BY <1>0, RoundExprs DEF IsRound
    <3> HIDE DEF new
    <3> QED BY <3>1, LenProperties
  <2>3. /\ again.reqd = r.reqd /\ again.opt = r.opt /\ again.order = r.order /\ again.exprs = new
        /\ again.failed = 0 /\ again.i = 0 /\ DOMAIN again = DOMAIN r
    <3> HIDE DEF new
    <3>1. again = [r EXCEPT !.i = 0, !.failed = 0, !.exprs = new]
      BY DEF new
    <3> HIDE DEF again
    <3> QED BY <3>1 DEF IsRound
  <2> HIDE DEF again, new
  <2>4. IsPlan(f, again)
    <3>1. again.failed \in Nat
      BY <2>3
    <3> QED BY <2>1, <2>2, <2>3, <3>1, Zenon DEF IsPlan
  <2>5. again.i \in 0 .. Len(again.exprs) /\ Len(again.exprs) \in Nat
    BY <2>2, <2>3
  <2> QED BY <2>1, <2>4, <2>5, Zenon
<1> HIDE DEF again
<1> DEFINE g == [f EXCEPT !.i = 1, !.pos = pos, !.todo = [next EXCEPT !.i = @ + 1]]
           order == next.order \o Wholes(f, Range(next.opt))
<1>2. EachRound(f, r, pos) =
        IF next.i < Len(next.exprs) THEN Try(g, next.exprs[next.i + 1], pos)
        ELSE IF next.reqd # <<>> THEN Done(ParseException(f.loc))
        ELSE EachParse(f, order, <<>>, f.loc)
  BY Zenon DEF EachRound, again
<1> HIDE DEF next
<1>3. CASE next.i < Len(next.exprs)
  <2>1. next.i \in 0 .. Len(next.exprs) - 1
    BY <1>1, <1>3
  <2>2. GoesOn(f, Try(g, next.exprs[next.i + 1], pos))
    BY <1>1, <2>1, EachTries
  <2> QED BY <1>2, <1>3, <2>2, Zenon
<1>4. CASE ~(next.i < Len(next.exprs)) /\ next.reqd # <<>>
  <2>1. Results(f, ParseException(f.loc))
    BY FrameHere, ExceptionResults
  <2> QED BY <1>2, <1>4, <2>1, GoDone, Zenon
<1>5. CASE ~(next.i < Len(next.exprs)) /\ next.reqd = <<>>
  <2> DEFINE w == Wholes(f, Range(next.opt))
  <2>1. w \in Seq(DOMAIN E) /\ next.order \in Seq(DOMAIN E)
    BY <1>0, <1>1, WholesFacts DEF IsPlan
  <2>2. order \in Seq(DOMAIN E) /\ Range(order) = Range(next.order) \cup Range(w)
    <3> DEFINE D == DOMAIN E  v == next.order
    <3>1. w \in Seq(D) /\ v \in Seq(D)
      BY <2>1
    <3> HIDE DEF w, v, D
    <3>2. v \o w \in Seq(D) /\ Range(v \o w) = Range(v) \cup Range(w)
      BY <3>1, ConcatProperties, RangeConcatenation
    <3> QED BY <3>2 DEF v, w, D
  <2>3. ASSUME f.call.e \in Flagless PROVE Range(order) \cap Flagless # {}
    <3>1. PICK e \in Range(Required(f)) \cap Flagless : Whole(f, e) = e
      BY <1>0, <2>3, RequiresFlagless
    <3>2. Range(next.reqd) = {}
      BY <1>5 DEF Range
    <3>3. e \in Range(next.order)
      BY <1>1, <3>1, <3>2 DEF IsPlan
    <3> QED BY <2>2, <3>1, <3>3
  <2>4. f.loc >= Base(f.loc)
    BY <1>0
  <2> HIDE DEF order
  <2>5. GoesOn(f, EachParse(f, order, <<>>, f.loc))
    BY <1>0, <2>2, <2>3, <2>4, EachParseGoes
  <2> QED BY <1>2, <1>5, <2>5, Zenon
<1> QED BY <1>3, <1>4, <1>5

LEMMA EachFoundIsRound ==
  ASSUME GrammarOK, NEW f, IsCall(f.call), NEW r, IsRound(f, r), NEW e \in DOMAIN E
  PROVE  IsRound(f, EachFound(f, r, e))
<1> DEFINE D == DOMAIN E  w == Whole(f, e)
           order == Append(r.order, w)  reqd == Removed(r.reqd, e)
           opt == IF e \in Range(r.reqd) THEN r.opt ELSE Removed(r.opt, e)
           t == EachFound(f, r, e)
<1>1. w \in D
  BY WholeIsElement
<1>2. /\ DOMAIN r = {"reqd", "opt", "i", "failed", "order", "exprs"}
      /\ r.reqd \in Seq(D) /\ r.opt \in Seq(D) /\ r.order \in Seq(D)
      /\ r.exprs \in Seq(D) /\ r.failed \in Nat /\ r.i \in 0 .. Len(r.exprs)
      /\ \A x \in Range(Required(f)) : x \in Range(r.reqd) \/ Whole(f, x) \in Range(r.order)
  BY Zenon DEF IsRound
<1>3. t = [r EXCEPT !.order = order, !.reqd = reqd, !.opt = opt]
  BY Zenon DEF EachFound
<1> HIDE DEF D, w
<1>4. order \in Seq(D) /\ Range(order) = Range(r.order) \cup {w}
  BY <1>1, <1>2, AppendProperties, RangeOfAppend
<1>5. reqd \in Seq(D) /\ \A x \in Range(r.reqd) : x # e => x \in Range(reqd)
  BY <1>2, RemovedFacts
<1>6. opt \in Seq(D)
  BY <1>2, RemovedFacts
<1> HIDE DEF order, reqd, opt, t
<1>7. /\ DOMAIN t = DOMAIN r /\ t.order = order /\ t.reqd = reqd /\ t.opt = opt /\ t.i = r.i
      /\ t.failed = r.failed /\ t.exprs = r.exprs
  BY <1>2, <1>3
<1>8. ASSUME NEW x \in Range(Required(f)) PROVE x \in Range(reqd) \/ Whole(f, x) \in Range(order)
  <2>1. CASE x = e
    BY <1>4, <2>1 DEF w
  <2>2. CASE x # e
    BY <1>2, <1>4, <1>5, <2>2
  <2> QED BY <2>1, <2>2
<1>9. t.i \in 0 .. Len(t.exprs)
  BY <1>2, <1>7
<1>10. IsRound(f, t)
  BY <1>2, <1>4, <1>5, <1>6, <1>7, <1>8, <1>9, Zenon DEF IsRound, D
<1> QED BY <1>10, Zenon DEF t

LEMMA EachStartIsRound ==
  ASSUME GrammarOK, NEW f, IsCall(f.call)
  PROVE  IsRound(f, EachStart(f))
<1> DEFINE D == DOMAIN E  reqd == Required(f)  opt == Optionals(f)  new == Round(f, reqd, opt)
           r == EachStart(f)
<1>1. reqd \in Seq(D) /\ opt \in Seq(D)
  BY RequiredFacts, OptionalsFacts
<1>2. new \in Seq(D)
  BY <1>1, RoundExprs
<1>3. r = [reqd |-> reqd, opt |-> opt, i |-> 0, failed |-> 0, order |-> <<>>, exprs |-> new]
  BY Zenon DEF EachStart
<1> HIDE DEF D, reqd, opt, new, r
<1>4. /\ DOMAIN r = {"reqd", "opt", "i", "failed", "order", "exprs"} /\ r.reqd = reqd /\ r.opt = opt
      /\ r.i = 0 /\ r.failed = 0 /\ r.order = <<>> /\ r.exprs = new
  BY <1>3
<1>5. <<>> \in Seq(D) /\ 0 \in Nat /\ 0 \in 0 .. Len(new)
  <2>1. Len(new) \in Nat
    BY <1>2, LenProperties
  <2> QED BY <2>1
<1>6. \A x \in Range(Required(f)) : x \in Range(r.reqd)
  BY <1>4, Zenon DEF reqd
<1> QED BY <1>1, <1>2, <1>4, <1>5, <1>6, Zenon DEF IsRound, D, r

(* The answer to one of the parts parsed for good.                         *)
LEMMA EachAnswer ==
  ASSUME GrammarOK, NEW f, NEW c, NEW o, Expects(f, c), Answers(c, o), Elem(f).cls = "Each",
         f.phase = "impl", f.i = 2, o.ok
  PROVE  /\ f.todo \in Seq(DOMAIN E)
         /\ o.loc \in Nat /\ o.loc >= Base(f.loc) /\ o.loc <= f.call.end + 1
         /\ f.call.e \in Flagless => o.loc > f.loc \/ Range(f.todo) \cap Flagless # {}
<1>1. IsFrame(f) /\ IsCall(c) /\ AwaitsEach(f, c)
  BY DEF Expects, Awaits
<1>2. /\ f.todo \in Seq(DOMAIN E) /\ c.loc >= Base(f.loc) /\ c.end = f.call.end
      /\ f.call.e \in Flagless => c.loc > f.loc \/ c.e \in Flagless \/ Range(f.todo) \cap Flagless # {}
  BY <1>1, Zenon DEF AwaitsEach
<1>3. c.loc \in Nat /\ f.loc \in Nat /\ c.end \in Nat
  BY <1>1, FrameNumbers, CallNumbers
<1>4. o.loc \in Base(c.loc) .. c.end + 1 /\ (c.e \in Flagless => o.loc > c.loc)
  BY Zenon DEF Answers, Matches
<1>5. Base(c.loc) \in Nat
  BY <1>3, BaseFacts
<1>6. o.loc \in Nat /\ o.loc >= Base(c.loc) /\ o.loc <= c.end + 1
  BY <1>3, <1>4, <1>5
<1>7. o.loc >= Base(f.loc)
  BY <1>2, <1>3, <1>6, BaseTransitive
<1>8. ASSUME f.call.e \in Flagless, Range(f.todo) \cap Flagless = {} PROVE o.loc > f.loc
  <2>1. Base(f.loc) = f.loc /\ Base(c.loc) = c.loc
    BY <1>8, FlaglessFacts, Zenon
  <2>2. c.loc > f.loc \/ (c.e \in Flagless /\ c.loc >= f.loc)
    BY <1>2, <1>8, <2>1
  <2>3. o.loc >= c.loc
    BY <1>6, <2>1
  <2>4. c.e \in Flagless => o.loc > c.loc
    BY <1>4
  <2> QED BY <1>3, <1>6, <2>2, <2>3, <2>4
<1> QED BY <1>2, <1>6, <1>7, <1>8, Zenon

LEMMA EachGoes ==
  ASSUME GrammarOK, NEW f, IsFrame(f), Elem(f).cls = "Each", f.phase = "impl", NEW o, Resumes(f, o)
  PROVE  GoesOn(f, EachImpl(f, o))
<1> DEFINE range == Base(f.call.loc) .. f.call.end + 1
<1>0. /\ Elem(f).cls \in Counted /\ IsCall(f.call) /\ f.loc \in range /\ f.pos \in range
      /\ f.pos \in 0 .. Len(instring) + 1
  <2>1. f.pos \in 0 .. Len(instring) + 1
    BY FrameNumbers
  <2> QED BY <2>1, Zenon DEF Counted, IsFrame
<1>1. CASE f.i = 0
  <2>1. IsRound(f, EachStart(f))
    BY <1>0, EachStartIsRound
  <2>2. GoesOn(f, EachRound(f, EachStart(f), f.loc))
    BY <1>0, <2>1, EachRoundGoes
  <2> QED BY <1>1, <2>2, Zenon DEF EachImpl
<1>2. CASE f.i # 0
  <2>1. PICK c : IsOutcome(o) /\ Expects(f, c) /\ Answers(c, o)
    BY <1>0, <1>2, AwaitedCalled
  <2>2. IsCall(c) /\ AwaitsEach(f, c)
    BY <2>1 DEF Expects, Awaits
  <2>3. CASE f.i = 2
    <3>1. CASE o.ok
      <4>1. /\ f.todo \in Seq(DOMAIN E)
            /\ o.loc \in Nat /\ o.loc >= Base(f.loc) /\ o.loc <= f.call.end + 1
            /\ f.call.e \in Flagless => o.loc > f.loc \/ Range(f.todo) \cap Flagless # {}
        BY <2>1, <2>3, <3>1, EachAnswer
      <4>2. \A toks : GoesOn(f, EachParse(f, f.todo, toks, o.loc))
        BY <4>1, EachParseGoes
      <4> QED BY <1>2, <2>3, <3>1, <4>2, Zenon DEF EachImpl
    <3>2. CASE ~o.ok
      <4>1. Results(f, o)
        BY <2>1, <3>2, FailureResults
      <4> QED BY <1>2, <2>3, <3>2, <4>1, GoDone, Zenon DEF EachImpl
    <3> QED BY <3>1, <3>2
  <2>4. CASE f.i = 1
    <3> DEFINE tried == Tried(o, f.pos)  r == f.todo  found == EachFound(f, r, r.exprs[r.i])
               missed == [r EXCEPT !.failed = @ + 1]
    <3>1. IsOutcome(tried) /\ tried.ok = o.ok /\ (o.ok => tried = o)
      BY <1>0, <2>1, TriedOutcome
    <3>2. /\ IsRound(f, r) /\ r.i > 0 /\ c.loc = f.pos /\ c.end = f.call.end
      BY <2>2, <2>4, Zenon DEF AwaitsEach
    <3>3. r.exprs[r.i] \in DOMAIN E
      <4>1. r.exprs \in Seq(DOMAIN E) /\ r.i \in 0 .. Len(r.exprs) /\ r.i > 0
        BY <3>2, Zenon DEF IsRound
      <4> QED BY <4>1
    <3>4. EachImpl(f, o) =
            IF tried.ok THEN EachRound(f, found, tried.loc)
            ELSE IF tried.exc = "ParseException" THEN EachRound(f, missed, f.pos)
            ELSE Done(tried)
      <4>1. ~(f.i = 0) /\ ~(f.i = 2)
        BY <2>4
      <4> QED BY <4>1, Zenon DEF EachImpl
    <3>5. IsRound(f, found)
      BY <1>0, <3>2, <3>3, EachFoundIsRound
    <3>6. IsRound(f, missed)
      <4>1. /\ missed.reqd = r.reqd /\ missed.opt = r.opt /\ missed.order = r.order
            /\ missed.exprs = r.exprs /\ missed.i = r.i /\ DOMAIN missed = DOMAIN r
            /\ missed.failed = r.failed + 1
        BY <3>2 DEF IsRound
      <4>2. missed.failed \in Nat
        <5>1. r.failed \in Nat
          BY <3>2, Zenon DEF IsRound
        <5> HIDE DEF r, missed
        <5> QED BY <4>1, <5>1
      <4> HIDE DEF missed, r
      <4> QED BY <3>2, <4>1, <4>2, Zenon DEF IsRound
    <3>7. tried.ok => tried.loc \in range
      <4>1. SUFFICES ASSUME tried.ok PROVE o.loc \in range
        BY <3>1, Zenon
      <4>2. o.ok /\ o.loc \in Base(c.loc) .. c.end + 1
        BY <2>1, <3>1, <4>1, Zenon DEF Answers, Matches
      <4>3. /\ c.loc \in Nat /\ c.loc >= Base(f.call.loc) /\ f.call.loc \in Nat /\ f.call.end \in Nat
            /\ Base(f.call.loc) \in Nat
        BY <3>2, FrameNumbers
      <4>4. Base(c.loc) \in Nat
        BY <4>3, BaseFacts
      <4>5. o.loc \in Nat /\ o.loc >= Base(c.loc) /\ o.loc <= f.call.end + 1
        BY <3>2, <4>2, <4>3, <4>4
      <4>6. o.loc >= Base(f.call.loc)
        BY <4>3, <4>5, BaseTransitive
      <4> QED BY <4>3, <4>5, <4>6
    <3> HIDE DEF tried, found, missed
    <3>8. tried.ok => GoesOn(f, EachRound(f, found, tried.loc))
      BY <3>5, <3>7, EachRoundGoes
    <3>9. GoesOn(f, EachRound(f, missed, f.pos))
      BY <1>0, <3>6, EachRoundGoes
    <3>10. ~tried.ok => Results(f, tried)
      BY <3>1, FailureResults
    <3> QED BY <3>4, <3>8, <3>9, <3>10, GoDone, Zenon
  <2>5. f.i \in {1, 2}
    BY <2>2, Zenon DEF AwaitsEach
  <2> QED BY <2>3, <2>4, <2>5, Zenon
<1> QED BY <1>1, <1>2

(***************************************************************************)
(* PrecededBy                                                              *)
(***************************************************************************)
LEMMA MinOfTwo ==
  ASSUME NEW a \in Nat, NEW b \in Nat
  PROVE  Min({a, b}) \in Nat /\ Min({a, b}) <= a /\ Min({a, b}) <= b /\ (Min({a, b}) = a \/ Min({a, b}) = b)
<1> DEFINE S == {a, b}  m == Min(S)
<1>1. S \subseteq Nat /\ S # {}
  OBVIOUS
<1>2. m \in S /\ \A y \in S : m <= y
  <2> HIDE DEF S
  <2> QED BY <1>1, MinOf
<1> QED BY <1>2

(* A frame of PrecededBy that makes the call c.                            *)
LEMMA LooksBack ==
  ASSUME GrammarOK, NEW f, IsFrame(f), Elem(f).cls = "PrecededBy", f.phase = "impl", NEW n \in Nat \ {0},
         NEW c, IsCall(c)
  PROVE  Expects([f EXCEPT !.i = n], c)
<1> DEFINE g == [f EXCEPT !.i = n]
<1>1. /\ SameFrame(f, g) /\ g.i = n /\ g.pos = f.pos /\ g.farthest = f.farthest
      /\ g.phase = "impl" /\ g.call = f.call
  BY DEF IsFrame, Fields, SameFrame
<1> HIDE DEF g
<1>2. g.pos \in Base(f.call.loc) .. f.call.end + 1 /\ (g.farthest = NoOutcome \/ IsFailure(g.farthest))
  BY <1>1, Zenon DEF IsFrame
<1>3. IsFrame(g) /\ Called(g) /\ Elem(g) = Elem(f)
  BY <1>1, <1>2, ImplFrame DEF Counted
<1>4. ActsFor(g, c.act)
  BY <1>3, Zenon DEF ActsFor, Restarts
<1>5. Awaits(g, c)
  BY <1>1, <1>3 DEF Awaits, Parting, Enhanced, Multiple
<1> QED BY <1>3, <1>4, <1>5, Zenon DEF Expects, g

LEMMA RetreatInside ==
  ASSUME NEW loc \in Nat, NEW retreat \in Nat, NEW end \in Nat, loc <= end + 1, ~(loc < retreat)
  PROVE  loc - retreat \in 0 .. end + 1
OBVIOUS

LEMMA PrecededByGoes ==
  ASSUME GrammarOK, NEW f, IsFrame(f), Elem(f).cls = "PrecededBy", f.phase = "impl",
         NEW o, Resumes(f, o)
  PROVE  GoesOn(f, PrecededByImpl(f, o))
<1> DEFINE arg == Elem(f).arg  next == f.i + 1  end == Min({f.loc, f.call.end})
           front == [f EXCEPT !.i = 1]  g == [f EXCEPT !.i = next]
           ahead == Parse(front, Part(f, 1), f.loc - arg.max, TRUE, TRUE)
           back  == [Parse(g, arg.id, f.loc - next, TRUE, TRUE) EXCEPT !.call.end = Min({f.loc, @})]
<1>0. /\ Elem(f).cls \in Counted /\ IsCall(f.call) /\ f.call.e \notin Flagless /\ f.i \in Nat
      /\ f.loc \in Nat /\ f.call.end \in Nat /\ f.loc <= f.call.end + 1 /\ f.call.end <= Len(instring)
      /\ Len(instring) \in Nat /\ f.loc \in 0 .. Len(instring) + 1
      /\ DOMAIN E = 1 .. Len(E) /\ Len(E) \in Nat
  <2>1. Elem(f).cls \in Lookaround /\ Elem(f).cls \in Counted
    BY DEF Lookaround, Counted
  <2> QED BY <2>1, FrameHere, FrameNumbers, NotFlagless DEF GrammarOK
<1>1. /\ arg.max \in Nat /\ arg.flag \in BOOLEAN /\ arg.id \in 0 .. Len(E) /\ (arg.flag \/ arg.id # 0)
  BY <1>0, ArgFacts
<1>2. Part(f, 1) \in DOMAIN E
  BY <1>0, OnePart DEF Lookaround
<1> HIDE DEF arg
<1>3. f.i > 0 => IsOutcome(o)
  BY <1>0, AwaitedCalled
<1>4. Results(f, Ok(f.loc, <<>>)) /\ Results(f, ParseException(f.loc))
  BY <1>0, HereResults, ExceptionResults
<1>5. f.i > 0 /\ ~o.ok => Results(f, o)
  BY <1>3, FailureResults
<1>6. ~(f.loc < arg.max) => GoesOn(f, ahead)
  <2> SUFFICES ASSUME ~(f.loc < arg.max) PROVE GoesOn(f, ahead)
    OBVIOUS
  <2> DEFINE c == Call(Part(f, 1), f.loc - arg.max, TRUE, TRUE, f.call.end)
  <2>1. f.loc - arg.max \in 0 .. f.call.end + 1 /\ f.call.end \in 0 .. Len(instring)
    <3>1. f.loc - arg.max \in 0 .. f.call.end + 1
      BY <1>0, <1>1, RetreatInside, Zenon
    <3> QED BY <1>0, <3>1
  <2>2. /\ DOMAIN c = {"e", "loc", "act", "pre", "end"} /\ c.e = Part(f, 1) /\ c.loc = f.loc - arg.max
        /\ c.end = f.call.end
    BY DEF Call
  <2> HIDE DEF c
  <2>3. IsCall(c)
    BY <1>2, <2>1, <2>2, Zenon DEF IsCall
  <2>4. Expects(front, c)
    BY <2>3, LooksBack
  <2>5. ahead.do = "call" /\ ahead.frame = front /\ ahead.call = c /\ front.call = f.call
        /\ front.phase = f.phase /\ f.phase # "preParse only"
    BY DEF Parse, c, IsFrame, Fields
  <2> HIDE DEF ahead, front
  <2> QED BY <2>4, <2>5, Zenon DEF GoesOn
<1>7. ~arg.flag /\ next < Min({f.loc, arg.max + 1}) => GoesOn(f, back)
  <2> SUFFICES ASSUME ~arg.flag, next < Min({f.loc, arg.max + 1}) PROVE GoesOn(f, back)
    OBVIOUS
  <2> DEFINE c == [Call(arg.id, f.loc - next, TRUE, TRUE, f.call.end) EXCEPT !.end = end]
  <2>1. next <= f.loc
    <3>1. arg.max + 1 \in Nat
      BY <1>1
    <3>2. Min({f.loc, arg.max + 1}) \in Nat /\ Min({f.loc, arg.max + 1}) <= f.loc
      BY <1>0, <3>1, MinOfTwo
    <3> QED BY <1>0, <3>2
  <2>2. end \in Nat /\ end <= f.call.end /\ (end = f.loc \/ end = f.call.end)
    BY <1>0, MinOfTwo
  <2> HIDE DEF end
  <2>3. f.loc - next \in 0 .. end + 1 /\ end \in 0 .. Len(instring)
    <3>1. next \in Nat /\ next >= 1
      BY <1>0
    <3> HIDE DEF next
    <3>2. f.loc - next \in Nat /\ f.loc - next <= end + 1
      BY <1>0, <2>1, <2>2, <3>1
    <3> QED BY <1>0, <2>2, <3>2
  <2>4. arg.id \in DOMAIN E
    BY <1>0, <1>1
  <2>5. /\ DOMAIN c = {"e", "loc", "act", "pre", "end"} /\ c.e = arg.id /\ c.loc = f.loc - next
        /\ c.end = end
    BY DEF Call
  <2>6. back.do = "call" /\ back.frame = g /\ back.call = c /\ g.call = f.call
        /\ g.phase = f.phase /\ f.phase # "preParse only"
    BY DEF Parse, Call, IsFrame, Fields, end
  <2> HIDE DEF c, back
  <2>7. IsCall(c)
    BY <2>3, <2>4, <2>5, Zenon DEF IsCall
  <2>8. next \in Nat \ {0}
    BY <1>0
  <2>9. Expects(g, c)
    BY <2>7, <2>8, LooksBack
  <2> HIDE DEF g
  <2> QED BY <2>6, <2>9, Zenon DEF GoesOn
<1>8. PrecededByImpl(f, o) =
        IF f.i > 0 /\ o.ok THEN Done(Ok(f.loc, <<>>))
        ELSE IF f.i > 0 /\ (arg.flag \/ ~BaseException(o)) THEN Done(o)
        ELSE IF arg.flag THEN IF f.loc < arg.max THEN Done(ParseException(f.loc)) ELSE ahead
        ELSE IF next < Min({f.loc, arg.max + 1}) THEN back
        ELSE Done(IF f.i = 0 THEN ParseException(f.loc) ELSE o)
  BY Zenon DEF PrecededByImpl, arg
<1> HIDE DEF ahead, back, next
<1>9. f.i = 0 \/ f.i > 0
  BY <1>0
<1>10. GoesOn(f, Done(Ok(f.loc, <<>>))) /\ GoesOn(f, Done(ParseException(f.loc)))
  BY <1>4, GoDone, Zenon
<1>11. f.i > 0 /\ ~o.ok => GoesOn(f, Done(o))
  BY <1>5, GoDone, Zenon
<1> QED BY <1>6, <1>7, <1>8, <1>9, <1>10, <1>11, Zenon

(***************************************************************************)
(* Ignorables                                                              *)
(***************************************************************************)
IgnorableAnswer(f, o) ==
  f.i # 0 => /\ f.i \in DOMAIN Elem(f).ignoreExprs /\ IsOutcome(o)
             /\ o.ok => o.loc \in Base(f.pos) .. f.call.end + 1

Skips(f, g) ==
  /\ DOMAIN g = Fields /\ g.call = f.call /\ g.phase = f.phase /\ g.loc = f.loc /\ g.last = f.last
  /\ g.todo = f.todo /\ g.farthest = f.farthest
  /\ g.pos \in Base(f.pos) .. f.call.end + 1

Ignores(f, o, d) ==
  \/ /\ d.do = "call" /\ Skips(f, d.frame) /\ d.frame.i # 0 /\ IsCall(d.call)
     /\ AwaitsIgnorable(d.frame, d.call)
  \/ d.do = "skipped" /\ Skips(f, d.frame) /\ d.frame.i = 0
  \/ d.do = "return" /\ d.out = o /\ IsOutcome(o) /\ ~o.ok /\ ~d.ran

LEMMA SkipsIsFrame ==
  ASSUME GrammarOK, NEW f, IsFrame(f), NEW g, Skips(f, g), g.i \in Nat
  PROVE  IsFrame(g) /\ Elem(g) = Elem(f) /\ g.pos \in Nat /\ g.pos >= Base(f.pos)
<1>1. /\ f.pos \in Nat /\ f.pos >= Base(f.call.loc) /\ f.call.loc \in Nat /\ f.call.end \in Nat
      /\ Base(f.call.loc) \in Nat
  BY FrameNumbers
<1>2. Base(f.pos) \in Nat
  BY <1>1, BaseFacts
<1>3. g.pos \in Nat /\ g.pos >= Base(f.pos) /\ g.pos <= f.call.end + 1
  BY <1>1, <1>2 DEF Skips
<1>4. g.pos >= Base(f.call.loc)
  BY <1>1, <1>3, BaseTransitive
<1>5. g.pos \in Base(f.call.loc) .. f.call.end + 1
  BY <1>1, <1>3, <1>4
<1>6. Elem(g) = Elem(f)
  BY Zenon DEF Elem, Skips
<1>7. /\ DOMAIN g = Fields /\ g.call = f.call /\ g.phase = f.phase /\ g.loc = f.loc /\ g.last = f.last
      /\ g.farthest = f.farthest
  BY Zenon DEF Skips
<1>8. IsFrame(g)
  BY <1>5, <1>6, <1>7, Zenon DEF IsFrame
<1> QED BY <1>3, <1>6, <1>8

(* The call of the ignorable i.                                            *)
LEMMA IgnoreGoes ==
  ASSUME GrammarOK, NEW f, IsFrame(f), NEW g, Skips(f, g), NEW i \in DOMAIN Elem(f).ignoreExprs, NEW o
  PROVE  Ignores(f, o, Parse([g EXCEPT !.i = i], Elem(f).ignoreExprs[i], g.pos, TRUE, TRUE))
<1> DEFINE x == Elem(f).ignoreExprs[i]  h == [g EXCEPT !.i = i]
           c == Call(x, g.pos, TRUE, TRUE, f.call.end)  d == Parse(h, x, g.pos, TRUE, TRUE)
<1>1. /\ IsCall(f.call) /\ x \in DOMAIN E /\ i \in Nat /\ i # 0 /\ f.call.end \in 0 .. Len(instring)
      /\ f.pos \in Nat /\ f.call.end \in Nat
  <2>1. IsCall(f.call)
    BY FrameHere
  <2>2. x \in DOMAIN E /\ i \in Nat /\ i # 0
    BY <2>1, IgnorableIsElement, ElemFacts
  <2>3. f.call.end \in 0 .. Len(instring)
    BY <2>1, Zenon DEF IsCall
  <2> QED BY <2>1, <2>2, <2>3, FrameNumbers
<1>2. g.pos \in 0 .. f.call.end + 1
  <2>1. Base(f.pos) \in Nat
    BY <1>1, BaseFacts
  <2> QED BY <1>1, <2>1 DEF Skips
<1> HIDE DEF x
<1>3. Skips(f, h) /\ h.i = i /\ h.pos = g.pos /\ h.call = f.call
  <2>1. /\ DOMAIN h = DOMAIN g /\ h.call = g.call /\ h.phase = g.phase /\ h.loc = g.loc
        /\ h.last = g.last /\ h.todo = g.todo /\ h.farthest = g.farthest /\ h.pos = g.pos /\ h.i = i
    BY DEF Skips, Fields
  <2> HIDE DEF h
  <2> QED BY <2>1, Zenon DEF Skips
<1>4. /\ DOMAIN c = {"e", "loc", "act", "pre", "end"} /\ c.e = x /\ c.loc = g.pos /\ c.end = f.call.end
  BY DEF Call
<1>5. d.do = "call" /\ d.frame = h /\ d.call = c
  <2> HIDE DEF h
  <2> QED BY <1>3 DEF Parse, Call
<1> HIDE DEF c, d, h
<1>6. IsCall(c)
  BY <1>1, <1>2, <1>4, Zenon DEF IsCall
<1>7. AwaitsIgnorable(h, c)
  BY <1>3, <1>4, Zenon DEF AwaitsIgnorable, x, Elem
<1>8. Ignores(f, o, d)
  BY <1>1, <1>3, <1>5, <1>6, <1>7, Zenon DEF Ignores
<1> QED BY <1>8, Zenon DEF d, h, x

LEMMA SkipIgnorablesGoes ==
  ASSUME GrammarOK, NEW f, IsFrame(f), NEW o, IgnorableAnswer(f, o)
  PROVE  Ignores(f, o, SkipIgnorables(f, o))
<1> DEFINE n == Len(Elem(f).ignoreExprs)
           after == [f EXCEPT !.pos = o.loc, !.found = TRUE]
           once == [f EXCEPT !.found = FALSE]
           Ignore(g, i) == Parse([g EXCEPT !.i = i], Elem(f).ignoreExprs[i], g.pos, TRUE, TRUE)
<1>0. /\ IsCall(f.call) /\ n \in Nat /\ DOMAIN Elem(f).ignoreExprs = 1 .. n /\ f.i \in Nat
      /\ f.pos \in Nat /\ f.call.end \in Nat /\ f.pos <= f.call.end + 1 /\ DOMAIN f = Fields
  <2>1. IsCall(f.call) /\ DOMAIN f = Fields
    BY Zenon, FrameHere DEF IsFrame
  <2> QED BY <2>1, ElemFacts, FrameNumbers
<1>1. f.pos \in Base(f.pos) .. f.call.end + 1
  <2>1. Base(f.pos) \in Nat /\ Base(f.pos) <= f.pos
    BY <1>0, BaseFacts, Zenon
  <2> HIDE DEF n
  <2> QED BY <1>0, <2>1
<1>2. Skips(f, f)
  BY <1>0, <1>1, Zenon DEF Skips
<1>3. Skips(f, once)
  <2>1. /\ DOMAIN once = DOMAIN f /\ once.call = f.call /\ once.phase = f.phase /\ once.loc = f.loc
        /\ once.last = f.last /\ once.todo = f.todo /\ once.farthest = f.farthest /\ once.pos = f.pos
    BY <1>0 DEF Fields
  <2> HIDE DEF once
  <2> QED BY <1>0, <1>1, <2>1, Zenon DEF Skips
<1>4. ASSUME f.i # 0, o.ok PROVE Skips(f, after)
  <2>1. /\ DOMAIN after = DOMAIN f /\ after.call = f.call /\ after.phase = f.phase /\ after.loc = f.loc
        /\ after.last = f.last /\ after.todo = f.todo /\ after.farthest = f.farthest
        /\ after.pos = o.loc
    BY <1>0 DEF Fields
  <2>2. o.loc \in Base(f.pos) .. f.call.end + 1
    BY <1>4, Zenon DEF IgnorableAnswer
  <2> HIDE DEF after
  <2> QED BY <1>0, <2>1, <2>2, Zenon DEF Skips
<1>5. Ignores(f, o, Skipped(f))
  <2> DEFINE h == [f EXCEPT !.i = 0, !.found = FALSE]
  <2>1. /\ DOMAIN h = DOMAIN f /\ h.call = f.call /\ h.phase = f.phase /\ h.loc = f.loc
        /\ h.last = f.last /\ h.todo = f.todo /\ h.farthest = f.farthest /\ h.pos = f.pos /\ h.i = 0
    BY <1>0 DEF Fields
  <2>2. Skipped(f).do = "skipped" /\ Skipped(f).frame = h
    BY DEF Skipped
  <2> HIDE DEF h
  <2>3. Skips(f, h)
    BY <1>0, <1>1, <2>1, Zenon DEF Skips
  <2> QED BY <2>1, <2>2, <2>3, Zenon DEF Ignores
<1>6. \A i \in 1 .. n : Ignores(f, o, Ignore(f, i)) /\ Ignores(f, o, Ignore(once, i))
  <2> HIDE DEF once
  <2> QED BY <1>0, <1>2, <1>3, IgnoreGoes
<1>7. ASSUME f.i # 0, o.ok PROVE Ignores(f, o, Ignore(after, f.i))
  <2>1. f.i \in DOMAIN Elem(f).ignoreExprs
    BY <1>7, Zenon DEF IgnorableAnswer
  <2> HIDE DEF after
  <2> QED BY <1>4, <1>7, <2>1, IgnoreGoes
<1>8. ASSUME f.i # 0, ~o.ok PROVE Ignores(f, o, Done(o))
  <2>1. IsOutcome(o)
    BY <1>8, Zenon DEF IgnorableAnswer
  <2>2. Done(o).do = "return" /\ Done(o).out = o /\ ~Done(o).ran
    BY DEF Done
  <2> QED BY <1>8, <2>1, <2>2, Zenon DEF Ignores
<1>9. SkipIgnorables(f, o) =
        IF f.i = 0 THEN IF n = 0 THEN Skipped(f) ELSE Ignore(f, 1)
        ELSE IF o.ok THEN Ignore(after, f.i)
        ELSE IF o.exc # "ParseException" THEN Done(o)
        ELSE IF f.i < n THEN Ignore(f, f.i + 1)
        ELSE IF f.found THEN Ignore(once, 1)
        ELSE Skipped(f)
  BY Zenon DEF SkipIgnorables
<1> HIDE DEF Ignore, after, once
<1>10. /\ n # 0 => 1 \in 1 .. n
       /\ f.i < n => f.i + 1 \in 1 .. n
       /\ f.i # 0 => f.i \in 1 .. n /\ n # 0
  <2>1. f.i # 0 => f.i \in 1 .. n
    BY <1>0 DEF IgnorableAnswer
  <2> QED BY <1>0, <2>1
<1> QED BY <1>5, <1>6, <1>7, <1>8, <1>9, <1>10, Zenon

(***************************************************************************)
(* OneOrMore and ZeroOrMore                                                *)
(***************************************************************************)
LEMMA SameGoes ==
  ASSUME NEW f, NEW g, g.call = f.call, g.loc = f.loc, NEW d, GoesOn(g, d)
  PROVE  GoesOn(f, d)
BY Zenon DEF GoesOn, Results

(* What a repetition knows between its calls.                              *)
Repeating(f) ==
  /\ IsFrame(f) /\ Elem(f).cls \in Multiple
  /\ f.last >= Base(f.loc) /\ f.pos >= Base(f.last)
  /\ FirstTime(f) => f.last = f.loc /\ f.pos = f.loc
  /\ ~FirstTime(f) /\ f.call.e \in Flagless => f.last > f.loc

(* The same but for the phase.                                             *)
InPhase(f, h, phase) ==
  /\ h.phase = phase /\ h.call = f.call /\ h.loc = f.loc /\ h.last = f.last /\ h.pos = f.pos
  /\ h.i = f.i /\ h.todo = f.todo /\ h.toks = f.toks /\ Elem(h) = Elem(f)

LEMMA RepeatFrame ==
  ASSUME NEW f, Repeating(f), NEW phase \in {"ender", "ignore", "expr"}
  PROVE  LET h == [f EXCEPT !.phase = phase]
         IN  Repeating(h) /\ InPhase(f, h, phase)
<1> DEFINE h == [f EXCEPT !.phase = phase]
<1>1. IsFrame(f) /\ Elem(f).cls \in Multiple
  BY Zenon DEF Repeating
<1>2. DOMAIN f = Fields
  BY <1>1, Zenon DEF IsFrame
<1>3. /\ h.phase = phase /\ h.call = f.call /\ h.loc = f.loc /\ h.last = f.last /\ h.pos = f.pos
      /\ h.i = f.i /\ h.todo = f.todo /\ h.toks = f.toks /\ h.farthest = f.farthest /\ DOMAIN h = Fields
  BY <1>2 DEF Fields
<1> HIDE DEF h
<1>4. Elem(h) = Elem(f)
  BY <1>3, Zenon DEF Elem
<1>5. h.phase \in {"preParse", "preParse only"} \cup Phases(Elem(h).cls)
  BY <1>1, <1>3, <1>4 DEF Phases, Multiple
<1>6. IsFrame(h)
  BY <1>1, <1>3, <1>4, <1>5, Zenon DEF IsFrame
<1>7. Repeating(h)
  BY <1>3, <1>4, <1>6, Zenon DEF Repeating, FirstTime
<1> QED BY <1>3, <1>4, <1>7, Zenon DEF InPhase, h

LEMMA RepeatGoes ==
  ASSUME GrammarOK, NEW f, Repeating(f), f.i = 0, NEW loc \in Nat, loc >= Base(f.last),
         loc <= f.call.end + 1, NEW pre
  PROVE  GoesOn(f, Repeat(f, loc, pre))
<1> DEFINE h == [f EXCEPT !.phase = "expr"]
<1>1. Repeating(h) /\ InPhase(f, h, "expr")
  BY RepeatFrame
<1>2. IsFrame(f) /\ Elem(f).cls \in Multiple /\ IsCall(f.call)
  BY Zenon DEF Repeating, IsFrame
<1>3. Part(f, 1) \in DOMAIN E
  BY <1>2, OnePart
<1> HIDE DEF h
<1>4. /\ IsFrame(h) /\ h.phase = "expr" /\ h.call = f.call /\ h.i = 0 /\ Elem(h) = Elem(f)
      /\ h.last = f.last
  BY <1>1, Zenon DEF Repeating, InPhase
<1>5. Called(h)
  BY <1>2, <1>4 DEF Called, Multiple, Tokens
<1>6. ActsFor(h, f.call.act)
  <2>1. LetsAct(h)
    BY <1>2, <1>4 DEF LetsAct, ActsAhead, Committed, Multiple
  <2> QED BY <1>4, <2>1, Zenon DEF ActsFor
<1>7. ASSUME NEW act PROVE Awaits(h, Call(Part(f, 1), loc, act, pre, f.call.end))
  <2> DEFINE c == Call(Part(f, 1), loc, act, pre, f.call.end)
  <2>1. c.e = Part(f, 1) /\ c.loc = loc /\ c.end = f.call.end
    BY DEF Call
  <2> HIDE DEF c
  <2>2. Part(h, 1) = Part(f, 1)
    BY <1>4, Zenon DEF Part
  <2>3. h.phase # "ignore"
    BY <1>4
  <2>4. c.loc >= Base(h.last)
    BY <1>4, <2>1
  <2>5. AwaitsMultiple(h, c)
    BY <1>1, <1>4, <2>1, <2>2, <2>3, <2>4, Zenon DEF AwaitsMultiple, Repeating
  <2>6. Awaits(h, c)
    BY <1>2, <1>4, <2>5 DEF Awaits, Parting, Enhanced, Multiple
  <2> QED BY <2>6 DEF c
<1>8. loc \in 0 .. f.call.end + 1
  BY <1>2, FrameNumbers
<1>9. GoesOn(f, Parse(h, Part(f, 1), loc, f.call.act, pre))
  BY <1>3, <1>4, <1>5, <1>6, <1>7, <1>8, GoParse
<1> QED BY <1>9, Zenon DEF Repeat, h

LEMMA EndsGoes ==
  ASSUME GrammarOK, NEW f, Repeating(f), NEW o, IsOutcome(o), ~o.ok
  PROVE  GoesOn(f, EndsRepetition(f, o))
<1>1. IsFrame(f) /\ Elem(f).cls \in Multiple /\ IsCall(f.call)
  BY Zenon DEF Repeating, IsFrame
<1>2. GoesOn(f, Done(o))
  BY FailureResults, GoDone
<1>3. ~FirstTime(f) => \A toks : GoesOn(f, Done(Ok(f.last, toks)))
  <2> SUFFICES ASSUME ~FirstTime(f) PROVE \A toks : GoesOn(f, Done(Ok(f.last, toks)))
    OBVIOUS
  <2>1. f.last \in Nat /\ f.loc \in Nat /\ f.last >= Base(f.loc) /\ f.last <= f.call.end + 1
    BY <1>1, FrameNumbers DEF Repeating
  <2>2. f.call.e \in Flagless => f.last > f.loc
    BY DEF Repeating
  <2>3. \A toks : Results(f, Ok(f.last, toks))
    BY <1>1, <2>1, <2>2, OkResults
  <2> QED BY <2>3, GoDone, Zenon
<1>4. Elem(f).cls = "ZeroOrMore" => GoesOn(f, Done(Ok(f.loc, <<>>)))
  <2> SUFFICES ASSUME Elem(f).cls = "ZeroOrMore" PROVE GoesOn(f, Done(Ok(f.loc, <<>>)))
    OBVIOUS
  <2>1. f.call.e \notin Flagless
    BY NotFlagless
  <2>2. Results(f, Ok(f.loc, <<>>))
    BY <1>1, <2>1, HereResults
  <2> QED BY <2>2, GoDone, Zenon
<1> QED BY <1>2, <1>3, <1>4, Zenon DEF EndsRepetition

LEMMA BeforeNextGoes ==
  ASSUME GrammarOK, NEW f, Repeating(f), ~FirstTime(f), NEW o, IgnorableAnswer(f, o)
  PROVE  GoesOn(f, BeforeNext(f, o))
<1> DEFINE h == [f EXCEPT !.phase = "ignore"]  d == SkipIgnorables(h, o)
<1>1. Repeating(h) /\ InPhase(f, h, "ignore")
  BY RepeatFrame
<1>2. IsFrame(f) /\ Elem(f).cls \in Multiple /\ IsCall(f.call)
  BY Zenon DEF Repeating, IsFrame
<1> HIDE DEF h
<1>3. IgnorableAnswer(h, o)
  BY <1>1, Zenon DEF IgnorableAnswer, InPhase
<1>4. IsFrame(h) /\ Elem(h) = Elem(f) /\ h.call = f.call /\ h.loc = f.loc
  BY <1>1, Zenon DEF Repeating, InPhase
<1>5. Ignores(h, o, d)
  BY <1>3, <1>4, SkipIgnorablesGoes
<1>6. BeforeNext(f, o) = CASE d.do = "skipped" -> Repeat(d.frame, d.frame.pos, TRUE)
                           [] d.do = "return"  -> EndsRepetition(f, d.out)
                           [] d.do = "call"    -> d
  BY Zenon DEF BeforeNext, h
<1> HIDE DEF d
<1>7. ASSUME NEW g, Skips(h, g), g.i \in Nat
      PROVE  /\ Repeating(g) /\ g.call = f.call /\ g.loc = f.loc /\ ~FirstTime(g) /\ g.phase = "ignore"
             /\ g.pos \in Nat /\ g.pos >= Base(g.last) /\ g.pos <= f.call.end + 1
  <2>1. /\ IsFrame(g) /\ Elem(g) = Elem(h) /\ g.pos \in Nat /\ g.pos >= Base(h.pos)
    BY <1>4, <1>7, SkipsIsFrame
  <2>2. /\ g.call = f.call /\ g.loc = f.loc /\ g.last = f.last /\ g.todo = f.todo /\ h.pos = f.pos
        /\ g.phase = "ignore" /\ h.call = f.call
    BY <1>1, <1>7, Zenon DEF Skips, InPhase
  <2>3. f.pos \in Nat /\ f.last \in Nat /\ f.pos >= Base(f.last)
    BY <1>2, FrameNumbers DEF Repeating
  <2>4. g.pos >= Base(f.last)
    BY <2>1, <2>2, <2>3, BaseTransitive
  <2>5. ~FirstTime(g)
    BY <2>2, Zenon DEF FirstTime
  <2>6. f.last >= Base(f.loc) /\ (f.call.e \in Flagless => f.last > f.loc)
    BY DEF Repeating
  <2>7. Repeating(g)
    <3>1. Elem(g).cls \in Multiple
      BY <1>2, <1>4, <2>1
    <3>2. g.last >= Base(g.loc) /\ g.pos >= Base(g.last) /\ (g.call.e \in Flagless => g.last > g.loc)
      BY <2>2, <2>4, <2>6
    <3> QED BY <2>1, <2>5, <3>1, <3>2, Zenon DEF Repeating
  <2>8. g.pos <= f.call.end + 1
    BY <2>1, <2>2, FrameNumbers
  <2> QED BY <2>1, <2>2, <2>4, <2>5, <2>7, <2>8
<1>8. CASE d.do = "skipped"
  <2>1. Skips(h, d.frame) /\ d.frame.i = 0 /\ d.frame.i \in Nat
    BY <1>5, <1>8 DEF Ignores
  <2> DEFINE g == d.frame
  <2>2. /\ Repeating(g) /\ g.call = f.call /\ g.loc = f.loc
        /\ g.pos \in Nat /\ g.pos >= Base(g.last) /\ g.pos <= g.call.end + 1
    BY <1>7, <2>1
  <2>3. GoesOn(g, Repeat(g, g.pos, TRUE))
    <3> HIDE DEF g
    <3>1. g.i = 0
      BY <2>1 DEF g
    <3> QED BY <2>2, <3>1, RepeatGoes
  <2>4. BeforeNext(f, o) = Repeat(g, g.pos, TRUE)
    BY <1>6, <1>8, Zenon
  <2> HIDE DEF g
  <2>5. GoesOn(f, Repeat(g, g.pos, TRUE))
    BY <2>2, <2>3, SameGoes
  <2> QED BY <2>4, <2>5, Zenon
<1>9. CASE d.do = "return"
  <2>1. d.out = o /\ IsOutcome(o) /\ ~o.ok
    BY <1>5, <1>9 DEF Ignores
  <2>2. BeforeNext(f, o) = EndsRepetition(f, o)
    BY <1>6, <1>9, <2>1
  <2> QED BY <2>1, <2>2, EndsGoes, Zenon
<1>10. CASE d.do = "call"
  <2>1. Skips(h, d.frame) /\ d.frame.i # 0 /\ IsCall(d.call) /\ AwaitsIgnorable(d.frame, d.call)
    BY <1>5, <1>10 DEF Ignores
  <2>2. BeforeNext(f, o) = d
    BY <1>6, <1>10
  <2> DEFINE g == d.frame  c == d.call
  <2> HIDE DEF g, c
  <2>3. Skips(h, g) /\ g.i # 0 /\ IsCall(c) /\ AwaitsIgnorable(g, c)
    BY <2>1 DEF g, c
  <2>4. g.i \in Nat
    <3>1. Elem(g) = Elem(h)
      BY <2>3, Zenon DEF Skips, Elem
    <3>2. g.i \in DOMAIN Elem(f).ignoreExprs
      BY <1>4, <2>3, <3>1, Zenon DEF AwaitsIgnorable
    <3> QED BY <1>2, <3>2, ElemFacts
  <2>5. Repeating(g) /\ g.call = f.call /\ ~FirstTime(g) /\ g.phase = "ignore"
    BY <1>7, <2>3, <2>4
  <2>6. IsFrame(g) /\ Elem(g).cls \in Multiple
    BY <2>5, Zenon DEF Repeating
  <2>7. Called(g)
    BY <2>3, <2>4, <2>5, <2>6 DEF Called, Multiple, Tokens
  <2>8. ActsFor(g, c.act)
    BY <2>5, <2>6, Zenon DEF ActsFor, Restarts
  <2>9. AwaitsMultiple(g, c)
    <3>1. c.end = g.call.end
      BY <2>3, Zenon DEF AwaitsIgnorable
    <3> QED BY <2>3, <2>5, <3>1, Zenon DEF AwaitsMultiple, Repeating
  <2>10. Awaits(g, c)
    BY <2>5, <2>6, <2>9 DEF Awaits, Parting, Enhanced, Multiple
  <2>11. Expects(g, c)
    BY <2>3, <2>6, <2>7, <2>8, <2>10, Zenon DEF Expects
  <2> QED BY <1>10, <2>2, <2>5, <2>11, Zenon DEF GoesOn, g, c
<1> QED BY <1>5, <1>8, <1>9, <1>10, Zenon DEF Ignores

LEMMA WantedGoes ==
  ASSUME GrammarOK, NEW f, Repeating(f), f.i = 0
  PROVE  GoesOn(f, Wanted(f))
<1>1. CASE FirstTime(f)
  <2>1. f.last = f.loc /\ f.last >= Base(f.last)
    <3>1. f.last \in Nat
      BY FrameNumbers DEF Repeating
    <3> QED BY <1>1, <3>1, BaseFacts DEF Repeating
  <2>2. f.loc \in Nat /\ f.loc <= f.call.end + 1
    BY FrameNumbers DEF Repeating
  <2>3. GoesOn(f, Repeat(f, f.loc, FALSE))
    BY <2>1, <2>2, RepeatGoes
  <2> QED BY <1>1, <2>3, Zenon DEF Wanted
<1>2. CASE ~FirstTime(f)
  <2>1. IgnorableAnswer(f, NoOutcome)
    BY DEF IgnorableAnswer
  <2>2. GoesOn(f, BeforeNext(f, NoOutcome))
    BY <1>2, <2>1, BeforeNextGoes
  <2> QED BY <1>2, <2>2, Zenon DEF Wanted
<1> QED BY <1>1, <1>2

LEMMA CheckEnderGoes ==
  ASSUME GrammarOK, NEW f, Repeating(f), f.i = 0
  PROVE  GoesOn(f, CheckEnder(f))
<1> DEFINE h == [f EXCEPT !.phase = "ender"]  x == Elem(f).arg.id
<1>1. Repeating(h) /\ InPhase(f, h, "ender")
  BY RepeatFrame
<1>2. IsFrame(f) /\ Elem(f).cls \in Multiple /\ IsCall(f.call)
  BY Zenon DEF Repeating, IsFrame
<1>3. x \in 0 .. Len(E) /\ DOMAIN E = 1 .. Len(E) /\ Len(E) \in Nat
  BY <1>2, ArgFacts DEF GrammarOK
<1> HIDE DEF h, x
<1>4. CASE x = 0
  <2>1. GoesOn(f, Wanted(f))
    BY WantedGoes
  <2> QED BY <1>4, <2>1, Zenon DEF CheckEnder, x
<1>5. CASE x # 0
  <2>1. x \in DOMAIN E
    BY <1>3, <1>5
  <2>2. /\ IsFrame(h) /\ h.phase = "ender" /\ h.call = f.call /\ h.i = 0 /\ Elem(h) = Elem(f)
    BY <1>1, Zenon DEF Repeating, InPhase
  <2>3. Called(h) /\ ActsFor(h, FALSE)
    BY <1>2, <2>2 DEF Called, Multiple, Tokens, ActsFor
  <2>4. Awaits(h, Call(x, f.last, FALSE, TRUE, f.call.end))
    <3> DEFINE c == Call(x, f.last, FALSE, TRUE, f.call.end)
    <3>1. c.end = f.call.end
      BY DEF Call
    <3> HIDE DEF c
    <3>2. h.phase # "ignore" /\ h.phase # "expr"
      BY <2>2
    <3>3. AwaitsMultiple(h, c)
      BY <1>1, <2>2, <3>1, <3>2, Zenon DEF AwaitsMultiple, Repeating
    <3>4. Awaits(h, c)
      BY <1>2, <2>2, <3>3 DEF Awaits, Parting, Enhanced, Multiple
    <3> QED BY <3>4 DEF c
  <2>5. f.last \in 0 .. f.call.end + 1
    BY <1>2, FrameNumbers
  <2>6. GoesOn(f, Parse(h, x, f.last, FALSE, TRUE))
    BY <2>1, <2>2, <2>3, <2>4, <2>5, GoParse
  <2> QED BY <1>5, <2>6, Zenon DEF CheckEnder, Try, h, x
<1> QED BY <1>4, <1>5

(* The frame after a match of the part.                                    *)
LEMMA MatchedFrame ==
  ASSUME GrammarOK, NEW f, Repeating(f), f.i = 0, f.phase = "expr", NEW c, NEW o, Expects(f, c),
         Answers(c, o), o.ok
  PROVE  LET g == [f EXCEPT !.todo = <<"more">>, !.toks = @ \o o.toks,
                            !.last = o.loc, !.pos = o.loc]
         IN  Repeating(g) /\ g.i = 0 /\ g.call = f.call /\ g.loc = f.loc
<1> DEFINE toks == f.toks \o o.toks
           g == [f EXCEPT !.todo = <<"more">>, !.toks = toks, !.last = o.loc, !.pos = o.loc]
<1>1. IsFrame(f) /\ Elem(f).cls \in Multiple /\ IsCall(f.call) /\ IsCall(c)
  BY Zenon DEF Repeating, IsFrame, Expects
<1>2. AwaitsMultiple(f, c)
  BY <1>1 DEF Expects, Awaits, Parting, Enhanced, Multiple
<1>3. /\ c.e = Part(f, 1) /\ c.loc >= Base(f.last) /\ c.end = f.call.end /\ f.last >= Base(f.loc)
  BY <1>2 DEF AwaitsMultiple
<1>4. /\ c.loc \in Nat /\ f.last \in Nat /\ f.loc \in Nat /\ f.call.loc \in Nat
      /\ f.loc >= Base(f.call.loc) /\ f.call.end \in Nat /\ Base(f.call.loc) \in Nat
  BY <1>1, FrameNumbers, CallNumbers
<1>5. o.loc \in Base(c.loc) .. c.end + 1 /\ (c.e \in Flagless => o.loc > c.loc)
  BY Zenon DEF Answers, Matches
<1>6. Base(c.loc) \in Nat
  BY <1>4, BaseFacts
<1>7. o.loc \in Nat /\ o.loc >= Base(c.loc) /\ o.loc <= f.call.end + 1
  BY <1>3, <1>4, <1>5, <1>6
<1>8. o.loc >= Base(f.last)
  BY <1>3, <1>4, <1>7, BaseTransitive
<1>9. o.loc >= Base(f.loc)
  BY <1>3, <1>4, <1>7, <1>8, BaseTransitive
<1>10. o.loc >= Base(f.call.loc)
  BY <1>4, <1>7, <1>9, BaseTransitive
<1>11. o.loc >= Base(o.loc)
  BY <1>7, BaseFacts
<1>12. ASSUME f.call.e \in Flagless PROVE o.loc > f.loc
  <2>1. \A a : Base(a) = a
    BY <1>12, FlaglessFacts
  <2>2. Part(f, 1) \in Flagless
    <3>1. Nonempty(Flagless, Elem(f)) /\ 1 \in DOMAIN Elem(f).exprs
      BY <1>1, <1>12, FlaglessFacts, OnePart
    <3> QED BY <1>1, <3>1 DEF Nonempty, Elem, Part, Multiple, Enhanced
  <2>3. o.loc > c.loc /\ c.loc >= f.last /\ f.last >= f.loc
    BY <1>3, <1>5, <2>1, <2>2
  <2> QED BY <1>4, <1>7, <2>3
<1> HIDE DEF toks
<1>13. /\ DOMAIN g = Fields /\ g.call = f.call /\ g.phase = f.phase /\ g.loc = f.loc
       /\ g.last = o.loc /\ g.pos = o.loc /\ g.i = f.i /\ g.todo = <<"more">>
       /\ g.farthest = f.farthest
  <2>1. DOMAIN f = Fields
    BY <1>1, Zenon DEF IsFrame
  <2> QED BY <2>1 DEF Fields
<1> HIDE DEF g
<1>14. Elem(g) = Elem(f)
  BY <1>13, Zenon DEF Elem
<1>15. g.last \in Base(f.call.loc) .. f.call.end + 1
  BY <1>4, <1>7, <1>10, <1>13
<1>16. IsFrame(g)
  BY <1>1, <1>13, <1>14, <1>15, Zenon DEF IsFrame
<1>17. ~FirstTime(g)
  BY <1>13 DEF FirstTime
<1>18. Repeating(g)
  BY <1>1, <1>9, <1>11, <1>12, <1>13, <1>14, <1>16, <1>17, Zenon DEF Repeating
<1> QED BY <1>13, <1>18, Zenon DEF g, toks

LEMMA MultipleGoes ==
  ASSUME GrammarOK, NEW f, IsFrame(f), Elem(f).cls \in Multiple,
         f.phase \notin {"preParse", "preParse only"}, NEW o, Resumes(f, o)
  PROVE  GoesOn(f, MultipleImpl(f, o))
<1>0. /\ IsCall(f.call) /\ f.phase \in {"impl", "ender", "ignore", "expr"}
      /\ f.last \in 0 .. Len(instring) + 1
  <2>1. f.phase \in {"impl", "ender", "ignore", "expr"}
    BY DEF IsFrame, Phases, Multiple
  <2>2. f.last \in 0 .. Len(instring) + 1
    BY FrameInside, Zenon
  <2> QED BY <2>1, <2>2, FrameHere, Zenon
<1>1. ASSUME Begun(f) PROVE Repeating(f) /\ f.i = 0 /\ f.phase = "impl"
  <2>1. f.loc >= Base(f.loc) /\ FirstTime(f)
    BY <1>1, FrameNumbers, BaseFacts DEF Begun, FirstTime
  <2> QED BY <1>1, <2>1, Zenon DEF Begun, Repeating
<1>2. ASSUME NEW c, Expects(f, c), Answers(c, o)
      PROVE  /\ Repeating(f) /\ f.phase # "impl" /\ IsOutcome(o) /\ AwaitsMultiple(f, c)
             /\ f.phase # "ignore" => f.i = 0
  <2>1. Called(f) /\ AwaitsMultiple(f, c)
    BY <1>2 DEF Expects, Awaits, Multiple
  <2>2. f.phase # "impl"
    BY <1>0, <2>1 DEF Called, Multiple, Tokens
  <2>3. Repeating(f)
    BY <2>1, Zenon DEF AwaitsMultiple, Repeating
  <2> QED BY <1>2, <2>1, <2>2, <2>3, Zenon DEF Answers, AwaitsMultiple
<1>3. CASE f.phase = "impl"
  <2>1. Repeating(f) /\ f.i = 0
    BY <1>1, <1>2, <1>3, Zenon DEF Resumes
  <2>2. GoesOn(f, CheckEnder(f))
    BY <2>1, CheckEnderGoes
  <2>3. MultipleImpl(f, o) = CheckEnder(f)
    BY <1>3 DEF MultipleImpl
  <2> QED BY <2>2, <2>3, Zenon
<1>4. CASE f.phase # "impl"
  <2>1. PICK c : Expects(f, c) /\ Answers(c, o)
    BY <1>1, <1>4 DEF Resumes
  <2>2. /\ Repeating(f) /\ IsOutcome(o) /\ AwaitsMultiple(f, c)
        /\ f.phase # "ignore" => f.i = 0
    BY <1>2, <2>1
  <2>3. CASE f.phase = "ender"
    <3> DEFINE tried == Tried(o, f.last)
    <3>1. IsOutcome(tried)
      BY <1>0, <2>2, TriedOutcome
    <3>2. MultipleImpl(f, o) = IF tried.ok THEN Wanted(f) ELSE EndsRepetition(f, tried)
      BY <2>3 DEF MultipleImpl
    <3> HIDE DEF tried
    <3>3. GoesOn(f, Wanted(f))
      BY <2>2, <2>3, WantedGoes
    <3>4. ~tried.ok => GoesOn(f, EndsRepetition(f, tried))
      BY <2>2, <3>1, EndsGoes
    <3> QED BY <3>2, <3>3, <3>4, Zenon
  <2>4. CASE f.phase = "ignore"
    <3>1. ~FirstTime(f) /\ AwaitsIgnorable(f, c)
      BY <2>2, <2>4 DEF AwaitsMultiple
    <3>2. IgnorableAnswer(f, o)
      <4>1. f.i \in DOMAIN Elem(f).ignoreExprs /\ c.loc = f.pos /\ c.end = f.call.end
        BY <3>1, Zenon DEF AwaitsIgnorable
      <4>2. o.ok => o.loc \in Base(c.loc) .. c.end + 1
        BY <2>1, Zenon DEF Answers, Matches
      <4> QED BY <2>2, <4>1, <4>2, Zenon DEF IgnorableAnswer
    <3>3. MultipleImpl(f, o) = BeforeNext(f, o)
      BY <2>4 DEF MultipleImpl
    <3> QED BY <2>2, <3>1, <3>2, <3>3, BeforeNextGoes, Zenon
  <2>5. CASE f.phase = "expr"
    <3> DEFINE g == [f EXCEPT !.todo = <<"more">>, !.toks = @ \o o.toks,
                              !.last = o.loc, !.pos = o.loc]
    <3>1. MultipleImpl(f, o) = IF o.ok THEN CheckEnder(g) ELSE EndsRepetition(f, o)
      BY <2>5 DEF MultipleImpl
    <3>2. o.ok => Repeating(g) /\ g.i = 0 /\ g.call = f.call /\ g.loc = f.loc
      <4>1. Expects(f, c) /\ Answers(c, o) /\ Repeating(f) /\ f.i = 0
        BY <2>1, <2>2, <2>5
      <4> QED BY <2>5, <4>1, MatchedFrame
    <3> HIDE DEF g
    <3>3. o.ok => GoesOn(g, CheckEnder(g))
      BY <3>2, CheckEnderGoes
    <3>4. o.ok => GoesOn(f, CheckEnder(g))
      BY <3>2, <3>3, SameGoes
    <3>5. ~o.ok => GoesOn(f, EndsRepetition(f, o))
      BY <2>2, EndsGoes
    <3> QED BY <3>1, <3>4, <3>5, Zenon
  <2> QED BY <1>0, <1>4, <2>3, <2>4, <2>5
<1> QED BY <1>3, <1>4

(***************************************************************************)
(* SkipTo                                                                  *)
(***************************************************************************)
Seeking(f) == IsFrame(f) /\ Elem(f).cls = "SkipTo" /\ f.pos >= Base(f.loc)

SeekPhases == {"failOn", "ignore", "expr", "include"}

LEMMA SeekGoes ==
  ASSUME GrammarOK, NEW f, Seeking(f), NEW g, DOMAIN g = Fields, g.call = f.call, g.loc = f.loc,
         g.pos = f.pos, g.last = f.last, g.i = f.i, g.farthest = f.farthest,
         NEW phase \in SeekPhases, g.phase = phase, NEW e \in DOMAIN E, NEW act, NEW pre,
         act => f.call.act /\ phase = "include"
  PROVE  GoesOn(f, Parse(g, e, f.pos, act, pre))
<1>1. IsFrame(f) /\ Elem(f).cls = "SkipTo" /\ IsCall(f.call)
  BY Zenon DEF Seeking, IsFrame
<1>2. Elem(g) = Elem(f)
  BY Zenon DEF Elem
<1>3. g.phase \in {"preParse", "preParse only"} \cup Phases(Elem(g).cls)
  BY <1>1, <1>2 DEF Phases, SeekPhases, Multiple
<1>4. IsFrame(g)
  BY <1>1, <1>2, <1>3, Zenon DEF IsFrame
<1>5. Called(g)
  BY <1>1, <1>2 DEF Called, SeekPhases, Multiple, Tokens
<1>6. ActsFor(g, act)
  <2>1. phase = "include" => LetsAct(g)
    BY <1>1, <1>2 DEF LetsAct, ActsAhead, Committed
  <2> QED BY <2>1, Zenon DEF ActsFor
<1>7. Awaits(g, Call(e, f.pos, act, pre, f.call.end))
  <2> DEFINE c == Call(e, f.pos, act, pre, f.call.end)
  <2>1. c.loc = f.pos /\ c.end = f.call.end
    BY DEF Call
  <2> HIDE DEF c
  <2>2. AwaitsSkipTo(g, c)
    BY <2>1, Zenon DEF AwaitsSkipTo, Seeking
  <2>3. Awaits(g, c)
    BY <1>1, <1>2, <2>2 DEF Awaits, Parting, Enhanced, Multiple, SeekPhases
  <2> QED BY <2>3 DEF c
<1>8. f.pos \in 0 .. f.call.end + 1
  BY <1>1, FrameNumbers
<1>9. g.phase # "preParse only"
  BY DEF SeekPhases
<1> QED BY <1>4, <1>5, <1>6, <1>7, <1>8, <1>9, GoParse

LEMMA SeekFacts ==
  ASSUME GrammarOK, NEW f, Seeking(f)
  PROVE  /\ IsFrame(f) /\ IsCall(f.call) /\ DOMAIN f = Fields /\ Part(f, 1) \in DOMAIN E
         /\ Elem(f).arg.id # 0 => Elem(f).arg.id \in DOMAIN E
         /\ Elem(f).arg.id2 # 0 => Elem(f).arg.id2 \in DOMAIN E
         /\ f.call.e \notin Flagless
<1>1. IsFrame(f) /\ Elem(f).cls = "SkipTo" /\ IsCall(f.call) /\ DOMAIN f = Fields
  BY Zenon DEF Seeking, IsFrame
<1>2. Part(f, 1) \in DOMAIN E /\ f.call.e \notin Flagless
  BY <1>1, OnePart, NotFlagless
<1>3. /\ Elem(f).arg.id \in 0 .. Len(E) /\ Elem(f).arg.id2 \in 0 .. Len(E)
      /\ DOMAIN E = 1 .. Len(E) /\ Len(E) \in Nat
  BY <1>1, ArgFacts DEF GrammarOK
<1> DEFINE n == Len(E)  a == Elem(f).arg.id  b == Elem(f).arg.id2
<1>4. a # 0 => a \in 1 .. n
  <2> HIDE DEF n, a
  <2> QED BY <1>3 DEF n, a
<1>5. b # 0 => b \in 1 .. n
  <2> HIDE DEF n, b
  <2> QED BY <1>3 DEF n, b
<1> QED BY <1>1, <1>2, <1>3, <1>4, <1>5, Zenon

LEMMA SkipToFoundGoes ==
  ASSUME GrammarOK, NEW f, Seeking(f)
  PROVE  GoesOn(f, SkipToFound(f))
<1> DEFINE skiptext == <<Str(Cut(Text(f), f.loc, f.pos))>>
           g == [f EXCEPT !.phase = "include", !.toks = skiptext]
<1>1. /\ IsFrame(f) /\ IsCall(f.call) /\ DOMAIN f = Fields /\ Part(f, 1) \in DOMAIN E
      /\ f.call.e \notin Flagless
  BY SeekFacts
<1> HIDE DEF skiptext
<1>2. f.pos \in Nat /\ f.loc \in Nat /\ f.pos >= Base(f.loc) /\ f.pos <= f.call.end + 1
  BY <1>1, FrameNumbers DEF Seeking
<1>3. GoesOn(f, Done(Ok(f.pos, skiptext)))
  BY <1>1, <1>2, OkResults, GoDone
<1>4. /\ DOMAIN g = Fields /\ g.call = f.call /\ g.loc = f.loc /\ g.pos = f.pos /\ g.last = f.last
      /\ g.i = f.i /\ g.farthest = f.farthest /\ g.phase = "include"
  BY <1>1 DEF Fields
<1> HIDE DEF g
<1>5. "include" \in SeekPhases
  BY DEF SeekPhases
<1>6. GoesOn(f, Parse(g, Part(f, 1), f.pos, f.call.act, FALSE))
  BY <1>1, <1>4, <1>5, SeekGoes
<1> QED BY <1>3, <1>6, Zenon DEF SkipToFound, g, skiptext

(* The call of e at f.pos in a phase that only tries.                      *)
LEMMA SeekTries ==
  ASSUME GrammarOK, NEW f, Seeking(f), NEW phase \in SeekPhases, NEW e \in DOMAIN E, NEW pre
  PROVE  GoesOn(f, Parse([f EXCEPT !.phase = phase], e, f.pos, FALSE, pre))
<1> DEFINE g == [f EXCEPT !.phase = phase]
<1>1. DOMAIN f = Fields
  BY SeekFacts
<1>2. /\ DOMAIN g = Fields /\ g.call = f.call /\ g.loc = f.loc /\ g.pos = f.pos /\ g.last = f.last
      /\ g.i = f.i /\ g.farthest = f.farthest /\ g.phase = phase
  BY <1>1 DEF Fields
<1> HIDE DEF g
<1>3. GoesOn(f, Parse(g, e, f.pos, FALSE, pre))
  BY <1>2, SeekGoes
<1> QED BY <1>3, Zenon DEF g

LEMMA SkipToExprGoes ==
  ASSUME GrammarOK, NEW f, Seeking(f) PROVE GoesOn(f, SkipToExpr(f))
<1>1. Part(f, 1) \in DOMAIN E /\ "expr" \in SeekPhases
  BY SeekFacts DEF SeekPhases
<1> QED BY <1>1, SeekTries, Zenon DEF SkipToExpr

LEMMA SkipToIgnoreGoes ==
  ASSUME GrammarOK, NEW f, Seeking(f) PROVE GoesOn(f, SkipToIgnore(f))
<1>1. GoesOn(f, SkipToExpr(f))
  BY SkipToExprGoes
<1>2. "ignore" \in SeekPhases /\ (Elem(f).arg.id # 0 => Elem(f).arg.id \in DOMAIN E)
  BY SeekFacts DEF SeekPhases
<1>3. Elem(f).arg.id # 0 => GoesOn(f, Try([f EXCEPT !.phase = "ignore"], Elem(f).arg.id, f.pos))
  BY <1>2, SeekTries, Zenon DEF Try
<1> QED BY <1>1, <1>3, Zenon DEF SkipToIgnore

LEMMA SkipToAtGoes ==
  ASSUME GrammarOK, NEW f, Seeking(f) PROVE GoesOn(f, SkipToAt(f))
<1>1. GoesOn(f, SkipToIgnore(f))
  BY SkipToIgnoreGoes
<1>2. "failOn" \in SeekPhases /\ (Elem(f).arg.id2 # 0 => Elem(f).arg.id2 \in DOMAIN E) /\ IsFrame(f)
  BY SeekFacts DEF SeekPhases
<1>3. Elem(f).arg.id2 # 0 => GoesOn(f, Try([f EXCEPT !.phase = "failOn"], Elem(f).arg.id2, f.pos))
  BY <1>2, SeekTries, Zenon DEF Try
<1>4. GoesOn(f, Done(ParseException(f.loc)))
  BY <1>2, FrameHere, ExceptionResults, GoDone
<1> QED BY <1>1, <1>3, <1>4, Zenon DEF SkipToAt

(* SkipTo at another place.                                                *)
LEMMA SeekAt ==
  ASSUME GrammarOK, NEW f, Seeking(f), NEW pos \in Nat, pos >= Base(f.loc), pos <= f.call.end + 1
  PROVE  LET g == [f EXCEPT !.pos = pos] IN Seeking(g) /\ g.call = f.call /\ g.loc = f.loc
<1> DEFINE g == [f EXCEPT !.pos = pos]
<1>1. IsFrame(f) /\ DOMAIN f = Fields
  BY SeekFacts
<1>2. /\ f.loc \in Nat /\ f.call.loc \in Nat /\ f.loc >= Base(f.call.loc) /\ f.call.end \in Nat
      /\ Base(f.call.loc) \in Nat
  BY <1>1, FrameNumbers
<1>3. pos >= Base(f.call.loc)
  BY <1>2, BaseTransitive
<1>4. pos \in Base(f.call.loc) .. f.call.end + 1
  BY <1>2, <1>3
<1>5. /\ DOMAIN g = Fields /\ g.call = f.call /\ g.loc = f.loc /\ g.pos = pos /\ g.last = f.last
      /\ g.i = f.i /\ g.farthest = f.farthest /\ g.phase = f.phase
  BY <1>1 DEF Fields
<1> HIDE DEF g
<1>6. Elem(g) = Elem(f)
  BY <1>5, Zenon DEF Elem
<1>7. IsFrame(g)
  BY <1>1, <1>4, <1>5, <1>6, Zenon DEF IsFrame
<1>8. Seeking(g)
  BY <1>5, <1>6, <1>7, Zenon DEF Seeking
<1> QED BY <1>5, <1>8, Zenon DEF g

LEMMA InRange ==
  ASSUME NEW a \in Nat, NEW end \in Nat, NEW x \in a .. end + 1
  PROVE  x \in Nat /\ x >= a /\ x <= end + 1
OBVIOUS

(* The place after one: still there, or beyond the end.                    *)
LEMMA PlaceAfter ==
  ASSUME NEW a \in Nat, NEW b \in Nat, a >= b, NEW end \in Nat
  PROVE  a + 1 \in Nat /\ a + 1 >= b /\ (~(a + 1 <= end + 1) => a + 1 > end)
OBVIOUS

LEMMA SkipToGoes ==
  ASSUME GrammarOK, NEW f, IsFrame(f), Elem(f).cls = "SkipTo",
         f.phase \notin {"preParse", "preParse only"}, NEW o, Resumes(f, o)
  PROVE  GoesOn(f, SkipToImpl(f, o))
<1>0. /\ IsCall(f.call) /\ f.phase \in {"impl", "failOn", "ignore", "expr", "include"}
      /\ f.pos \in 0 .. Len(instring) + 1
  <2>1. f.phase \in {"impl", "failOn", "ignore", "expr", "include"}
    BY DEF IsFrame, Phases, Multiple
  <2> QED BY <2>1, FrameHere, FrameInside, Zenon
<1>1. ASSUME Begun(f) PROVE Seeking(f) /\ f.phase = "impl"
  <2>1. f.pos >= Base(f.loc)
    BY <1>1, FrameNumbers, BaseFacts DEF Begun
  <2> QED BY <1>1, <2>1, Zenon DEF Begun, Seeking
<1>2. ASSUME NEW c, Expects(f, c), Answers(c, o)
      PROVE  Seeking(f) /\ f.phase # "impl" /\ IsOutcome(o) /\ AwaitsSkipTo(f, c)
  <2>1. Called(f) /\ AwaitsSkipTo(f, c)
    BY <1>2 DEF Expects, Awaits
  <2>2. f.phase # "impl"
    BY <1>0, <2>1 DEF Called, Multiple, Tokens
  <2> QED BY <1>2, <2>1, <2>2, Zenon DEF Answers, AwaitsSkipTo, Seeking
<1>3. CASE f.phase = "impl"
  <2>1. Seeking(f)
    BY <1>1, <1>2, <1>3, Zenon DEF Resumes
  <2>2. GoesOn(f, SkipToAt(f))
    BY <2>1, SkipToAtGoes
  <2>3. SkipToImpl(f, o) = SkipToAt(f)
    BY <1>3 DEF SkipToImpl
  <2> QED BY <2>2, <2>3, Zenon
<1>4. CASE f.phase # "impl"
  <2>1. PICK c : Expects(f, c) /\ Answers(c, o)
    BY <1>1, <1>4 DEF Resumes
  <2> DEFINE tried == Tried(o, f.pos)
  <2>2. Seeking(f) /\ IsOutcome(o) /\ AwaitsSkipTo(f, c) /\ f.call.e \notin Flagless
    BY <1>2, <2>1, SeekFacts
  <2>3. IsOutcome(tried) /\ tried.ok = o.ok
    BY <1>0, <2>2, TriedOutcome
  <2>4. /\ f.pos \in Nat /\ f.loc \in Nat /\ f.call.end \in Nat /\ f.pos >= Base(f.loc)
        /\ f.pos <= f.call.end + 1 /\ Base(f.loc) \in Nat
    <3>1. Base(f.loc) \in Nat
      BY FrameNumbers, BaseFacts
    <3> QED BY <2>2, <3>1, FrameNumbers, Zenon DEF Seeking
  <2>5. o.ok => o.loc \in Nat /\ o.loc >= Base(f.loc) /\ o.loc <= f.call.end + 1
    <3> SUFFICES ASSUME o.ok PROVE o.loc \in Nat /\ o.loc >= Base(f.loc) /\ o.loc <= f.call.end + 1
      OBVIOUS
    <3>1. o.loc \in Base(f.pos) .. f.call.end + 1
      BY <2>1, <2>2, Zenon DEF Answers, Matches, AwaitsSkipTo
    <3>2. Base(f.pos) \in Nat
      BY <2>4, BaseFacts
    <3>3. o.loc \in Nat /\ o.loc >= Base(f.pos) /\ o.loc <= f.call.end + 1
      BY <2>4, <3>1, <3>2, InRange, Zenon
    <3> QED BY <2>4, <3>3, BaseTransitive, Zenon
  <2>6. ~o.ok => GoesOn(f, Done(o)) /\ GoesOn(f, Done(tried))
    BY <2>2, <2>3, FailureResults, GoDone
  <2>7. GoesOn(f, SkipToFound(f)) /\ GoesOn(f, SkipToIgnore(f)) /\ GoesOn(f, SkipToExpr(f))
    BY <2>2, SkipToFoundGoes, SkipToIgnoreGoes, SkipToExprGoes
  <2> HIDE DEF tried
  <2>8. CASE f.phase = "failOn"
    <3>1. SkipToImpl(f, o) = IF tried.ok THEN SkipToFound(f)
                             ELSE IF Missed(tried) THEN SkipToIgnore(f) ELSE Done(tried)
      BY <2>8 DEF SkipToImpl, tried
    <3> QED BY <2>3, <2>6, <2>7, <3>1, Zenon
  <2>9. CASE f.phase = "ignore"
    <3> DEFINE g == [f EXCEPT !.pos = o.loc]
    <3>1. SkipToImpl(f, o) = IF tried.ok THEN SkipToIgnore(g)
                             ELSE IF BaseException(tried) THEN SkipToExpr(f) ELSE Done(tried)
      BY <2>9 DEF SkipToImpl, tried
    <3>2. o.ok => Seeking(g) /\ g.call = f.call /\ g.loc = f.loc
      BY <2>2, <2>5, SeekAt
    <3> HIDE DEF g
    <3>3. o.ok => GoesOn(g, SkipToIgnore(g))
      BY <3>2, SkipToIgnoreGoes
    <3>4. o.ok => GoesOn(f, SkipToIgnore(g))
      BY <3>2, <3>3, SameGoes
    <3> QED BY <2>3, <2>6, <2>7, <3>1, <3>4, Zenon
  <2>10. CASE f.phase = "expr"
    <3> DEFINE pos == f.pos + 1  g == [f EXCEPT !.pos = pos]
    <3>1. SkipToImpl(f, o) = IF o.ok THEN SkipToFound(f)
                             ELSE IF Missed(o) THEN SkipToAt(g) ELSE Done(o)
      BY <2>10 DEF SkipToImpl
    <3>2. GoesOn(f, SkipToAt(g))
      <4>1. CASE pos <= f.call.end + 1
        <5>1. pos \in Nat /\ pos >= Base(f.loc)
          BY <2>4, PlaceAfter, Zenon
        <5> HIDE DEF pos
        <5>2. Seeking(g) /\ g.call = f.call /\ g.loc = f.loc
          BY <2>2, <4>1, <5>1, SeekAt
        <5> HIDE DEF g
        <5>3. GoesOn(g, SkipToAt(g))
          BY <5>2, SkipToAtGoes
        <5> QED BY <5>2, <5>3, SameGoes
      <4>2. CASE ~(pos <= f.call.end + 1)
        <5>1. g.pos > g.call.end /\ g.loc = f.loc
          <6>1. DOMAIN f = Fields
            BY Zenon DEF IsFrame
          <6>2. g.pos = pos /\ g.call = f.call /\ g.loc = f.loc
            BY <6>1 DEF Fields
          <6>3. pos > f.call.end
            BY <2>4, <4>2, PlaceAfter, Zenon
          <6> QED BY <6>2, <6>3, Zenon
        <5> HIDE DEF g, pos
        <5>2. SkipToAt(g) = Done(ParseException(f.loc))
          BY <5>1, Zenon DEF SkipToAt
        <5>3. GoesOn(f, Done(ParseException(f.loc)))
          BY FrameHere, ExceptionResults, GoDone
        <5> QED BY <5>2, <5>3, Zenon
      <4> QED BY <4>1, <4>2
    <3> HIDE DEF g
    <3> QED BY <2>6, <2>7, <3>1, <3>2, Zenon
  <2>11. CASE f.phase = "include"
    <3>1. SkipToImpl(f, o) = Done(IF o.ok THEN Ok(o.loc, f.toks \o o.toks) ELSE o)
      BY <2>11 DEF SkipToImpl
    <3>2. o.ok => \A toks : GoesOn(f, Done(Ok(o.loc, toks)))
      BY <1>0, <2>2, <2>4, <2>5, OkResults, GoDone
    <3> QED BY <2>6, <3>1, <3>2, Zenon
  <2> QED BY <1>0, <1>4, <2>8, <2>9, <2>10, <2>11
<1> QED BY <1>3, <1>4

(***************************************************************************)
(* The elements without parts                                              *)
(***************************************************************************)
(* Fails, or matches up to lo or beyond; n is the length of the string.    *)
TokenAnswer(o, lo, n) ==
  \/ o = IndexError
  \/ \E l \in 0 .. n + 1 : o = ParseException(l)
  \/ \E l \in lo .. n + 1, toks \in {o.toks} : o = Ok(l, toks)

LEMMA TokenMisses ==
  ASSUME NEW n, NEW lo, NEW l \in 0 .. n + 1
  PROVE  TokenAnswer(ParseException(l), lo, n)
BY Zenon DEF TokenAnswer

LEMMA TokenMatches ==
  ASSUME NEW n \in Nat, NEW lo \in Nat, NEW l \in Nat, l >= lo, l <= n + 1, NEW toks
  PROVE  TokenAnswer(Ok(l, toks), lo, n)
<1>1. l \in lo .. n + 1 /\ toks \in {Ok(l, toks).toks}
  BY DEF Ok
<1> QED BY <1>1, Zenon DEF TokenAnswer

LEMMA TokenFails ==
  ASSUME NEW n, NEW lo PROVE TokenAnswer(IndexError, lo, n)
BY Zenon DEF TokenAnswer

LEMMA TokenAnswerResults ==
  ASSUME GrammarOK, NEW f, IsFrame(f), NEW lo \in Nat, lo >= Base(f.loc),
         f.call.e \in Flagless => lo > f.loc, NEW o, TokenAnswer(o, lo, f.call.end)
  PROVE  Results(f, o)
<1>1. /\ f.call.end \in Nat /\ f.call.end <= Len(instring) /\ Len(instring) \in Nat /\ f.loc \in Nat
      /\ IsCall(f.call) /\ Base(f.loc) \in Nat
  BY FrameNumbers, FrameHere, BaseFacts
<1>2. CASE o = IndexError
  <2>1. 0 \in 0 .. Len(instring) + 1 /\ "IndexError" \in Exceptions \ {"none"}
    BY <1>1 DEF Exceptions
  <2>2. IsOutcome(Fail("IndexError", 0)) /\ ~Fail("IndexError", 0).ok
    BY <2>1, FailIsOutcome
  <2> QED BY <1>2, <2>2, FailureResults, Zenon DEF IndexError
<1>3. ASSUME NEW l \in 0 .. f.call.end + 1, o = ParseException(l) PROVE Results(f, o)
  <2>1. l \in 0 .. Len(instring) + 1
    BY <1>1
  <2> QED BY <1>3, <2>1, ExceptionResults
<1>4. ASSUME NEW l \in lo .. f.call.end + 1, NEW toks, o = Ok(l, toks) PROVE Results(f, o)
  <2>1. l \in Nat /\ l >= lo /\ l <= f.call.end + 1
    BY <1>1
  <2>2. l >= Base(f.loc) /\ (f.call.e \in Flagless => l > f.loc)
    BY <1>1, <2>1
  <2>3. Results(f, Ok(l, toks))
    BY <1>1, <2>1, <2>2, OkResults
  <2> QED BY <1>4, <2>3, Zenon
<1> QED BY <1>2, <1>3, <1>4, Zenon DEF TokenAnswer

(***************************************************************************)
(* Strings                                                                 *)
(***************************************************************************)
LEMMA CutFacts ==
  ASSUME NEW S, NEW s \in Seq(S), NEW from \in Nat, NEW to \in Nat
  PROVE  /\ Cut(s, from, to) \in Seq(S)
         /\ Cut(s, from, to) # <<>> => /\ Len(Cut(s, from, to)) + from <= to
                                       /\ Len(Cut(s, from, to)) + from <= Len(s)
         /\ from = 0 /\ to <= Len(s) => Len(Cut(s, from, to)) = to
<1> DEFINE m == Min({to, Len(s)})  t == SubSeq(s, from + 1, m)
<1>0. Len(s) \in Nat
  OBVIOUS
<1>1. m \in Nat /\ m <= to /\ m <= Len(s) /\ (m = to \/ m = Len(s))
  BY <1>0, MinOfTwo
<1> HIDE DEF m
<1>2. \A i \in from + 1 .. m : s[i] \in S
  BY <1>1
<1>3. t \in Seq(S) /\ Len(t) = (IF from + 1 <= m THEN m - from ELSE 0)
  <2>1. from + 1 \in Int /\ m \in Int
    BY <1>1
  <2>2. t \in Seq(S) /\ Len(t) = (IF from + 1 <= m THEN m - (from + 1) + 1 ELSE 0)
    BY <1>2, <2>1, SubSeqProperties
  <2>3. m - (from + 1) + 1 = m - from
    BY <1>1
  <2> QED BY <2>2, <2>3, Zenon
<1> HIDE DEF t
<1>4. t # <<>> => Len(t) # 0
  BY <1>3
<1>5. t # <<>> => Len(t) + from <= to /\ Len(t) + from <= Len(s)
  BY <1>0, <1>1, <1>3, <1>4
<1>6. from = 0 /\ to <= Len(s) => Len(t) = to
  BY <1>0, <1>1, <1>3
<1> QED BY <1>3, <1>5, <1>6, Zenon DEF Cut, t, m

LEMMA StartsInside ==
  ASSUME NEW S, NEW s \in Seq(S), NEW T, NEW match \in Seq(T), NEW loc \in Nat,
         loc <= Len(s) + 1, StartsWith(s, match, loc)
  PROVE  /\ loc + Len(match) \in Nat /\ loc + Len(match) >= loc /\ loc + Len(match) <= Len(s) + 1
         /\ match # <<>> => loc + Len(match) > loc
<1>1. Len(match) \in Nat /\ (match # <<>> => Len(match) > 0) /\ (match = <<>> => Len(match) = 0)
  OBVIOUS
<1>2. loc + Len(match) \in Nat
  BY <1>1
<1>3. Cut(s, loc, loc + Len(match)) = match
  BY Zenon DEF StartsWith
<1>4. match # <<>> => Len(match) + loc <= Len(s)
  BY <1>2, <1>3, CutFacts, Zenon
<1> QED BY <1>1, <1>2, <1>4

LEMMA UppersFacts ==
  ASSUME NEW S, NEW s \in Seq(S)
  PROVE  /\ \E T : Uppers(s) \in Seq(T)
         /\ Len(Uppers(s)) = Len(s) /\ (s # <<>> => Uppers(s) # <<>>)
<1> DEFINE u == [i \in 1 .. Len(s) |-> Upper(s[i])]  T == {Upper(s[i]) : i \in 1 .. Len(s)}
<1>1. u \in Seq(T) /\ Len(u) = Len(s)
  BY DEF Upper
<1>2. Uppers(s) = u
  BY DEF Uppers
<1>3. s # <<>> => Len(s) # 0
  OBVIOUS
<1> HIDE DEF u, T
<1>4. u = <<>> => Len(u) = 0
  OBVIOUS
<1> QED BY <1>1, <1>2, <1>3, <1>4, Zenon

LEMMA MaxOfTwo ==
  ASSUME NEW a \in Nat, NEW b \in Nat
  PROVE  Max({a, b}) \in Nat /\ Max({a, b}) >= a /\ (Max({a, b}) = a \/ Max({a, b}) = b)
<1>1. CASE a >= b
  <2>1. a \in {a, b} /\ \A y \in {a, b} : a >= y
    BY <1>1
  <2> QED BY <2>1 DEF Max
<1>2. CASE ~(a >= b)
  <2>1. b \in {a, b} /\ \A y \in {a, b} : b >= y
    BY <1>2
  <2> QED BY <2>1 DEF Max
<1> QED BY <1>1, <1>2

LEMMA RunEndFacts ==
  ASSUME NEW S, NEW s \in Seq(S), NEW loc \in Nat, loc <= Len(s), NEW set, NEW max \in Int,
         loc + max >= 0
  PROVE  RunEnd(s, loc, set, max) \in Nat /\ RunEnd(s, loc, set, max) >= loc
         /\ RunEnd(s, loc, set, max) <= Len(s)
<1> DEFINE top == Min({loc + max, Len(s)})
           stops == {k \in loc .. top - 1 : At(s, k) \notin set}
<1>1. Len(s) \in Nat /\ loc + max \in Nat
  OBVIOUS
<1>2. top \in Nat /\ top <= Len(s)
  BY <1>1, MinOfTwo
<1>3. RunEnd(s, loc, set, max) = IF stops = {} THEN Max({loc, top}) ELSE Min(stops)
  BY Zenon DEF RunEnd
<1> HIDE DEF top
<1>4. Max({loc, top}) \in Nat /\ Max({loc, top}) >= loc /\ Max({loc, top}) <= Len(s)
  <2>1. Max({loc, top}) \in Nat /\ Max({loc, top}) >= loc /\ (Max({loc, top}) = loc \/ Max({loc, top}) = top)
    BY <1>2, MaxOfTwo
  <2> QED BY <1>2, <2>1
<1>5. stops \subseteq Nat /\ \A k \in stops : k >= loc /\ k <= Len(s)
  BY <1>1, <1>2
<1> HIDE DEF stops
<1>6. stops # {} => Min(stops) \in stops
  BY <1>5, MinOf, Zenon
<1> QED BY <1>3, <1>4, <1>5, <1>6, Zenon

(***************************************************************************)
(* Each class without parts                                                *)
(***************************************************************************)
(* A match of the characters of match at loc.                              *)
LEMMA MatchAnswer ==
  ASSUME NEW S, NEW s \in Seq(S), NEW T, NEW match \in Seq(T), NEW loc \in Nat,
         loc <= Len(s) + 1, StartsWith(s, match, loc), NEW toks, NEW lo \in Nat,
         lo <= loc \/ (match # <<>> /\ lo <= loc + 1)
  PROVE  TokenAnswer(Ok(loc + Len(match), toks), lo, Len(s))
<1> DEFINE l == loc + Len(match)
<1>1. l \in Nat /\ l >= loc /\ l <= Len(s) + 1 /\ (match # <<>> => l > loc)
  BY StartsInside
<1> HIDE DEF l
<1>2. l >= lo /\ Len(s) \in Nat
  BY <1>1
<1>3. TokenAnswer(Ok(l, toks), lo, Len(s))
  BY <1>1, <1>2, TokenMatches
<1> QED BY <1>3, Zenon DEF l

LEMMA LiteralAnswer ==
  ASSUME NEW S, NEW s \in Seq(S), NEW e, NEW T, e.arg.match \in Seq(T), NEW loc \in Nat,
         loc <= Len(s) + 1, NEW lo \in Nat, lo <= loc \/ (e.arg.match # <<>> /\ lo <= loc + 1)
  PROVE  TokenAnswer(ParseLiteral(e, s, loc), lo, Len(s))
<1>1. loc \in 0 .. Len(s) + 1
  OBVIOUS
<1>2. StartsWith(s, e.arg.match, loc) =>
        TokenAnswer(Ok(loc + Len(e.arg.match), <<Str(e.arg.match)>>), lo, Len(s))
  BY MatchAnswer
<1>3. TokenAnswer(ParseException(loc), lo, Len(s)) /\ TokenAnswer(IndexError, lo, Len(s))
  BY <1>1, TokenMisses, TokenFails
<1> QED BY <1>2, <1>3, Zenon DEF ParseLiteral

LEMMA CaselessLiteralAnswer ==
  ASSUME NEW S, NEW s \in Seq(S), NEW e, NEW T, e.arg.match \in Seq(T), NEW loc \in Nat,
         loc <= Len(s) + 1, NEW lo \in Nat, lo <= loc \/ (e.arg.match # <<>> /\ lo <= loc + 1)
  PROVE  TokenAnswer(ParseCaselessLiteral(e, s, loc), lo, Len(s))
<1> DEFINE u == Uppers(s)
<1>1. loc \in 0 .. Len(s) + 1
  OBVIOUS
<1>2. PICK U : u \in Seq(U)
  BY UppersFacts
<1>3. Len(u) = Len(s)
  BY UppersFacts
<1>4. ParseCaselessLiteral(e, s, loc) =
        IF StartsWith(u, e.arg.match, loc) THEN Ok(loc + Len(e.arg.match), e.arg.default)
        ELSE ParseException(loc)
  BY Zenon DEF ParseCaselessLiteral
<1> HIDE DEF u
<1>5. StartsWith(u, e.arg.match, loc) =>
        TokenAnswer(Ok(loc + Len(e.arg.match), e.arg.default), lo, Len(u))
  BY <1>2, <1>3, MatchAnswer
<1>6. TokenAnswer(ParseException(loc), lo, Len(s))
  BY <1>1, TokenMisses
<1> QED BY <1>3, <1>4, <1>5, <1>6, Zenon

LEMMA KeywordAnswer ==
  ASSUME NEW S, NEW s \in Seq(S), NEW e, NEW T, e.arg.match \in Seq(T), NEW loc \in Nat,
         loc <= Len(s) + 1, NEW lo \in Nat, lo <= loc \/ (e.arg.match # <<>> /\ lo <= loc + 1)
  PROVE  TokenAnswer(ParseKeyword(e, s, loc), lo, Len(s))
<1> DEFINE text  == IF e.arg.caseless THEN Uppers(s) ELSE s
           match == IF e.arg.caseless THEN Uppers(e.arg.match) ELSE e.arg.match
           end   == loc + Len(match)
           toks  == <<Str(e.arg.match)>>
           holds == /\ StartsWith(text, match, loc) /\ EndsKeyword(text, end, e.arg.chars)
                    /\ (loc = 0 \/ At(text, loc - 1) \notin e.arg.chars)
<1>1. loc \in 0 .. Len(s) + 1
  OBVIOUS
<1>2. PICK U : Uppers(s) \in Seq(U)
  BY UppersFacts
<1>3. PICK V : Uppers(e.arg.match) \in Seq(V)
  BY UppersFacts
<1>4. (text \in Seq(U) \/ text \in Seq(S)) /\ Len(text) = Len(s)
  BY <1>2, UppersFacts
<1>5. (match \in Seq(V) \/ match \in Seq(T)) /\ (e.arg.match # <<>> => match # <<>>)
  BY <1>3, UppersFacts
<1>6. ParseKeyword(e, s, loc) =
        IF loc >= Len(s) /\ ~e.arg.caseless THEN IndexError
        ELSE IF holds THEN Ok(end, toks) ELSE ParseException(loc)
  BY Zenon DEF ParseKeyword
<1>7. holds => StartsWith(text, match, loc)
  OBVIOUS
<1> HIDE DEF text, match, holds, toks
<1>8. lo <= loc \/ (match # <<>> /\ lo <= loc + 1)
  BY <1>5
<1>9. holds => TokenAnswer(Ok(end, toks), lo, Len(text))
  BY <1>4, <1>5, <1>7, <1>8, MatchAnswer
<1>10. TokenAnswer(ParseException(loc), lo, Len(s)) /\ TokenAnswer(IndexError, lo, Len(s))
  BY <1>1, TokenMisses, TokenFails
<1> HIDE DEF end
<1> QED BY <1>4, <1>6, <1>9, <1>10, Zenon

LEMMA CaselessKeywordAnswer ==
  ASSUME NEW S, NEW s \in Seq(S), NEW e, NEW T, e.arg.match \in Seq(T), NEW loc \in Nat,
         loc <= Len(s) + 1, NEW lo \in Nat, lo <= loc \/ (e.arg.match # <<>> /\ lo <= loc + 1)
  PROVE  TokenAnswer(ParseCaselessKeyword(e, s, loc), lo, Len(s))
<1> DEFINE text  == Uppers(s)
           match == Uppers(e.arg.match)
           end   == loc + Len(e.arg.match)
           toks  == <<Str(e.arg.match)>>
           holds == StartsWith(text, match, loc) /\ EndsKeyword(text, end, e.arg.chars)
<1>1. loc \in 0 .. Len(s) + 1
  OBVIOUS
<1>2. PICK U : text \in Seq(U)
  BY UppersFacts
<1>3. PICK V : match \in Seq(V)
  BY UppersFacts
<1>4. Len(text) = Len(s) /\ Len(match) = Len(e.arg.match) /\ (e.arg.match # <<>> => match # <<>>)
  BY UppersFacts
<1>5. ParseCaselessKeyword(e, s, loc) = IF holds THEN Ok(end, toks) ELSE ParseException(loc)
  BY Zenon DEF ParseCaselessKeyword
<1>6. holds => StartsWith(text, match, loc)
  OBVIOUS
<1> HIDE DEF text, match, holds, toks
<1>7. lo <= loc \/ (match # <<>> /\ lo <= loc + 1)
  BY <1>4
<1>8. holds => TokenAnswer(Ok(loc + Len(match), toks), lo, Len(text))
  BY <1>2, <1>3, <1>4, <1>6, <1>7, MatchAnswer
<1>9. TokenAnswer(ParseException(loc), lo, Len(s))
  BY <1>1, TokenMisses
<1> QED BY <1>4, <1>5, <1>8, <1>9, Zenon

LEMMA CloseMatchAnswer ==
  ASSUME NEW S, NEW s \in Seq(S), NEW e, NEW T, e.arg.match \in Seq(T), NEW loc \in Nat,
         loc <= Len(s) + 1
  PROVE  TokenAnswer(ParseCloseMatch(e, s, loc), 0, Len(s))
<1> DEFINE n == Len(e.arg.match)  toks == <<Str(Cut(s, loc, n))>>
           mismatches == {k \in 1 .. n : s[loc + k] # e.arg.match[k]}
           holds == loc + n <= Len(s) /\ Cardinality(mismatches) <= e.arg.max
<1>1. loc \in 0 .. Len(s) + 1 /\ n \in Nat /\ Len(s) \in Nat
  OBVIOUS
<1>2. ParseCloseMatch(e, s, loc) = IF holds THEN Ok(n, toks) ELSE ParseException(loc)
  BY Zenon DEF ParseCloseMatch
<1>3. holds => n >= 0 /\ n <= Len(s) + 1
  BY <1>1
<1> HIDE DEF holds, n, toks
<1>4. holds => TokenAnswer(Ok(n, toks), 0, Len(s))
  BY <1>1, <1>3, TokenMatches
<1>5. TokenAnswer(ParseException(loc), 0, Len(s))
  BY <1>1, TokenMisses
<1> QED BY <1>2, <1>4, <1>5, Zenon

(* A run of characters takes one at least.                                 *)
LEMMA RunAnswer ==
  ASSUME NEW S, NEW s \in Seq(S), NEW loc \in Nat, loc < Len(s), NEW set, NEW max \in Nat,
         NEW toks, NEW lo \in Nat, lo <= loc + 1
  PROVE  LET end == RunEnd(s, loc + 1, set, max - 1)
         IN  TokenAnswer(ParseException(end), lo, Len(s)) /\ TokenAnswer(Ok(end, toks), lo, Len(s))
<1> DEFINE end == RunEnd(s, loc + 1, set, max - 1)
<1>1. loc + 1 \in Nat /\ loc + 1 <= Len(s) /\ max - 1 \in Int /\ (loc + 1) + (max - 1) >= 0 /\ Len(s) \in Nat
  OBVIOUS
<1>2. end \in Nat /\ end >= loc + 1 /\ end <= Len(s)
  BY <1>1, RunEndFacts
<1> HIDE DEF end
<1>3. end \in 0 .. Len(s) + 1 /\ end >= lo /\ end <= Len(s) + 1
  BY <1>1, <1>2
<1>4. TokenAnswer(ParseException(end), lo, Len(s)) /\ TokenAnswer(Ok(end, toks), lo, Len(s))
  BY <1>1, <1>2, <1>3, TokenMisses, TokenMatches
<1> QED BY <1>4, Zenon DEF end

LEMMA WordAnswer ==
  ASSUME NEW S, NEW s \in Seq(S), NEW e, e.arg.max \in Nat, NEW loc \in Nat,
         loc <= Len(s) + 1, NEW lo \in Nat, lo <= loc + 1
  PROVE  TokenAnswer(ParseWord(e, s, loc), lo, Len(s))
<1> DEFINE end == RunEnd(s, loc + 1, e.arg.body, e.arg.max - 1)
           toks == <<Str(Cut(s, loc, end))>>
<1>1. loc \in 0 .. Len(s) + 1 /\ Len(s) \in Nat
  OBVIOUS
<1>2. loc < Len(s) => TokenAnswer(ParseException(end), lo, Len(s)) /\ TokenAnswer(Ok(end, toks), lo, Len(s))
  BY RunAnswer, Zenon
<1>3. TokenAnswer(ParseException(loc), lo, Len(s)) /\ TokenAnswer(IndexError, lo, Len(s))
  BY <1>1, TokenMisses, TokenFails
<1>4. loc >= Len(s) \/ loc < Len(s)
  BY <1>1
<1> QED BY <1>2, <1>3, <1>4, Zenon DEF ParseWord

LEMMA CharactersAnswer ==
  ASSUME NEW S, NEW s \in Seq(S), NEW e, e.arg.max \in Nat, NEW loc \in Nat,
         loc <= Len(s) + 1, NEW lo \in Nat, lo <= loc + 1, NEW chars
  PROVE  TokenAnswer(ParseRun(e, s, loc, chars), lo, Len(s))
<1> DEFINE end == RunEnd(s, loc + 1, chars, e.arg.max - 1)
           toks == <<Str(Cut(s, loc, end))>>
<1>1. loc \in 0 .. Len(s) + 1 /\ Len(s) \in Nat
  OBVIOUS
<1>2. loc < Len(s) => TokenAnswer(ParseException(end), lo, Len(s)) /\ TokenAnswer(Ok(end, toks), lo, Len(s))
  BY RunAnswer, Zenon
<1>3. TokenAnswer(ParseException(loc), lo, Len(s)) /\ TokenAnswer(IndexError, lo, Len(s))
  BY <1>1, TokenMisses, TokenFails
<1>4. loc >= Len(s) \/ loc < Len(s)
  BY <1>1
<1> QED BY <1>2, <1>3, <1>4, Zenon DEF ParseRun

LEMMA RegexAnswer ==
  ASSUME NEW S, NEW s \in Seq(S), NEW e, NEW T, e.arg.default \in Seq(Seq(T)), NEW loc \in Nat,
         loc <= Len(s) + 1
  PROVE  TokenAnswer(ParseRegex(e, s, loc), loc, Len(s))
<1> DEFINE alternatives == e.arg.default
           matching == {i \in DOMAIN alternatives : StartsWith(s, alternatives[i], loc)}
           match == alternatives[Min(matching)]
<1>1. loc \in 0 .. Len(s) + 1 /\ Len(s) \in Nat /\ matching \subseteq Nat
  OBVIOUS
<1>2. ParseRegex(e, s, loc) = IF matching = {} THEN ParseException(loc)
                              ELSE Ok(loc + Len(match), <<Str(match)>>)
  BY Zenon DEF ParseRegex
<1>3. ASSUME matching # {} PROVE TokenAnswer(Ok(loc + Len(match), <<Str(match)>>), loc, Len(s))
  <2> DEFINE m == Min(matching)
  <2> HIDE DEF matching
  <2>1. m \in matching
    BY <1>1, <1>3, MinOf
  <2> HIDE DEF m
  <2> USE DEF matching
  <2>2. m \in DOMAIN alternatives /\ StartsWith(s, alternatives[m], loc)
    BY <2>1
  <2>3. alternatives[m] \in Seq(T)
    BY <2>2
  <2> DEFINE w == alternatives[m]
  <2>4. w \in Seq(T) /\ StartsWith(s, w, loc) /\ loc <= loc
    BY <2>2, <2>3
  <2> HIDE DEF w
  <2>5. TokenAnswer(Ok(loc + Len(w), <<Str(w)>>), loc, Len(s))
    BY <2>4, MatchAnswer
  <2> QED BY <2>5, Zenon DEF w, m
<1>4. TokenAnswer(ParseException(loc), loc, Len(s))
  BY <1>1, TokenMisses
<1> QED BY <1>2, <1>3, <1>4, Zenon

LEMMA PositionAnswers ==
  ASSUME NEW S, NEW s \in Seq(S), NEW e, NEW loc \in Nat, loc <= Len(s) + 1
  PROVE  /\ TokenAnswer(ParseLineStart(s, loc), loc, Len(s))
         /\ TokenAnswer(ParseLineEnd(s, loc), loc, Len(s))
         /\ TokenAnswer(ParseStringEnd(s, loc), loc, Len(s))
         /\ TokenAnswer(ParseWordStart(e, s, loc), loc, Len(s))
         /\ TokenAnswer(ParseWordEnd(e, s, loc), loc, Len(s))
<1>1. loc \in 0 .. Len(s) + 1 /\ Len(s) \in Nat /\ loc + 1 \in Nat /\ loc + 1 >= loc /\ loc >= loc
      /\ (loc < Len(s) => loc + 1 <= Len(s) + 1) /\ (loc = Len(s) => loc + 1 <= Len(s) + 1)
  OBVIOUS
<1>2. /\ TokenAnswer(ParseException(loc), loc, Len(s)) /\ TokenAnswer(IndexError, loc, Len(s))
      /\ \A toks : TokenAnswer(Ok(loc, toks), loc, Len(s))
  BY <1>1, TokenMisses, TokenFails, TokenMatches
<1>3. ~(loc > Len(s)) => \A toks : TokenAnswer(Ok(loc + 1, toks), loc, Len(s))
  BY <1>1, TokenMatches
<1>4. loc < Len(s) \/ loc = Len(s) => ~(loc > Len(s))
  BY <1>1
<1>5. TokenAnswer(ParseLineStart(s, loc), loc, Len(s))
  BY <1>2, Zenon DEF ParseLineStart
<1>6. TokenAnswer(ParseLineEnd(s, loc), loc, Len(s))
  BY <1>2, <1>3, <1>4, Zenon DEF ParseLineEnd
<1>7. TokenAnswer(ParseStringEnd(s, loc), loc, Len(s))
  BY <1>2, <1>3, <1>4, Zenon DEF ParseStringEnd
<1>8. TokenAnswer(ParseWordStart(e, s, loc), loc, Len(s))
  BY <1>2, Zenon DEF ParseWordStart
<1>9. TokenAnswer(ParseWordEnd(e, s, loc), loc, Len(s))
  BY <1>2, Zenon DEF ParseWordEnd
<1> QED BY <1>5, <1>6, <1>7, <1>8, <1>9

LEMMA TextFacts ==
  ASSUME GrammarOK, NEW f, IsFrame(f)
  PROVE  Len(Text(f)) = f.call.end /\ \E S : Text(f) \in Seq(S)
<1>1. PICK S : instring \in Seq(S)
  BY DEF GrammarOK
<1>2. f.call.end \in Nat /\ f.call.end <= Len(instring)
  BY FrameNumbers
<1> QED BY <1>1, <1>2, CutFacts DEF Text

(* Only a CloseMatch goes back, and no element that is not said to match   *)
(* the empty string is one.                                                *)
LEMMA CloseMatchGoesBack ==
  ASSUME GrammarOK, NEW f, IsFrame(f), Elem(f).cls = "CloseMatch"
  PROVE  Base(f.loc) = 0
<1>1. f.call.e \in DOMAIN E /\ E = Prepared[grammar].elements
  BY DEF IsFrame, IsCall, E
<1>2. Elem(f) \in Range(Prepared[grammar].elements)
  BY <1>1 DEF Elem, Range
<1>3. grammar \notin WithoutCloseMatch
  BY <1>2 DEF WithoutCloseMatch
<1> QED BY <1>3, Zenon DEF Base

LEMMA TokenResults ==
  ASSUME GrammarOK, NEW f, IsFrame(f), Elem(f).cls \in Tokens
  PROVE  Results(f, ParseToken(Elem(f), Text(f), f.loc))
<1> DEFINE e == Elem(f)  s == Text(f)  loc == f.loc  n == f.call.end
           o == ParseToken(e, s, loc)
<1>1. PICK S : s \in Seq(S)
  BY TextFacts
<1>2. Len(s) = n /\ loc \in Nat /\ n \in Nat /\ loc <= n + 1 /\ Base(loc) \in Nat /\ Base(loc) <= loc
  BY TextFacts, FrameNumbers, BaseFacts
<1>3. IsCall(f.call)
  BY FrameHere
<1>4. /\ e.arg.match \in Seq(STRING) /\ e.arg.max \in Nat
      /\ e.cls = "Regex" => e.arg.default \in Seq(Seq(STRING))
  BY <1>3, ArgFacts
<1>5. ASSUME f.call.e \in Flagless
      PROVE  /\ e.cls \in {"Literal", "Keyword", "CaselessLiteral", "CaselessKeyword",
                           "Word", "Char", "CharsNotIn"}
             /\ e.cls \in {"Literal", "Keyword", "CaselessLiteral", "CaselessKeyword"} =>
                  e.arg.match # <<>>
  <2>1. Nonempty(Flagless, Elem(f))
    BY <1>5, FlaglessFacts
  <2> QED BY <2>1 DEF Nonempty, Elem, Tokens, Enhanced
<1> DEFINE lo == IF f.call.e \in Flagless THEN loc + 1 ELSE loc
<1>6. /\ lo \in Nat /\ lo >= Base(loc) /\ (f.call.e \in Flagless => lo > loc) /\ lo <= loc + 1
      /\ f.call.e \notin Flagless => lo = loc
  BY <1>2
<1>7. TokenAnswer(o, lo, n) => Results(f, o)
  <2> HIDE DEF lo, o
  <2> QED BY <1>6, TokenAnswerResults
<1>8. e.cls \in {"Literal", "Keyword", "CaselessLiteral", "CaselessKeyword"} =>
        lo <= loc \/ (e.arg.match # <<>> /\ lo <= loc + 1)
  BY <1>2, <1>5, <1>6
<1>9. loc \in 0 .. n + 1 /\ loc <= Len(s) + 1 /\ loc >= loc /\ lo \in Nat
  BY <1>2, <1>6
<1> HIDE DEF e, s, loc, n, lo
<1>10. CASE e.cls \in {"Literal", "Keyword", "CaselessLiteral", "CaselessKeyword"}
  <2>0. lo <= loc \/ (e.arg.match # <<>> /\ lo <= loc + 1)
    BY <1>8, <1>10
  <2>1. /\ TokenAnswer(ParseLiteral(e, s, loc), lo, Len(s))
        /\ TokenAnswer(ParseKeyword(e, s, loc), lo, Len(s))
        /\ TokenAnswer(ParseCaselessLiteral(e, s, loc), lo, Len(s))
        /\ TokenAnswer(ParseCaselessKeyword(e, s, loc), lo, Len(s))
    BY <1>1, <1>2, <1>4, <1>9, <2>0, LiteralAnswer, KeywordAnswer, CaselessLiteralAnswer,
       CaselessKeywordAnswer
  <2>2. /\ e.cls = "Literal" => o = ParseLiteral(e, s, loc)
        /\ e.cls = "Keyword" => o = ParseKeyword(e, s, loc)
        /\ e.cls = "CaselessLiteral" => o = ParseCaselessLiteral(e, s, loc)
        /\ e.cls = "CaselessKeyword" => o = ParseCaselessKeyword(e, s, loc)
    BY DEF ParseToken
  <2> HIDE DEF o
  <2>3. TokenAnswer(o, lo, n)
    <3>1. e.cls = "Literal" => TokenAnswer(o, lo, n)
      BY <1>2, <2>1, <2>2, Zenon
    <3>2. e.cls = "Keyword" => TokenAnswer(o, lo, n)
      BY <1>2, <2>1, <2>2, Zenon
    <3>3. e.cls = "CaselessLiteral" => TokenAnswer(o, lo, n)
      BY <1>2, <2>1, <2>2, Zenon
    <3>4. e.cls = "CaselessKeyword" => TokenAnswer(o, lo, n)
      BY <1>2, <2>1, <2>2, Zenon
    <3> QED BY <1>10, <3>1, <3>2, <3>3, <3>4
  <2> QED BY <1>7, <2>3, Zenon DEF o, e, s, loc
<1>11. CASE e.cls \in {"Word", "Char", "CharsNotIn"}
  <2>1. /\ TokenAnswer(ParseWord(e, s, loc), lo, Len(s))
        /\ TokenAnswer(ParseCharsNotIn(e, s, loc), lo, Len(s))
    BY <1>1, <1>2, <1>4, <1>6, <1>9, WordAnswer, CharactersAnswer DEF ParseCharsNotIn
  <2>2. /\ e.cls \in {"Word", "Char"} => o = ParseWord(e, s, loc)
        /\ e.cls = "CharsNotIn" => o = ParseCharsNotIn(e, s, loc)
    BY DEF ParseToken
  <2> HIDE DEF o
  <2>3. TokenAnswer(o, lo, n)
    <3>1. e.cls \in {"Word", "Char"} => TokenAnswer(o, lo, n)
      BY <1>2, <2>1, <2>2, Zenon
    <3>2. e.cls = "CharsNotIn" => TokenAnswer(o, lo, n)
      BY <1>2, <2>1, <2>2, Zenon
    <3> QED BY <1>11, <3>1, <3>2
  <2> QED BY <1>7, <2>3, Zenon DEF o, e, s, loc
<1>12. CASE e.cls = "CloseMatch"
  <2>1. Base(f.loc) = 0 /\ f.call.e \notin Flagless
    BY <1>5, <1>12, CloseMatchGoesBack DEF e
  <2>2. TokenAnswer(ParseCloseMatch(e, s, loc), 0, Len(s))
    BY <1>1, <1>2, <1>4, <1>9, CloseMatchAnswer
  <2>3. o = ParseCloseMatch(e, s, loc)
    BY <1>12 DEF ParseToken
  <2> HIDE DEF o
  <2>4. TokenAnswer(o, 0, f.call.end)
    BY <1>2, <2>2, <2>3, Zenon DEF n
  <2>5. 0 \in Nat /\ 0 >= Base(f.loc)
    BY <2>1
  <2>6. Results(f, o)
    BY <2>1, <2>4, <2>5, TokenAnswerResults
  <2> QED BY <2>6, Zenon DEF o, e, s, loc
<1>13. CASE e.cls \in {"Empty", "ErrorStop", "NoMatch", "White", "Regex", "LineStart", "LineEnd",
                       "StringEnd", "WordStart", "WordEnd"}
  <2>0. lo = loc /\ loc <= loc + 1
    BY <1>5, <1>6, <1>13 DEF loc
  <2>1. TokenAnswer(Ok(loc, <<>>), loc, Len(s)) /\ TokenAnswer(ParseException(loc), loc, Len(s))
    BY <1>2, <1>9, TokenMatches, TokenMisses
  <2>2. TokenAnswer(ParseWhite(e, s, loc), loc, Len(s))
    BY <1>1, <1>2, <1>4, <1>9, <2>0, CharactersAnswer DEF ParseWhite
  <2>3. e.cls = "Regex" => TokenAnswer(ParseRegex(e, s, loc), loc, Len(s))
    BY <1>1, <1>2, <1>4, <1>9, RegexAnswer
  <2>4. /\ TokenAnswer(ParseLineStart(s, loc), loc, Len(s))
        /\ TokenAnswer(ParseLineEnd(s, loc), loc, Len(s))
        /\ TokenAnswer(ParseStringEnd(s, loc), loc, Len(s))
        /\ TokenAnswer(ParseWordStart(e, s, loc), loc, Len(s))
        /\ TokenAnswer(ParseWordEnd(e, s, loc), loc, Len(s))
    BY <1>1, <1>2, <1>9, PositionAnswers
  <2>5. /\ e.cls \in {"Empty", "ErrorStop"} => o = Ok(loc, <<>>)
        /\ e.cls = "NoMatch"   => o = ParseException(loc)
        /\ e.cls = "White"     => o = ParseWhite(e, s, loc)
        /\ e.cls = "Regex"     => o = ParseRegex(e, s, loc)
        /\ e.cls = "LineStart" => o = ParseLineStart(s, loc)
        /\ e.cls = "LineEnd"   => o = ParseLineEnd(s, loc)
        /\ e.cls = "StringEnd" => o = ParseStringEnd(s, loc)
        /\ e.cls = "WordStart" => o = ParseWordStart(e, s, loc)
        /\ e.cls = "WordEnd"   => o = ParseWordEnd(e, s, loc)
    BY DEF ParseToken
  <2> HIDE DEF o
  <2>6. TokenAnswer(o, loc, Len(s))
    <3>1. e.cls \in {"Empty", "ErrorStop"} => TokenAnswer(o, loc, Len(s))
      BY <2>1, <2>5, Zenon
    <3>2. e.cls \in {"NoMatch", "White", "Regex"} => TokenAnswer(o, loc, Len(s))
      BY <2>1, <2>2, <2>3, <2>5
    <3>3. e.cls \in {"LineStart", "LineEnd", "StringEnd"} => TokenAnswer(o, loc, Len(s))
      BY <2>4, <2>5
    <3>4. e.cls \in {"WordStart", "WordEnd"} => TokenAnswer(o, loc, Len(s))
      BY <2>4, <2>5
    <3> QED BY <1>13, <3>1, <3>2, <3>3, <3>4
  <2>7. TokenAnswer(o, lo, n)
    BY <1>2, <2>0, <2>6, Zenon
  <2> QED BY <1>7, <2>7, Zenon DEF o, e, s, loc
<1>14. e.cls \in Tokens
  BY DEF e
<1> QED BY <1>10, <1>11, <1>12, <1>13, <1>14 DEF Tokens

(***************************************************************************)
(* parseImpl                                                               *)
(***************************************************************************)
LEMMA ImplGoes ==
  ASSUME GrammarOK, NEW f, IsFrame(f), f.phase \notin {"preParse", "preParse only"},
         NEW o, Resumes(f, o)
  PROVE  GoesOn(f, Impl(f, o))
<1> DEFINE cls == Elem(f).cls  d == Impl(f, o)
<1>0. /\ cls \in Classes
      /\ cls \notin Multiple \cup {"SkipTo"} => f.phase = "impl"
  <2>1. IsCall(f.call)
    BY FrameHere
  <2>2. cls \in Classes
    BY <2>1, ElemFacts
  <2> QED BY <2>2 DEF IsFrame, Phases
<1>1. CASE cls \in Tokens
  <2>1. GoesOn(f, Done(ParseToken(Elem(f), Text(f), f.loc)))
    BY <1>1, TokenResults, GoDone
  <2>2. d = Done(ParseToken(Elem(f), Text(f), f.loc))
    BY <1>1 DEF Impl, Tokens, Enhanced, Multiple
  <2> QED BY <2>1, <2>2, Zenon
<1>2. CASE cls \in Enhanced
  <2>1. d = EnhanceImpl(f, o) /\ f.phase = "impl"
    BY <1>0, <1>2 DEF Impl, Tokens, Enhanced, Multiple
  <2> QED BY <1>2, <2>1, EnhanceGoes, Zenon
<1>3. CASE cls \in Multiple
  <2>1. d = MultipleImpl(f, o)
    BY <1>3 DEF Impl, Tokens, Enhanced, Multiple
  <2> QED BY <1>3, <2>1, MultipleGoes, Zenon
<1>4. CASE cls = "And"
  <2>1. d = AndImpl(f, o) /\ f.phase = "impl"
    BY <1>0, <1>4 DEF Impl, Tokens, Enhanced, Multiple
  <2> QED BY <1>4, <2>1, AndGoes, Zenon
<1>5. CASE cls = "Or"
  <2>1. d = OrImpl(f, o) /\ f.phase = "impl"
    BY <1>0, <1>5 DEF Impl, Tokens, Enhanced, Multiple
  <2> QED BY <1>5, <2>1, OrGoes, Zenon
<1>6. CASE cls = "MatchFirst"
  <2>1. d = MatchFirstImpl(f, o) /\ f.phase = "impl"
    BY <1>0, <1>6 DEF Impl, Tokens, Enhanced, Multiple
  <2> QED BY <1>6, <2>1, MatchFirstGoes, Zenon
<1>7. CASE cls = "Each"
  <2>1. d = EachImpl(f, o) /\ f.phase = "impl"
    BY <1>0, <1>7 DEF Impl, Tokens, Enhanced, Multiple
  <2> QED BY <1>7, <2>1, EachGoes, Zenon
<1>8. CASE cls \in {"FollowedBy", "_FB"}
  <2>1. d = FollowedByImpl(f, o) /\ f.phase = "impl"
    BY <1>0, <1>8 DEF Impl, Tokens, Enhanced, Multiple
  <2> QED BY <1>8, <2>1, FollowedByGoes, Zenon
<1>9. CASE cls = "PrecededBy"
  <2>1. d = PrecededByImpl(f, o) /\ f.phase = "impl"
    BY <1>0, <1>9 DEF Impl, Tokens, Enhanced, Multiple
  <2> QED BY <1>9, <2>1, PrecededByGoes, Zenon
<1>10. CASE cls = "NotAny"
  <2>1. d = NotAnyImpl(f, o) /\ f.phase = "impl"
    BY <1>0, <1>10 DEF Impl, Tokens, Enhanced, Multiple
  <2> QED BY <1>10, <2>1, NotAnyGoes, Zenon
<1>11. CASE cls = "Optional"
  <2>1. d = OptionalImpl(f, o) /\ f.phase = "impl"
    BY <1>0, <1>11 DEF Impl, Tokens, Enhanced, Multiple
  <2> QED BY <1>11, <2>1, OptionalGoes, Zenon
<1>12. CASE cls = "SkipTo"
  <2>1. d = SkipToImpl(f, o)
    BY <1>0, <1>12 DEF Impl, Tokens, Enhanced, Multiple
  <2> QED BY <1>12, <2>1, SkipToGoes, Zenon
<1> HIDE DEF cls, d
<1>13. \/ cls \in Tokens \/ cls \in Enhanced \/ cls \in Multiple
       \/ cls = "And" \/ cls = "Or" \/ cls = "MatchFirst" \/ cls = "Each"
       \/ cls \in {"FollowedBy", "_FB"} \/ cls = "PrecededBy" \/ cls = "NotAny"
       \/ cls = "Optional" \/ cls = "SkipTo"
  BY <1>0 DEF Classes, Lookaround, Listed
<1> QED BY <1>1, <1>2, <1>3, <1>4, <1>5, <1>6, <1>7, <1>8, <1>9, <1>10, <1>11, <1>12, <1>13, Zenon

(***************************************************************************)
(* _parseNoCache                                                           *)
(***************************************************************************)
LEMMA ResultsAnswer ==
  ASSUME GrammarOK, NEW f, IsFrame(f), NEW o, Results(f, o)
  PROVE  Answers(f.call, o)
<1>1. /\ f.loc \in Nat /\ f.call.loc \in Nat /\ f.call.end \in Nat /\ f.loc >= Base(f.call.loc)
      /\ Base(f.call.loc) \in Nat /\ Base(f.loc) \in Nat
  BY FrameNumbers, BaseFacts
<1>2. ASSUME o.ok PROVE Matches(f.call.e, f.call.loc, f.call.end, o.loc)
  <2>1. o.loc \in Base(f.loc) .. f.call.end + 1 /\ (f.call.e \in Flagless => o.loc > f.loc)
    BY <1>2, Zenon DEF Results, Matches
  <2>2. o.loc \in Nat /\ o.loc >= Base(f.loc) /\ o.loc <= f.call.end + 1
    BY <1>1, <2>1, InRange, Zenon
  <2>3. o.loc >= Base(f.call.loc)
    BY <1>1, <2>2, BaseTransitive
  <2>4. o.loc \in Base(f.call.loc) .. f.call.end + 1
    BY <1>1, <2>2, <2>3
  <2>5. ASSUME f.call.e \in Flagless PROVE o.loc > f.call.loc
    <3>1. Base(f.call.loc) = f.call.loc
      BY <2>5, FlaglessFacts, Zenon
    <3> QED BY <1>1, <2>1, <2>2, <2>5, <3>1
  <2> QED BY <2>4, <2>5, Zenon DEF Matches
<1> QED BY <1>2, Zenon DEF Results, Answers

(* A frame that begins later returns what one that begins earlier may.     *)
LEMMA LaterResults ==
  ASSUME GrammarOK, NEW f, IsFrame(f), NEW g, IsFrame(g), g.call = f.call, g.loc >= Base(f.loc),
         NEW o, Results(g, o)
  PROVE  Results(f, o)
<1>1. /\ f.loc \in Nat /\ g.loc \in Nat /\ f.call.end \in Nat /\ Base(f.loc) \in Nat /\ Base(g.loc) \in Nat
  BY FrameNumbers, BaseFacts
<1>2. ASSUME o.ok PROVE Matches(f.call.e, f.loc, f.call.end, o.loc)
  <2>1. o.loc \in Base(g.loc) .. f.call.end + 1 /\ (f.call.e \in Flagless => o.loc > g.loc)
    BY <1>2, Zenon DEF Results, Matches
  <2>2. o.loc \in Nat /\ o.loc >= Base(g.loc) /\ o.loc <= f.call.end + 1
    BY <1>1, <2>1, InRange, Zenon
  <2>3. o.loc >= Base(f.loc)
    BY <1>1, <2>2, BaseTransitive
  <2>4. o.loc \in Base(f.loc) .. f.call.end + 1
    BY <1>1, <2>2, <2>3
  <2>5. ASSUME f.call.e \in Flagless PROVE o.loc > f.loc
    <3>1. Base(f.loc) = f.loc
      BY <2>5, FlaglessFacts, Zenon
    <3> QED BY <1>1, <2>1, <2>2, <2>5, <3>1
  <2> QED BY <2>4, <2>5, Zenon DEF Matches
<1> QED BY <1>2, Zenon DEF Results

LEMMA ActedResults ==
  ASSUME GrammarOK, NEW f, IsFrame(f), NEW loc, NEW toks, \A t : Results(f, Ok(loc, t))
  PROVE  Results(f, Acted(f, loc, toks))
<1> DEFINE actions == Elem(f).parseAction  o == Ok(loc, toks)
           raising == {k \in DOMAIN actions : actions[k] \in {"reject", "fatal", "index"}}
           a == actions[Min(raising)]
<1>1. IsCall(f.call) /\ f.loc \in 0 .. Len(instring) + 1 /\ 0 \in 0 .. Len(instring) + 1
  BY FrameHere, FrameNumbers
<1>2. IsElement(Elem(f), Len(E))
  BY <1>1, ElemFacts
<1>3. actions \in Seq(Actions)
  BY <1>2, Zenon DEF IsElement
<1>4. raising \subseteq Nat
  BY <1>3
<1>5. raising # {} => a \in {"reject", "fatal", "index"}
  <2>1. raising # {} => Min(raising) \in raising
    <3> HIDE DEF raising
    <3> QED BY <1>4, MinOf
  <2> QED BY <2>1
<1>6. o.loc = loc
  BY DEF Ok
<1>7. CallActions(actions, f.loc, o) =
        IF raising = {} THEN Ok(o.loc, ActedOn(actions, o.toks)) ELSE Raised(a, f.loc)
  BY Zenon DEF CallActions
<1>8. Acted(f, loc, toks) = IF ActsOn(f) THEN CallActions(actions, f.loc, o) ELSE o
  BY Zenon DEF Acted
<1> HIDE DEF raising, a, actions
<1>9. raising # {} => Results(f, Raised(a, f.loc))
  <2>1. Results(f, ParseException(f.loc)) /\ Results(f, ParseException(0))
    BY <1>1, ExceptionResults
  <2>2. Results(f, Fail("ParseFatalException", f.loc))
    BY <1>1, FailIsOutcome, FailureResults DEF Exceptions
  <2>3. /\ a = "reject" => Raised(a, f.loc) = ParseException(f.loc)
        /\ a = "fatal" => Raised(a, f.loc) = Fail("ParseFatalException", f.loc)
        /\ a = "index" => Raised(a, f.loc) = ParseException(0)
    BY DEF Raised
  <2> HIDE DEF o
  <2>4. a = "reject" => Results(f, Raised(a, f.loc))
    BY <2>1, <2>3, Zenon
  <2>5. a = "fatal" => Results(f, Raised(a, f.loc))
    BY <2>2, <2>3, Zenon
  <2>6. a = "index" => Results(f, Raised(a, f.loc))
    BY <2>1, <2>3, Zenon
  <2> QED BY <1>5, <2>4, <2>5, <2>6
<1>10. \A t : Results(f, Ok(o.loc, t))
  BY <1>6, Zenon
<1>11. Results(f, o)
  BY Zenon
<1> HIDE DEF o
<1> QED BY <1>7, <1>8, <1>9, <1>10, <1>11, Zenon

LEMMA SameOk ==
  ASSUME GrammarOK, NEW f, NEW o, o.ok, Results(f, o), NEW t
  PROVE  Results(f, Ok(o.loc, t))
<1> DEFINE p == Ok(o.loc, t)
<1>1. /\ DOMAIN p = {"ok", "exc", "loc", "toks"} /\ p.exc = "none" /\ p.ok = (p.exc = "none")
      /\ p.loc = o.loc /\ p.exc \in Exceptions
  BY DEF Ok, Exceptions
<1> HIDE DEF p
<1>2. o.loc \in 0 .. Len(instring) + 1 /\ Matches(f.call.e, f.loc, f.call.end, o.loc)
  BY Zenon DEF Results, IsOutcome
<1>3. IsOutcome(p)
  BY <1>1, <1>2, Zenon DEF IsOutcome
<1> QED BY <1>1, <1>2, <1>3, Zenon DEF Results, p

LEMMA ReturnedResults ==
  ASSUME GrammarOK, NEW f, IsFrame(f), NEW o, Results(f, o)
  PROVE  LET d == Returned(f, o)
         IN  d.do = "return" /\ Results(f, d.out) /\ (d.ran => ActsOn(f))
<1> DEFINE d == Returned(f, o)
<1>1. f.call.end \in 0 .. Len(instring) + 1
  BY FrameNumbers
<1>2. Results(f, ParseException(f.call.end))
  BY <1>1, ExceptionResults
<1>3. o.ok => Results(f, Acted(f, o.loc, PostParse(Elem(f), o.toks)))
  BY SameOk, ActedResults, Zenon
<1>4. d.do = "return" /\ d.ran = (o.ok /\ ActsOn(f))
  BY DEF Returned
<1>5. d.out = IF o.exc = "IndexError" /\ (Elem(f).mayIndexError \/ f.loc >= f.call.end)
              THEN ParseException(f.call.end)
              ELSE IF o.ok THEN Acted(f, o.loc, PostParse(Elem(f), o.toks)) ELSE o
  BY DEF Returned
<1> HIDE DEF d
<1>6. Results(f, d.out)
  BY <1>2, <1>3, <1>5, Zenon
<1> QED BY <1>4, <1>6, Zenon DEF d

(* A step of a frame: a call, or what it returns.                          *)
Moves(f, d) ==
  \/ /\ d.do = "call" /\ d.frame.call = f.call /\ Expects(d.frame, d.call)
     /\ d.frame.phase # "preParse only"
  \/ d.do = "return" /\ Results(f, d.out) /\ (d.ran => ActsOn(f))

LEMMA FinishedMoves ==
  ASSUME GrammarOK, NEW f, IsFrame(f), NEW d, GoesOn(f, d)
  PROVE  Moves(f, Finished(f, d))
<1>1. CASE d.do = "return"
  <2>1. Results(f, d.out)
    BY <1>1 DEF GoesOn
  <2> QED BY <1>1, <2>1, ReturnedResults, Zenon DEF Moves, Finished
<1>2. CASE d.do # "return"
  <2>1. /\ d.do = "call" /\ d.frame.call = f.call /\ Expects(d.frame, d.call)
        /\ d.frame.phase # "preParse only"
    BY <1>2, Zenon DEF GoesOn
  <2> QED BY <1>2, <2>1, Zenon DEF Moves, Finished
<1> QED BY <1>1, <1>2

(***************************************************************************)
(* preParse                                                                *)
(***************************************************************************)
LEMMA PreParsedFacts ==
  ASSUME GrammarOK, NEW f, IsFrame(f)
  PROVE  PreParsed(f) \in Nat /\ PreParsed(f) >= f.pos /\ PreParsed(f) <= f.call.end + 1
<1> DEFINE s == Text(f)  e == Elem(f)  loc == f.pos
           stops == {k \in loc .. Len(s) - 1 : At(s, k) \notin e.whiteChars}
<1>1. Len(s) = f.call.end /\ f.call.end \in Nat /\ loc \in Nat /\ loc <= f.call.end + 1
  BY TextFacts, FrameNumbers
<1>2. PreParsed(f) = IF ~e.skipWhitespace THEN loc
                     ELSE IF stops = {} THEN Max({loc, Len(s)}) ELSE Min(stops)
  BY Zenon DEF PreParsed, SkipWhite
<1> HIDE DEF s, loc
<1>3. Max({loc, Len(s)}) \in Nat /\ Max({loc, Len(s)}) >= loc /\ Max({loc, Len(s)}) <= f.call.end + 1
  <2>1. Len(s) \in Nat
    BY <1>1
  <2>2. Max({loc, Len(s)}) \in Nat /\ Max({loc, Len(s)}) >= loc
        /\ (Max({loc, Len(s)}) = loc \/ Max({loc, Len(s)}) = Len(s))
    BY <1>1, <2>1, MaxOfTwo
  <2> QED BY <1>1, <2>2
<1>4. stops \subseteq Nat /\ \A k \in stops : k \in Nat /\ k >= loc /\ k <= f.call.end + 1
  BY <1>1
<1> HIDE DEF stops
<1>5. stops # {} => Min(stops) \in stops
  BY <1>4, MinOf, Zenon
<1>6. loc \in Nat /\ loc >= loc /\ loc <= f.call.end + 1
  BY <1>1
<1>7. PreParsed(f) \in Nat /\ PreParsed(f) >= loc /\ PreParsed(f) <= f.call.end + 1
  BY <1>2, <1>3, <1>4, <1>5, <1>6, Zenon
<1> QED BY <1>7 DEF loc

(***************************************************************************)
(* Advance                                                                 *)
(***************************************************************************)
LEMMA IndexFacts ==
  ASSUME NEW n \in Nat, NEW s, DOMAIN s = 1 .. n, NEW i \in DOMAIN s
  PROVE  i \in Nat /\ i > 0
OBVIOUS

LEMMA AtLeast ==
  ASSUME NEW a \in Nat, NEW b \in Nat, NEW c \in Nat, a >= b, b >= c
  PROVE  a >= c
OBVIOUS

LEMMA WithinInput ==
  ASSUME NEW loc \in Nat, NEW end \in Nat, NEW n \in Nat, loc <= end + 1, end <= n
  PROVE  loc \in 0 .. n + 1
OBVIOUS

Fresh(f) == IsCall(f.call) /\ (f = Frame(f.call) \/ f = [Frame(f.call) EXCEPT !.phase = "preParse only"])

(* The frame on top of the stack, given the outcome returned to it.        *)
Waits(f, o) == (o = NoOutcome /\ Fresh(f)) \/ (\E c : Expects(f, c) /\ Answers(c, o))

LEMMA FrameFacts ==
  ASSUME NEW c
  PROVE  LET f == Frame(c)
         IN  /\ DOMAIN f = Fields /\ f.call = c /\ f.phase = "preParse" /\ f.loc = c.loc /\ f.pos = c.loc
             /\ f.last = c.loc /\ f.i = 0 /\ f.todo = <<>> /\ f.farthest = NoOutcome
BY DEF Frame, Fields

LEMMA FreshFacts ==
  ASSUME GrammarOK, NEW f, Fresh(f)
  PROVE  /\ IsFrame(f) /\ Unbegun(f) /\ f.i = 0 /\ f.pos = f.call.loc
         /\ f.phase \in {"preParse", "preParse only"}
<1> DEFINE c == f.call
<1>1. /\ DOMAIN f = Fields /\ f.phase \in {"preParse", "preParse only"} /\ f.loc = c.loc
      /\ f.pos = c.loc /\ f.last = c.loc /\ f.i = 0 /\ f.todo = <<>> /\ f.farthest = NoOutcome
  <2>1. CASE f = Frame(c)
    BY <2>1, FrameFacts
  <2>2. CASE f = [Frame(c) EXCEPT !.phase = "preParse only"]
    <3> DEFINE h == Frame(c)
    <3>1. /\ DOMAIN h = Fields /\ h.loc = c.loc /\ h.pos = c.loc
          /\ h.last = c.loc /\ h.i = 0 /\ h.todo = <<>> /\ h.farthest = NoOutcome
      BY FrameFacts
    <3> HIDE DEF h
    <3>2. f = [h EXCEPT !.phase = "preParse only"]
      BY <2>2 DEF h
    <3>3. /\ DOMAIN f = DOMAIN h /\ f.phase = "preParse only" /\ f.loc = h.loc /\ f.pos = h.pos
          /\ f.last = h.last /\ f.i = h.i /\ f.todo = h.todo /\ f.farthest = h.farthest
      BY <3>1, <3>2 DEF Fields
    <3> QED BY <3>1, <3>3
  <2> QED BY <2>1, <2>2 DEF Fresh
<1>2. IsCall(c) /\ Len(instring) \in Nat
  BY DEF Fresh, GrammarOK
<1>3. c.loc \in Nat /\ c.end \in Nat /\ c.loc <= c.end + 1
  BY <1>2, CallNumbers, Zenon
<1>4. Base(c.loc) \in Nat /\ Base(c.loc) <= c.loc
  BY <1>3, BaseFacts
<1> HIDE DEF c
<1>5. c.loc \in Base(c.loc) .. c.end + 1 /\ 0 \in Nat
  BY <1>3, <1>4
<1>6. f.call = c
  BY DEF c
<1>7. f.phase \in {"preParse", "preParse only"} \cup Phases(Elem(f).cls)
  BY <1>1
<1>8. IsFrame(f)
  BY <1>1, <1>2, <1>5, <1>6, <1>7, Zenon DEF IsFrame
<1>9. Unbegun(f)
  BY <1>1, <1>6, Zenon DEF Unbegun
<1> QED BY <1>1, <1>6, <1>8, <1>9

LEMMA BeginMoves ==
  ASSUME GrammarOK, NEW f, IsFrame(f), Unbegun(f), f.i = 0, NEW loc \in Nat,
         loc >= Base(f.call.loc), loc <= f.call.end + 1
  PROVE  Moves(f, Begin(f, loc))
<1> DEFINE g == [f EXCEPT !.phase = "impl", !.loc = loc, !.pos = loc, !.last = loc]
<1>1. /\ DOMAIN f = Fields /\ f.loc = f.call.loc /\ f.todo = <<>> /\ f.farthest = NoOutcome
      /\ IsCall(f.call)
  BY Zenon DEF IsFrame, Unbegun
<1>2. /\ DOMAIN g = Fields /\ g.call = f.call /\ g.phase = "impl" /\ g.loc = loc /\ g.pos = loc
      /\ g.last = loc /\ g.i = 0 /\ g.todo = <<>> /\ g.farthest = NoOutcome
  BY <1>1 DEF Fields
<1> HIDE DEF g
<1>3. Elem(g) = Elem(f)
  BY <1>2, Zenon DEF Elem
<1>4. loc \in Base(f.call.loc) .. f.call.end + 1
  <2>1. Base(f.call.loc) \in Nat /\ f.call.end \in Nat
    BY FrameNumbers
  <2> QED BY <2>1
<1>5. "impl" \in Phases(Elem(g).cls)
  BY DEF Phases
<1>6. IsFrame(g)
  BY <1>1, <1>2, <1>4, <1>5, Zenon DEF IsFrame
<1>7. Begun(g)
  BY <1>2, <1>6, Zenon DEF Begun
<1>8. Resumes(g, NoOutcome)
  BY <1>7, Zenon DEF Resumes
<1>9. GoesOn(g, Impl(g, NoOutcome))
  BY <1>2, <1>6, <1>8, ImplGoes
<1> DEFINE d == Begin(f, loc)
<1>10. d = Finished(g, Impl(g, NoOutcome))
  BY Zenon DEF Begin, g
<1> HIDE DEF d
<1>11. Moves(g, d)
  BY <1>6, <1>9, <1>10, FinishedMoves, Zenon
<1>12. ASSUME d.do = "call" PROVE Moves(f, d)
  BY <1>2, <1>11, <1>12, Zenon DEF Moves
<1>13. ASSUME d.do = "return" PROVE Moves(f, d)
  <2>1. Results(g, d.out) /\ (d.ran => ActsOn(g))
    <3>1. d.do # "call"
      BY <1>13
    <3> QED BY <1>11, <3>1, Zenon DEF Moves
  <2>2. g.loc >= Base(f.loc)
    BY <1>1, <1>2
  <2>3. Results(f, d.out)
    BY <1>2, <1>6, <2>1, <2>2, LaterResults
  <2>4. ActsOn(g) = ActsOn(f)
    BY <1>2, <1>3 DEF ActsOn
  <2> QED BY <1>13, <2>1, <2>3, <2>4, Zenon DEF Moves
<1>14. Moves(f, d)
  BY <1>11, <1>12, <1>13, Zenon DEF Moves
<1> QED BY <1>14 DEF d

(* What a frame that skips ignorables knows of the outcome it gets.        *)
LEMMA WaitsIgnorable ==
  ASSUME GrammarOK, NEW f, NEW o, Waits(f, o), f.phase \in {"preParse", "preParse only"}
  PROVE  /\ IsFrame(f) /\ IgnorableAnswer(f, o)
         /\ f.phase = "preParse" => Unbegun(f) /\ (~Preparses(f) => f.i = 0)
         /\ f.i # 0 => Called(f) /\ IsOutcome(o)
<1>1. CASE o = NoOutcome /\ Fresh(f)
  BY <1>1, FreshFacts, Zenon DEF IgnorableAnswer
<1>2. ASSUME NEW c, Expects(f, c), Answers(c, o)
      PROVE  /\ IsFrame(f) /\ IgnorableAnswer(f, o)
             /\ f.phase = "preParse" => Unbegun(f) /\ (~Preparses(f) => f.i = 0)
             /\ f.i # 0 => Called(f) /\ IsOutcome(o)
  <2>1. /\ IsFrame(f) /\ Called(f) /\ AwaitsIgnorable(f, c)
        /\ f.phase = "preParse" => Unbegun(f) /\ Preparses(f)
    BY <1>2 DEF Expects, Awaits
  <2>2. f.i \in DOMAIN Elem(f).ignoreExprs /\ c.loc = f.pos /\ c.end = f.call.end
    BY <2>1, Zenon DEF AwaitsIgnorable
  <2>3. o.ok => o.loc \in Base(c.loc) .. c.end + 1
    BY <1>2, Zenon DEF Answers, Matches
  <2>4. IsOutcome(o)
    BY <1>2 DEF Answers
  <2>5. IgnorableAnswer(f, o)
    BY <2>2, <2>3, <2>4, Zenon DEF IgnorableAnswer
  <2> QED BY <2>1, <2>4, <2>5, Zenon
<1> QED BY <1>1, <1>2, Zenon DEF Waits

(* The call of an ignorable.                                               *)
LEMMA IgnorableExpects ==
  ASSUME GrammarOK, NEW f, IsFrame(f), NEW g, Skips(f, g), g.i # 0, NEW c, IsCall(c),
         AwaitsIgnorable(g, c), f.phase \in {"preParse", "preParse only"},
         f.phase = "preParse" => Unbegun(f) /\ Preparses(f)
  PROVE  Expects(g, c) /\ g.call = f.call
<1>1. /\ g.call = f.call /\ g.phase = f.phase /\ g.loc = f.loc /\ g.last = f.last /\ g.todo = f.todo
      /\ g.farthest = f.farthest
  BY Zenon DEF Skips
<1>2. g.i \in DOMAIN Elem(g).ignoreExprs
  BY Zenon DEF AwaitsIgnorable
<1>3. IsCall(g.call)
  BY <1>1, Zenon DEF IsFrame
<1>4. g.i \in Nat /\ g.i > 0
  <2>1. DOMAIN Elem(g).ignoreExprs = 1 .. Len(Elem(g).ignoreExprs) /\ Len(Elem(g).ignoreExprs) \in Nat
    BY <1>3, ElemFacts
  <2> QED BY <1>2, <2>1, IndexFacts, Zenon
<1>5. IsFrame(g) /\ Elem(g) = Elem(f)
  BY <1>4, SkipsIsFrame
<1>6. Called(g)
  <2>1. g.phase \in {"preParse", "preParse only"}
    BY <1>1
  <2> QED BY <1>4, <2>1, Zenon DEF Called
<1>7. ActsFor(g, c.act)
  <2>1. Restarts(g)
    BY <1>1 DEF Restarts
  <2> QED BY <2>1, Zenon DEF ActsFor
<1>8. f.phase = "preParse" => Unbegun(g) /\ Preparses(g)
  BY <1>1, <1>5, Zenon DEF Unbegun, Preparses
<1>9. Awaits(g, c)
  BY <1>1, <1>8 DEF Awaits
<1> QED BY <1>1, <1>5, <1>6, <1>7, <1>9, Zenon DEF Expects

LEMMA AdvanceMoves ==
  ASSUME GrammarOK, NEW f, NEW o, Waits(f, o), f.phase # "preParse only"
  PROVE  IsFrame(f) /\ Moves(f, Advance(f, o))
<1>1. CASE f.phase # "preParse"
  <2>1. ~Fresh(f)
    BY <1>1, FreshFacts
  <2>2. PICK c : Expects(f, c) /\ Answers(c, o)
    BY <2>1 DEF Waits
  <2>3. IsFrame(f) /\ IsOutcome(o)
    BY <2>2 DEF Expects, Answers
  <2>4. Resumes(f, o)
    BY <2>2, <2>3, Zenon DEF Resumes
  <2>5. GoesOn(f, Impl(f, o))
    BY <1>1, <2>3, <2>4, ImplGoes
  <2>6. Moves(f, Finished(f, Impl(f, o)))
    BY <2>3, <2>5, FinishedMoves
  <2>7. Advance(f, o) = Finished(f, Impl(f, o))
    BY <1>1, Zenon DEF Advance
  <2> QED BY <2>3, <2>6, <2>7, Zenon
<1>2. CASE f.phase = "preParse"
  <2> DEFINE d == SkipIgnorables(f, o)
  <2>1. IsFrame(f) /\ IgnorableAnswer(f, o) /\ Unbegun(f) /\ (~Preparses(f) => f.i = 0)
    BY <1>2, WaitsIgnorable
  <2>2. Ignores(f, o, d)
    BY <2>1, SkipIgnorablesGoes
  <2>3. /\ f.loc = f.call.loc /\ f.loc \in Nat /\ f.loc >= Base(f.call.loc) /\ f.loc <= f.call.end + 1
        /\ f.pos \in Nat /\ f.call.loc \in Nat /\ f.pos >= Base(f.call.loc)
    BY <2>1, FrameNumbers DEF Unbegun
  <2>4. ~Preparses(f) => Moves(f, Begin(f, f.loc))
    BY <2>1, <2>3, BeginMoves
  <2>5. Advance(f, o) = IF ~Preparses(f) THEN Begin(f, f.loc)
                        ELSE IF d.do = "skipped" THEN Begin(d.frame, PreParsed(d.frame)) ELSE d
    BY <1>2, Zenon DEF Advance
  <2> HIDE DEF d
  <2>6. ASSUME Preparses(f), d.do = "call" PROVE Moves(f, d)
    <3>1. Skips(f, d.frame) /\ d.frame.i # 0 /\ IsCall(d.call) /\ AwaitsIgnorable(d.frame, d.call)
      BY <2>2, <2>6 DEF Ignores
    <3>2. Expects(d.frame, d.call) /\ d.frame.call = f.call
      BY <1>2, <2>1, <2>6, <3>1, IgnorableExpects
    <3>3. d.frame.phase # "preParse only"
      BY <1>2, <3>1 DEF Skips
    <3> QED BY <2>6, <3>2, <3>3, Zenon DEF Moves
  <2>7. ASSUME d.do = "return" PROVE Moves(f, d)
    <3>1. d.out = o /\ IsOutcome(o) /\ ~o.ok /\ ~d.ran
      BY <2>2, <2>7 DEF Ignores
    <3>2. Results(f, d.out)
      BY <3>1, FailureResults
    <3> QED BY <2>7, <3>1, <3>2, Zenon DEF Moves
  <2>8. ASSUME d.do = "skipped" PROVE Moves(f, Begin(d.frame, PreParsed(d.frame)))
    <3> DEFINE g == d.frame  e == Begin(g, PreParsed(g))
    <3>1. Skips(f, g) /\ g.i = 0
      BY <2>2, <2>8 DEF Ignores
    <3>2. 0 \in Nat
      OBVIOUS
    <3>3. IsFrame(g) /\ Elem(g) = Elem(f) /\ g.pos \in Nat /\ g.pos >= Base(f.pos)
      BY <2>1, <3>1, <3>2, SkipsIsFrame
    <3>4. g.call = f.call /\ g.loc = f.loc /\ g.last = f.last /\ g.todo = f.todo /\ g.farthest = f.farthest
      BY <3>1, Zenon DEF Skips
    <3> HIDE DEF g
    <3>5. Unbegun(g)
      BY <2>1, <3>4, Zenon DEF Unbegun
    <3>6. PreParsed(g) \in Nat /\ PreParsed(g) >= g.pos /\ PreParsed(g) <= g.call.end + 1
      BY <3>3, PreParsedFacts
    <3>7. PreParsed(g) >= Base(g.call.loc)
      <4>1. g.pos >= Base(g.call.loc) /\ Base(g.call.loc) \in Nat
        BY <3>3, FrameNumbers
      <4> QED BY <3>3, <3>6, <4>1, AtLeast, Zenon
    <3>8. Moves(g, e)
      BY <3>1, <3>3, <3>5, <3>6, <3>7, BeginMoves
    <3> HIDE DEF e
    <3>9. ActsOn(g) = ActsOn(f) /\ (Results(g, e.out) => Results(f, e.out))
      BY <3>3, <3>4, Zenon DEF ActsOn, Results
    <3>10. Moves(f, e)
      BY <3>4, <3>8, <3>9, Zenon DEF Moves
    <3> QED BY <3>10 DEF e, g
  <2>9. d.do \in {"call", "return", "skipped"}
    BY <2>2 DEF Ignores
  <2>10. Preparses(f) /\ d.do # "skipped" => Moves(f, d)
    BY <2>6, <2>7, <2>9
  <2> QED BY <2>1, <2>4, <2>5, <2>8, <2>10, Zenon
<1> QED BY <1>1, <1>2

(* preParse called by the driver.                                          *)
LEMMA PreParseMoves ==
  ASSUME GrammarOK, NEW f, NEW o, Waits(f, o), f.phase = "preParse only"
  PROVE  LET d == SkipIgnorables(f, o)
             result == IF d.do = "skipped" THEN Ok(PreParsed(d.frame), <<>>) ELSE d.out
         IN  /\ d.do = "call" => Expects(d.frame, d.call) /\ d.frame.call = f.call
             /\ d.do # "call" => IsOutcome(result)
<1> DEFINE d == SkipIgnorables(f, o)
<1>1. IsFrame(f) /\ IgnorableAnswer(f, o)
  BY WaitsIgnorable
<1>2. Ignores(f, o, d)
  BY <1>1, SkipIgnorablesGoes
<1> HIDE DEF d
<1>3. d.do = "call" => Expects(d.frame, d.call) /\ d.frame.call = f.call
  <2> SUFFICES ASSUME d.do = "call" PROVE Expects(d.frame, d.call) /\ d.frame.call = f.call
    OBVIOUS
  <2>1. Skips(f, d.frame) /\ d.frame.i # 0 /\ IsCall(d.call) /\ AwaitsIgnorable(d.frame, d.call)
    BY <1>2 DEF Ignores
  <2> QED BY <1>1, <2>1, IgnorableExpects
<1>4. d.do = "skipped" => IsOutcome(Ok(PreParsed(d.frame), <<>>))
  <2> SUFFICES ASSUME d.do = "skipped" PROVE IsOutcome(Ok(PreParsed(d.frame), <<>>))
    OBVIOUS
  <2>1. Skips(f, d.frame) /\ d.frame.i = 0 /\ 0 \in Nat
    BY <1>2 DEF Ignores
  <2>2. IsFrame(d.frame) /\ d.frame.call = f.call
    BY <1>1, <2>1, SkipsIsFrame DEF Skips
  <2> DEFINE loc == PreParsed(d.frame)  p == Ok(loc, <<>>)
  <2>3. loc \in Nat /\ loc <= d.frame.call.end + 1
    BY <2>2, PreParsedFacts
  <2>4. d.frame.call.end \in Nat /\ d.frame.call.end <= Len(instring) /\ Len(instring) \in Nat
    BY <2>2, FrameNumbers
  <2> HIDE DEF loc
  <2>5. loc \in 0 .. Len(instring) + 1
    BY <2>3, <2>4, WithinInput, Zenon
  <2>6. /\ DOMAIN p = {"ok", "exc", "loc", "toks"} /\ p.exc = "none" /\ p.ok = (p.exc = "none")
        /\ p.loc = loc /\ p.exc \in Exceptions
    BY DEF Ok, Exceptions
  <2> HIDE DEF p
  <2>7. IsOutcome(p)
    BY <2>5, <2>6, Zenon DEF IsOutcome
  <2> QED BY <2>7 DEF p, loc
<1>5. d.do \in {"call", "return", "skipped"} /\ (d.do = "return" => IsOutcome(d.out))
  BY <1>2, Zenon DEF Ignores
<1>6. d.do # "call" => IsOutcome(IF d.do = "skipped" THEN Ok(PreParsed(d.frame), <<>>) ELSE d.out)
  BY <1>4, <1>5
<1> QED BY <1>3, <1>6 DEF d

(***************************************************************************)
(* streamline                                                              *)
(***************************************************************************)
LEMMA FrontFacts ==
  ASSUME NEW S, NEW s \in Seq(S), s # <<>>
  PROVE  Front(s) \in Seq(S) /\ Len(Front(s)) = Len(s) - 1 /\ Last(s) \in S
         /\ (\A i \in 1 .. Len(s) - 1 : Front(s)[i] = s[i])
         /\ Range(s) = Range(Front(s)) \cup {Last(s)}
<1> DEFINE n == Len(s)  r == Front(s)
<1>1. n \in Nat /\ n >= 1 /\ DOMAIN s = 1 .. n /\ \A i \in 1 .. n : s[i] \in S
  BY LenProperties
<1>2. r \in Seq(S) /\ Len(r) = n - 1 /\ \A i \in 1 .. n - 1 : r[i] = s[i]
  <2>1. \A i \in 1 .. n - 1 : s[i] \in S
    BY <1>1
  <2>2. 1 \in Int /\ n - 1 \in Int
    BY <1>1
  <2>3. /\ SubSeq(s, 1, n - 1) \in Seq(S)
        /\ Len(SubSeq(s, 1, n - 1)) = IF 1 <= n - 1 THEN n - 1 - 1 + 1 ELSE 0
        /\ \A i \in 1 .. n - 1 - 1 + 1 : SubSeq(s, 1, n - 1)[i] = s[1 + i - 1]
    BY <2>1, <2>2, SubSeqProperties
  <2>4. r = SubSeq(s, 1, n - 1)
    BY DEF Front
  <2> HIDE DEF r
  <2> QED BY <1>1, <2>3, <2>4
<1>3. Last(s) = s[n]
  BY DEF Last
<1> HIDE DEF n, r
<1>4. DOMAIN r = 1 .. n - 1
  BY <1>1, <1>2, LenProperties
<1>5. \A y : y \in Range(s) <=> \E i \in 1 .. n : s[i] = y
  BY <1>1 DEF Range
<1>6. \A y : y \in Range(r) <=> \E i \in 1 .. n - 1 : r[i] = y
  BY <1>4 DEF Range
<1>7. \A i : i \in 1 .. n <=> i \in 1 .. n - 1 \/ i = n
  BY <1>1
<1>8. \A y : y \in Range(s) <=> y \in Range(r) \/ y = s[n]
  BY <1>2, <1>5, <1>6, <1>7, Zenon
<1>9. Range(s) = Range(r) \cup {Last(s)}
  BY <1>3, <1>8
<1>10. Last(s) \in S
  BY <1>1, <1>3
<1>11. Len(r) = n - 1 /\ \A i \in 1 .. n - 1 : r[i] = s[i]
  BY <1>2
<1> QED BY <1>2, <1>9, <1>10, <1>11 DEF r, n

(* Nonempty by what the parts are.                                         *)
LEMMA NonemptyParts ==
  ASSUME NEW S, NEW e, e.cls \in {"And", "Or", "MatchFirst", "Each"}
  PROVE  Nonempty(S, e) <=>
           /\ e.cls \in {"And", "Each"} => Range(e.exprs) \cap S # {}
           /\ e.cls \in {"Or", "MatchFirst"} => e.exprs # <<>> /\ Range(e.exprs) \subseteq S
<1> DEFINE x == e.exprs
<1>1. (\E i \in DOMAIN x : x[i] \in S) <=> Range(x) \cap S # {}
  BY DEF Range
<1>2. (\A i \in DOMAIN x : x[i] \in S) <=> Range(x) \subseteq S
  BY DEF Range
<1> HIDE DEF x
<1>3. CASE e.cls \in {"And", "Each"}
  BY <1>1, <1>3 DEF Nonempty, Enhanced, x
<1>4. CASE e.cls \in {"Or", "MatchFirst"}
  BY <1>2, <1>4 DEF Nonempty, Enhanced, x
<1> QED BY <1>3, <1>4

LEMMA NonemptySeq ==
  ASSUME NEW T, NEW s \in Seq(T), NEW x, x \in Range(s)
  PROVE  s # <<>>
BY DEF Range

AbsorbFields == {"exprs", "mayReturnEmpty", "mayIndexError"}

LEMMA AbsorbedFacts ==
  ASSUME NEW n \in Nat, NEW e, IsElement(e, n), NEW part, IsElement(part, n),
         e.cls \in {"And", "Or", "MatchFirst", "Each"}, NEW exprs \in Seq(1 .. n),
         e.cls = "And" => exprs # <<>>
  PROVE  LET a == Absorbed(e, part, exprs)
         IN  /\ IsElement(a, n) /\ a.cls = e.cls /\ a.exprs = exprs
             /\ e.mayReturnEmpty => a.mayReturnEmpty
             /\ DOMAIN a = DOMAIN e /\ \A y \in DOMAIN e \ AbsorbFields : a[y] = e[y]
             /\ a.mayReturnEmpty \in BOOLEAN /\ a.mayIndexError \in BOOLEAN
             /\ a = [y \in DOMAIN e |-> a[y]]
<1> DEFINE a == Absorbed(e, part, exprs)
           D == {"cls", "exprs", "parseAction", "callDuringTry", "resultsName", "skipWhitespace",
                 "whiteChars", "copyDefaultWhiteChars", "mayReturnEmpty", "mayIndexError",
                 "ignoreExprs", "callPreparse", "arg"}
<1>1. DOMAIN ParserElement = D
  BY DEF ParserElement
<1>2. DOMAIN e = D /\ DOMAIN part = D
  BY <1>1, Zenon DEF IsElement
<1>3. /\ \A flag \in {"callDuringTry", "skipWhitespace", "copyDefaultWhiteChars",
                      "mayReturnEmpty", "mayIndexError", "callPreparse"} :
           e[flag] \in BOOLEAN /\ part[flag] \in BOOLEAN
      /\ e.parseAction \in Seq(Actions) /\ e.whiteChars \subseteq STRING
      /\ e.ignoreExprs \in Seq(1 .. n) /\ e.cls \in Classes /\ DOMAIN e.arg = DOMAIN NoArg
      /\ [x \in DOMAIN NoArg \ {"default"} |-> e.arg[x]] \in Args(n)
      /\ e.cls = "Regex" => e.arg.default \in Seq(Seq(STRING))
      /\ e.cls = "PrecededBy" => e.arg.flag \/ e.arg.id # 0
  BY Zenon DEF IsElement
<1>4. /\ DOMAIN a = D /\ a.cls = e.cls /\ a.exprs = exprs /\ a.parseAction = e.parseAction
      /\ a.whiteChars = e.whiteChars /\ a.ignoreExprs = e.ignoreExprs /\ a.arg = e.arg
      /\ a.callDuringTry = e.callDuringTry /\ a.skipWhitespace = e.skipWhitespace
      /\ a.copyDefaultWhiteChars = e.copyDefaultWhiteChars /\ a.callPreparse = e.callPreparse
      /\ a.resultsName = e.resultsName
  BY <1>2 DEF Absorbed
<1>5. /\ a.mayReturnEmpty = (e.mayReturnEmpty \/ part.mayReturnEmpty)
      /\ a.mayIndexError = (e.mayIndexError \/ part.mayIndexError)
  BY <1>2 DEF Absorbed
<1> HIDE DEF a
<1>6. a.mayReturnEmpty \in BOOLEAN /\ a.mayIndexError \in BOOLEAN /\ (e.mayReturnEmpty => a.mayReturnEmpty)
  BY <1>5
<1>7. \A flag \in {"callDuringTry", "skipWhitespace", "copyDefaultWhiteChars",
                   "mayReturnEmpty", "mayIndexError", "callPreparse"} : a[flag] \in BOOLEAN
  BY <1>3, <1>4, <1>6
<1>8. Len(a.exprs) \in Arity(a.cls)
  <2>1. Len(exprs) \in Nat /\ (e.cls = "And" => Len(exprs) # 0)
    BY LenProperties
  <2>2. Arity(e.cls) = Nat \/ (e.cls = "And" /\ Arity(e.cls) = Nat \ {0})
    BY DEF Arity, Tokens, Listed
  <2> QED BY <1>4, <2>1, <2>2
<1>9. \A y \in D \ AbsorbFields : a[y] = e[y]
  BY <1>4 DEF AbsorbFields
<1>10. IsElement(a, n)
  BY <1>1, <1>3, <1>4, <1>7, <1>8, Zenon DEF IsElement
<1>11. a = [y \in DOMAIN e |-> a[y]]
  BY <1>2 DEF a, Absorbed
<1> QED BY <1>2, <1>4, <1>6, <1>9, <1>10, <1>11, Zenon DEF a

(* What stands at k instead of e.                                          *)
Replaces(n, F, k, e, a) ==
  /\ IsElement(a, n) /\ a.cls = e.cls /\ (e.mayReturnEmpty => a.mayReturnEmpty)
  /\ k \in F => Nonempty(F, a)
  /\ \/ a = e
     \/ /\ a = [y \in DOMAIN e |-> a[y]]
        /\ DOMAIN a = DOMAIN e /\ \A y \in DOMAIN e \ AbsorbFields : a[y] = e[y]
        /\ a.exprs \in Seq(1 .. n) /\ a.mayReturnEmpty \in BOOLEAN /\ a.mayIndexError \in BOOLEAN

LEMMA Absorbing ==
  ASSUME NEW n \in Nat, NEW F, NEW k, NEW e, IsElement(e, n), k \in F => Nonempty(F, e),
         NEW p, NEW part, IsElement(part, n), p \in F => Nonempty(F, part),
         Absorbs(e, part), NEW R, Range(e.exprs) = {p} \cup R,
         NEW exprs \in Seq(1 .. n), e.cls = "And" => exprs # <<>>, Range(exprs) = R \cup Range(part.exprs)
  PROVE  Replaces(n, F, k, e, Absorbed(e, part, exprs))
<1> DEFINE a == Absorbed(e, part, exprs)
<1>1. e.cls \in {"And", "Or", "MatchFirst", "Each"} /\ part.cls = e.cls
  BY DEF Absorbs
<1>2. /\ IsElement(a, n) /\ a.cls = e.cls /\ a.exprs = exprs
      /\ e.mayReturnEmpty => a.mayReturnEmpty
      /\ DOMAIN a = DOMAIN e /\ \A y \in DOMAIN e \ AbsorbFields : a[y] = e[y]
      /\ a.mayReturnEmpty \in BOOLEAN /\ a.mayIndexError \in BOOLEAN
      /\ a = [y \in DOMAIN e |-> a[y]]
  BY <1>1, AbsorbedFacts
<1> HIDE DEF a
<1>3. ASSUME k \in F PROVE Nonempty(F, a)
  <2>1. CASE e.cls \in {"And", "Each"}
    <3>1. Range(e.exprs) \cap F # {}
      BY <1>1, <1>3, <2>1, NonemptyParts
    <3>2. p \in F => Range(part.exprs) \cap F # {}
      BY <1>1, <2>1, NonemptyParts
    <3>3. Range(exprs) \cap F # {}
      <4> DEFINE r == Range(exprs)  q == Range(e.exprs)  s == Range(part.exprs)
      <4>1. q = {p} \cup R /\ r = R \cup s /\ q \cap F # {} /\ (p \in F => s \cap F # {})
        BY <3>1, <3>2
      <4> HIDE DEF r, q, s
      <4>2. r \cap F # {}
        BY <4>1
      <4> QED BY <4>2 DEF r
    <3>4. Range(a.exprs) \cap F # {} /\ a.cls \in {"And", "Each"}
      BY <1>2, <2>1, <3>3
    <3>5. a.cls \notin {"Or", "MatchFirst"} /\ a.cls \in {"And", "Or", "MatchFirst", "Each"}
      BY <3>4
    <3> QED BY <3>4, <3>5, NonemptyParts
  <2>2. CASE e.cls \in {"Or", "MatchFirst"}
    <3>1. Range(e.exprs) \subseteq F
      BY <1>1, <1>3, <2>2, NonemptyParts
    <3>2. p \in F => Range(part.exprs) \subseteq F /\ part.exprs # <<>>
      BY <1>1, <2>2, NonemptyParts
    <3>3. Range(exprs) \subseteq F
      <4> DEFINE r == Range(exprs)  q == Range(e.exprs)  s == Range(part.exprs)
      <4>1. q = {p} \cup R /\ r = R \cup s /\ q \subseteq F /\ (p \in F => s \subseteq F)
        BY <3>1, <3>2
      <4> HIDE DEF r, q, s
      <4>2. r \subseteq F
        BY <4>1
      <4> QED BY <4>2 DEF r
    <3>a. exprs # <<>>
      <4>1. p \in F
        BY <3>1
      <4>2. part.exprs \in Seq(1 .. n) /\ part.exprs # <<>>
        BY <3>2, <4>1, Zenon DEF IsElement
      <4> DEFINE q == part.exprs
      <4>3. Range(q) # {}
        <5> HIDE DEF q
        <5> QED BY <4>2, SeqRange DEF q
      <4>4. PICK x : x \in Range(q)
        BY <4>3
      <4>5. x \in Range(exprs)
        BY <4>4
      <4> QED BY <4>5, NonemptySeq
    <3>4. Range(a.exprs) \subseteq F /\ a.exprs # <<>> /\ a.cls \in {"Or", "MatchFirst"}
      BY <1>2, <2>2, <3>3, <3>a
    <3>5. a.cls \notin {"And", "Each"} /\ a.cls \in {"And", "Or", "MatchFirst", "Each"}
      BY <3>4
    <3> QED BY <3>4, <3>5, NonemptyParts
  <2> QED BY <1>1, <2>1, <2>2
<1>4. a.exprs \in Seq(1 .. n)
  BY <1>2
<1>5. Replaces(n, F, k, e, a)
  BY <1>2, <1>3, <1>4, Zenon DEF Replaces
<1> QED BY <1>5 DEF a

LEMMA Replacing ==
  ASSUME NEW n, NEW F, NEW k, NEW e, NEW a, NEW b,
         Replaces(n, F, k, e, a), Replaces(n, F, k, a, b)
  PROVE  Replaces(n, F, k, e, b)
<1>1. CASE b = a
  BY <1>1
<1>2. CASE a = e
  BY <1>2
<1>3. CASE b # a /\ a # e
  <2>1. /\ DOMAIN b = DOMAIN e /\ \A y \in DOMAIN e \ AbsorbFields : b[y] = e[y]
        /\ b = [y \in DOMAIN e |-> b[y]]
    BY <1>3, Zenon DEF Replaces
  <2> QED BY <1>3, <2>1, Zenon DEF Replaces
<1> QED BY <1>1, <1>2, <1>3

LEMMA PairFacts ==
  ASSUME NEW S, NEW x \in Seq(S), Len(x) = 2
  PROVE  x[1] \in S /\ x[2] \in S /\ x # <<>> /\ Range(x) = {x[1]} \cup {x[2]}
<1>1. DOMAIN x = {1, 2}
  BY LenProperties
<1> QED BY <1>1 DEF Range

LEMMA StreamlinedReplaces ==
  ASSUME NEW n \in Nat, NEW F, NEW H,
         \A k \in 1 .. n : IsElement(H[k], n) /\ (k \in F => Nonempty(F, H[k])), NEW k \in 1 .. n
  PROVE  Replaces(n, F, k, H[k], Streamlined(H, k))
<1> DEFINE e == H[k]  x == e.exprs  head == H[x[1]]
           exprs1 == head.exprs \o <<x[2]>>
           left == IF Absorbs(e, head) THEN Absorbed(e, head, exprs1) ELSE e
           l == Last(left.exprs)  last == H[l]
           exprs2 == Front(left.exprs) \o last.exprs
           a == IF Absorbs(left, last) THEN Absorbed(left, last, exprs2) ELSE left
<1>1. IsElement(e, n) /\ (k \in F => Nonempty(F, e)) /\ x \in Seq(1 .. n)
  BY Zenon DEF IsElement
<1>2. \A b : Replaces(n, F, k, b, b) <=> IsElement(b, n) /\ (k \in F => Nonempty(F, b))
  BY Zenon DEF Replaces
<1>3. Replaces(n, F, k, e, e)
  BY <1>1, <1>2, Zenon
<1>4. Streamlined(H, k) = IF Len(x) # 2 THEN e ELSE a
  BY Zenon DEF Streamlined
<1>5. ASSUME Len(x) = 2 PROVE Replaces(n, F, k, e, a)
  <2>1. x[1] \in 1 .. n /\ x[2] \in 1 .. n /\ x # <<>> /\ Range(x) = {x[1]} \cup {x[2]}
    <3> HIDE DEF x
    <3> QED BY <1>1, <1>5, PairFacts
  <2>2. /\ IsElement(head, n) /\ (x[1] \in F => Nonempty(F, head)) /\ head.exprs \in Seq(1 .. n)
    BY <2>1, Zenon DEF IsElement
  <2> HIDE DEF head
  <2>3. exprs1 \in Seq(1 .. n) /\ exprs1 # <<>> /\ Range(exprs1) = {x[2]} \cup Range(head.exprs)
    <3> DEFINE h == head.exprs  y == x[2]  q == <<y>>
    <3>1. h \in Seq(1 .. n) /\ y \in 1 .. n
      BY <2>1, <2>2
    <3> HIDE DEF h, y
    <3>2. q \in Seq(1 .. n) /\ Range(q) = {y} /\ Len(q) = 1
      BY <3>1 DEF Range
    <3> HIDE DEF q
    <3>3. h \o q \in Seq(1 .. n) /\ Range(h \o q) = Range(h) \cup Range(q)
      BY <3>1, <3>2, ConcatProperties, RangeConcatenation
    <3>4. y \in Range(h \o q)
      BY <3>2, <3>3
    <3>5. h \o q # <<>>
      BY <3>3, <3>4, NonemptySeq
    <3>6. Range(h \o q) = {y} \cup Range(h)
      BY <3>2, <3>3
    <3> QED BY <3>3, <3>5, <3>6 DEF h, y, q
  <2> HIDE DEF exprs1
  <2>4. Absorbs(e, head) => Replaces(n, F, k, e, Absorbed(e, head, exprs1))
    <3> DEFINE p == x[1]  R == {x[2]}
    <3>1. Range(e.exprs) = {p} \cup R
      BY <2>1
    <3>2. p \in F => Nonempty(F, head)
      BY <2>2
    <3>3. Range(exprs1) = R \cup Range(head.exprs)
      BY <2>3
    <3> HIDE DEF p, R, e
    <3> QED BY <1>1, <2>2, <2>3, <3>1, <3>2, <3>3, Absorbing
  <2>5. Replaces(n, F, k, e, left)
    BY <1>3, <2>4, Zenon
  <2>6. IsElement(left, n) /\ (k \in F => Nonempty(F, left)) /\ left.exprs \in Seq(1 .. n) /\ left.exprs # <<>>
    <3>1. IsElement(left, n) /\ (k \in F => Nonempty(F, left)) /\ left.exprs \in Seq(1 .. n)
      <4> HIDE DEF left
      <4> QED BY <2>5, Zenon DEF Replaces, IsElement
    <3>2. Absorbs(e, head) => Absorbed(e, head, exprs1).exprs = exprs1
      <4> SUFFICES ASSUME Absorbs(e, head) PROVE Absorbed(e, head, exprs1).exprs = exprs1
        OBVIOUS
      <4>1. e.cls \in {"And", "Or", "MatchFirst", "Each"}
        BY DEF Absorbs
      <4> HIDE DEF e
      <4> QED BY <1>1, <2>2, <2>3, <4>1, AbsorbedFacts
    <3>3. left.exprs # <<>>
      BY <2>1, <2>3, <3>2, Zenon
    <3> QED BY <3>1, <3>3
  <2> HIDE DEF left, e, x
  <2>7. /\ l \in 1 .. n /\ Front(left.exprs) \in Seq(1 .. n)
        /\ Range(left.exprs) = {l} \cup Range(Front(left.exprs))
    <3> DEFINE s == left.exprs
    <3>1. s \in Seq(1 .. n) /\ s # <<>>
      BY <2>6
    <3> HIDE DEF s
    <3>2. Front(s) \in Seq(1 .. n) /\ Last(s) \in 1 .. n /\ Range(s) = Range(Front(s)) \cup {Last(s)}
      BY <3>1, FrontFacts
    <3> QED BY <3>2 DEF s
  <2>8. /\ IsElement(last, n) /\ (l \in F => Nonempty(F, last)) /\ last.exprs \in Seq(1 .. n)
    BY <2>7, Zenon DEF IsElement
  <2> HIDE DEF last, l
  <2>9. exprs2 \in Seq(1 .. n) /\ Range(exprs2) = Range(Front(left.exprs)) \cup Range(last.exprs)
    <3> DEFINE s == Front(left.exprs)  t == last.exprs
    <3>1. s \in Seq(1 .. n) /\ t \in Seq(1 .. n)
      BY <2>7, <2>8
    <3> HIDE DEF s, t
    <3>2. s \o t \in Seq(1 .. n) /\ Range(s \o t) = Range(s) \cup Range(t)
      BY <3>1, ConcatProperties, RangeConcatenation
    <3> QED BY <3>2 DEF s, t
  <2> HIDE DEF exprs2
  <2>10. ASSUME Absorbs(left, last) PROVE Replaces(n, F, k, left, Absorbed(left, last, exprs2))
    <3>1. left.cls = "And" => exprs2 # <<>>
      <4> SUFFICES ASSUME left.cls = "And" PROVE exprs2 # <<>>
        OBVIOUS
      <4>1. last.cls = "And"
        BY <2>10 DEF Absorbs
      <4>2. Arity("And") = Nat \ {0}
        BY DEF Arity, Tokens, Listed
      <4> DEFINE q == last.exprs
      <4>3. Len(q) # 0 /\ q \in Seq(1 .. n)
        <5>1. Len(last.exprs) \in Arity(last.cls)
          BY <2>8, Zenon DEF IsElement
        <5> QED BY <2>8, <4>1, <4>2, <5>1
      <4>4. Range(q) # {}
        <5> HIDE DEF q
        <5>1. q # <<>>
          BY <4>3
        <5> QED BY <4>3, <5>1, SeqRange
      <4>5. PICK y : y \in Range(q)
        BY <4>4
      <4>6. y \in Range(exprs2)
        BY <2>9, <4>5
      <4> QED BY <2>9, <4>6, NonemptySeq
    <3> DEFINE R == Range(Front(left.exprs))
    <3>2. Range(left.exprs) = {l} \cup R /\ Range(exprs2) = R \cup Range(last.exprs)
      BY <2>7, <2>9
    <3> HIDE DEF R
    <3> QED BY <2>6, <2>8, <2>9, <2>10, <3>1, <3>2, Absorbing
  <2>11. Replaces(n, F, k, left, a)
    <3>1. Replaces(n, F, k, left, left)
      BY <1>2, <2>6, Zenon
    <3> QED BY <2>10, <3>1, Zenon
  <2> HIDE DEF a
  <2> QED BY <2>5, <2>11, Replacing
<1> HIDE DEF a, e, x
<1>6. Replaces(n, F, k, e, Streamlined(H, k))
  BY <1>3, <1>4, <1>5, Zenon
<1> QED BY <1>6 DEF e

(* The elements of a grammar that streamline has gone over.                *)
LEMMA StreamlineFacts ==
  ASSUME NEW n \in Nat, NEW X, NEW G \in Seq(X), Len(G) = n, NEW F,
         \A k \in 1 .. n : IsElement(G[k], n) /\ (k \in F => Nonempty(F, G[k]))
  PROVE  LET H == Streamline(G)
         IN  /\ \E T : H \in Seq(T)
             /\ Len(H) = n /\ DOMAIN H = 1 .. n
             /\ \A k \in 1 .. n : /\ IsElement(H[k], n) /\ (k \in F => Nonempty(F, H[k]))
                                  /\ H[k].cls = G[k].cls
                                  /\ G[k].mayReturnEmpty => H[k].mayReturnEmpty
<1> DEFINE D == DOMAIN ParserElement
           V == (UNION {{G[k][y] : y \in D} : k \in 1 .. n}) \cup Seq(1 .. n) \cup BOOLEAN
           T == {G[k] : k \in 1 .. n} \cup [D -> V]
           Kept(H, k) == /\ IsElement(H[k], n) /\ (k \in F => Nonempty(F, H[k])) /\ H[k].cls = G[k].cls
                         /\ (G[k].mayReturnEmpty => H[k].mayReturnEmpty)
                         /\ \A y \in D : H[k][y] \in V
           S == {H \in [1 .. n -> T] : \A k \in 1 .. n : Kept(H, k)}
           upTo[k \in 0 .. n] == IF k = 0 THEN G ELSE StreamlinedAt(upTo[k - 1], k)
           N == [z \in S \X (1 .. n) |-> StreamlinedAt(z[1], z[2])]
<1>1. Streamline(G) = upTo[n]
  BY Zenon DEF Streamline
<1>2. G \in [1 .. n -> T]
  <2>1. G \in [1 .. n -> {G[k] : k \in 1 .. n}]
    BY LenProperties
  <2> QED BY <2>1
<1>3. \A k \in 1 .. n, y \in D : G[k][y] \in V
  OBVIOUS
<1> HIDE DEF D
<1>4. ASSUME NEW H \in S, NEW k \in 1 .. n PROVE StreamlinedAt(H, k) \in S
  <2> DEFINE a == Streamlined(H, k)  e == H[k]
  <2>1. H \in [1 .. n -> T] /\ \A j \in 1 .. n : Kept(H, j)
    BY Zenon
  <2>2. \A j \in 1 .. n : IsElement(H[j], n) /\ (j \in F => Nonempty(F, H[j]))
    BY <2>1, Zenon
  <2>3. Replaces(n, F, k, e, a)
    BY <2>2, StreamlinedReplaces
  <2>4. Kept(H, k) /\ e \in T
    BY <2>1, Zenon
  <2> HIDE DEF a
  <2>5. DOMAIN e = D
    BY <2>2, Zenon DEF IsElement, D
  <2>6. a = e \/ (a = [y \in D |-> a[y]] /\ \A y \in D : a[y] \in V)
    <3> SUFFICES ASSUME a # e PROVE a = [y \in D |-> a[y]] /\ \A y \in D : a[y] \in V
      OBVIOUS
    <3>1. a = [y \in D |-> a[y]]
      BY <2>3, <2>5, Zenon DEF Replaces
    <3>2. \A y \in D \ AbsorbFields : a[y] = e[y]
      BY <2>3, <2>5, Zenon DEF Replaces
    <3>3. \A y \in D : e[y] \in V
      BY <2>4, Zenon
    <3>4. a.exprs \in V /\ a.mayReturnEmpty \in V /\ a.mayIndexError \in V
      <4>1. a.exprs \in Seq(1 .. n) /\ a.mayReturnEmpty \in BOOLEAN /\ a.mayIndexError \in BOOLEAN
        BY <2>3, Zenon DEF Replaces
      <4> QED BY <4>1
    <3> HIDE DEF V, e
    <3>5. \A y \in AbsorbFields : a[y] \in V
      BY <3>4 DEF AbsorbFields
    <3> QED BY <3>1, <3>2, <3>3, <3>5
  <2>7. a \in T /\ \A y \in D : a[y] \in V
    <3>1. CASE a = e
      BY <2>4, <3>1, Zenon
    <3>2. CASE a = [y \in D |-> a[y]] /\ \A y \in D : a[y] \in V
      <4> HIDE DEF V
      <4>1. a \in [D -> V]
        BY <3>2
      <4> QED BY <3>2, <4>1
    <3> QED BY <2>6, <3>1, <3>2
  <2>8. /\ IsElement(a, n) /\ (k \in F => Nonempty(F, a)) /\ a.cls = e.cls
        /\ (e.mayReturnEmpty => a.mayReturnEmpty)
    BY <2>3, Zenon DEF Replaces
  <2> DEFINE J == [H EXCEPT ![k] = a]
  <2>9. J[k] = a /\ (\A j \in 1 .. n : j # k => J[j] = H[j]) /\ J \in [1 .. n -> T]
    <3> HIDE DEF T
    <3> QED BY <2>1, <2>7
  <2> HIDE DEF J, V, T
  <2>10. ASSUME NEW j \in 1 .. n PROVE Kept(J, j)
    <3>1. CASE j = k
      BY <2>4, <2>7, <2>8, <2>9, <3>1, Zenon
    <3>2. CASE j # k
      BY <2>1, <2>9, <3>2, Zenon
    <3> QED BY <3>1, <3>2
  <2> HIDE DEF Kept
  <2>11. J \in S
    BY <2>9, <2>10
  <2>12. StreamlinedAt(H, k) = J
    BY Zenon DEF StreamlinedAt, J, a
  <2> HIDE DEF S
  <2> QED BY <2>11, <2>12
<1>5. G \in S
  <2>1. \A k \in 1 .. n : Kept(G, k)
    <3> HIDE DEF V
    <3> QED BY <1>3, Zenon
  <2> HIDE DEF T, Kept
  <2> QED BY <1>2, <2>1
<1>a. \A H \in S : H \in [1 .. n -> T] /\ \A k \in 1 .. n : Kept(H, k)
  <2> HIDE DEF T, Kept
  <2> QED OBVIOUS
<1> HIDE DEF S
<1>6. N \in [S \X (1 .. n) -> S]
  BY <1>4
<1>7. PICK f \in [0 .. n -> S] : Iterates(f, n, G, N)
  <2> HIDE DEF N
  <2> QED BY <1>5, <1>6, Iteration, Zenon
<1>8. f = [i \in 0 .. n |-> IF i = 0 THEN G ELSE StreamlinedAt(f[i - 1], i)]
  <2>1. \A i \in 0 .. n : i # 0 => N[<<f[i - 1], i>>] = StreamlinedAt(f[i - 1], i)
    <3> SUFFICES ASSUME NEW i \in 0 .. n, i # 0
                 PROVE  N[<<f[i - 1], i>>] = StreamlinedAt(f[i - 1], i)
      OBVIOUS
    <3>1. i - 1 \in 0 .. n /\ i \in 1 .. n
      OBVIOUS
    <3>2. f[i - 1] \in S
      BY <1>7, <3>1
    <3> QED BY <3>1, <3>2
  <2>2. f = [i \in 0 .. n |-> IF i = 0 THEN G ELSE N[<<f[i - 1], i>>]]
    BY <1>7, Zenon DEF Iterates
  <2> HIDE DEF N
  <2> QED BY <2>1, <2>2
<1>9. upTo = [i \in 0 .. n |-> IF i = 0 THEN G ELSE StreamlinedAt(upTo[i - 1], i)]
  BY <1>8
<1> HIDE DEF upTo
<1>10. upTo[0] = G /\ \A i \in 1 .. n : upTo[i] = StreamlinedAt(upTo[i - 1], i)
  <2>1. \A i \in 0 .. n : upTo[i] = IF i = 0 THEN G ELSE StreamlinedAt(upTo[i - 1], i)
    BY <1>9, Zenon
  <2> QED BY <2>1
<1> DEFINE U == {i \in 0 .. n : upTo[i] \in S}
<1>11. \A i \in 0 .. n : i \in U
  <2>1. 0 \in U
    BY <1>5, <1>10
  <2>2. ASSUME NEW i \in 1 .. n, i - 1 \in U PROVE i \in U
    <3>1. upTo[i - 1] \in S /\ i \in 0 .. n
      BY <2>2
    <3>2. upTo[i] = StreamlinedAt(upTo[i - 1], i)
      BY <1>10
    <3> QED BY <1>4, <3>1, <3>2
  <2> HIDE DEF U
  <2> QED BY <2>1, <2>2, IndexInduction, Zenon
<1>12. upTo[n] \in S
  <2>1. n \in U
    <3> HIDE DEF U
    <3> QED BY <1>11
  <2> QED BY <2>1
<1> DEFINE H == Streamline(G)
<1>13. H \in [1 .. n -> T] /\ \A k \in 1 .. n : Kept(H, k)
  <2>1. H = upTo[n]
    BY <1>1
  <2> HIDE DEF H, T, Kept
  <2> QED BY <1>12, <2>1, <1>a, Zenon
<1>14. \A k \in 1 .. n : /\ IsElement(H[k], n) /\ (k \in F => Nonempty(F, H[k]))
                         /\ H[k].cls = G[k].cls /\ (G[k].mayReturnEmpty => H[k].mayReturnEmpty)
  BY <1>13, Zenon
<1>15. H \in Seq(T) /\ Len(H) = n /\ DOMAIN H = 1 .. n
  <2> HIDE DEF H, T, Kept
  <2> QED BY <1>13
<1> QED BY <1>14, <1>15, Zenon

(* What the flag says holds when it is current.                            *)
LEMMA CurrentIsNonempty ==
  ASSUME NEW n \in Nat, NEW G, DOMAIN G = 1 .. n, NEW e, IsElement(e, n),
         FlagIsCurrent(G, e), ~e.mayReturnEmpty
  PROVE  Nonempty({k \in 1 .. n : ~G[k].mayReturnEmpty}, e)
<1> DEFINE F == {k \in 1 .. n : ~G[k].mayReturnEmpty}  x == e.exprs
           empties == \A i \in DOMAIN x : G[x[i]].mayReturnEmpty
           none == \A i \in DOMAIN x : ~G[x[i]].mayReturnEmpty
<1>1. x \in Seq(1 .. n)
  BY Zenon DEF IsElement
<1>2. \A i \in DOMAIN x : x[i] \in 1 .. n
  <2> HIDE DEF x
  <2> QED BY <1>1
<1>3. \A i \in DOMAIN x : x[i] \in F <=> ~G[x[i]].mayReturnEmpty
  <2> HIDE DEF x
  <2> QED BY <1>2
<1>4. AllEmpty(G, x) <=> empties
  BY DEF AllEmpty, Parts
<1>5. SomeEmpty(G, x) <=> x = <<>> \/ \E i \in DOMAIN x : G[x[i]].mayReturnEmpty
  BY DEF SomeEmpty, Parts
<1>6. (\A part \in Parts(G, x) : ~part.mayReturnEmpty) <=> none
  BY DEF Parts
<1> DEFINE someIn == \E i \in DOMAIN x : x[i] \in F
           allIn  == \A i \in DOMAIN x : x[i] \in F
<1>7. (~empties <=> someIn) /\ (none <=> allIn)
  BY <1>3
<1>8. /\ e.cls \in {"And", "Each"} => someIn
      /\ e.cls \in {"Or", "MatchFirst"} => x # <<>> /\ allIn
      /\ e.cls \in Enhanced \cup {"OneOrMore"} => allIn
      /\ e.cls \in {"Literal", "Keyword", "CaselessLiteral", "CaselessKeyword"} => e.arg.match # <<>>
      /\ e.cls \in {"And", "Each", "Or", "MatchFirst", "OneOrMore", "Literal", "Keyword",
                    "CaselessLiteral", "CaselessKeyword", "Word", "Char", "CharsNotIn"} \cup Enhanced
  <2>1. CASE e.cls \in {"And", "Each"}
    <3>1. ~AllEmpty(G, x)
      BY <2>1 DEF FlagIsCurrent, Enhanced
    <3>2. someIn
      BY <1>4, <1>7, <3>1, Zenon
    <3> HIDE DEF someIn, allIn, x
    <3> QED BY <2>1, <3>2 DEF Enhanced
  <2>2. CASE e.cls \in {"Or", "MatchFirst"}
    <3>1. ~SomeEmpty(G, x)
      BY <2>2 DEF FlagIsCurrent, Enhanced
    <3>2. x # <<>> /\ none
      BY <1>5, <3>1
    <3>3. x # <<>> /\ allIn
      BY <1>7, <3>2, Zenon
    <3> HIDE DEF someIn, allIn, x
    <3> QED BY <2>2, <3>3 DEF Enhanced
  <2>3. CASE e.cls \in Enhanced \cup {"OneOrMore"}
    <3>1. \A part \in Parts(G, x) : ~part.mayReturnEmpty
      BY <2>3 DEF FlagIsCurrent, Enhanced
    <3>2. allIn
      BY <1>6, <1>7, <3>1, Zenon
    <3> HIDE DEF someIn, allIn, x
    <3> QED BY <2>3, <3>2 DEF Enhanced
  <2>4. CASE e.cls \in {"Literal", "Keyword", "CaselessLiteral", "CaselessKeyword"}
    <3>1. e.arg.match # <<>>
      BY <2>4 DEF FlagIsCurrent, Enhanced
    <3> HIDE DEF someIn, allIn, x
    <3> QED BY <2>4, <3>1 DEF Enhanced
  <2>5. CASE e.cls \notin {"And", "Each", "Or", "MatchFirst", "OneOrMore", "Literal", "Keyword",
                           "CaselessLiteral", "CaselessKeyword"} \cup Enhanced
    <3>1. e.cls \in {"Word", "Char", "CharsNotIn"}
      BY <2>5 DEF FlagIsCurrent
    <3> HIDE DEF someIn, allIn, x
    <3> QED BY <2>5, <3>1 DEF Enhanced
  <2> QED BY <2>1, <2>2, <2>3, <2>4, <2>5 DEF Enhanced
<1>9. Nonempty(F, e)
  <2> HIDE DEF F
  <2> QED BY <1>8 DEF Nonempty
<1> QED BY <1>9 DEF F

LEMMA GrammarIsOK ==
  ASSUME grammar \in DOMAIN Grammars, instring \in Seq(STRING)
  PROVE  /\ GrammarOK /\ Prepared[grammar].root \in DOMAIN E
         /\ \A k \in DOMAIN E : grammar \in Consistent /\ ~E[k].mayReturnEmpty => k \in Flagless
<1> DEFINE G == Prepared[grammar].built  n == Len(G)
           F == IF grammar \in Consistent THEN {k \in 1 .. n : ~G[k].mayReturnEmpty} ELSE {}
<1>1. /\ G = Grammars[grammar].elements /\ E = Streamline(G)
      /\ Prepared[grammar].root = Grammars[grammar].root /\ DOMAIN Prepared = DOMAIN Grammars
  BY DEF Prepared, E
<1>2. /\ G \in Seq({G[k] : k \in DOMAIN G}) /\ Prepared[grammar].root \in DOMAIN G
      /\ \A k \in DOMAIN G : IsElement(G[k], n)
  <2>1. LET g == Grammars[grammar].elements
        IN  /\ g \in Seq({g[k] : k \in DOMAIN g}) /\ Grammars[grammar].root \in DOMAIN g
            /\ \A k \in DOMAIN g : IsElement(g[k], Len(g))
    BY GrammarsAssumption, Zenon
  <2> HIDE DEF G
  <2> QED BY <1>1, <2>1, Zenon
<1>3. ASSUME grammar \in Consistent
      PROVE  /\ \A k \in DOMAIN G : FlagIsCurrent(G, G[k])
             /\ \A k \in DOMAIN E : BodiesApart(E, E[k])
             /\ grammar \in WithoutCloseMatch
  <2>1. /\ grammar \in WithoutCloseMatch
        /\ \A e \in Range(G) : FlagIsCurrent(G, e)
        /\ \A e \in Range(E) : BodiesApart(E, e)
    BY <1>3, Zenon DEF Consistent, E
  <2> HIDE DEF G
  <2>2. (\A k \in DOMAIN G : G[k] \in Range(G)) /\ (\A k \in DOMAIN E : E[k] \in Range(E))
    BY DEF Range
  <2> QED BY <2>1, <2>2, Zenon
<1> DEFINE X == {G[k] : k \in DOMAIN G}
<1>4. n \in Nat /\ DOMAIN G = 1 .. n /\ G \in Seq(X)
  <2>1. G \in Seq(X)
    BY <1>2
  <2> HIDE DEF G, X
  <2> QED BY <2>1, LenProperties
<1> HIDE DEF n, X, G
<1>5. \A k \in 1 .. n : IsElement(G[k], n) /\ (k \in F => Nonempty(F, G[k]))
  <2> SUFFICES ASSUME NEW k \in 1 .. n, k \in F PROVE Nonempty(F, G[k])
    BY <1>2, <1>4, Zenon
  <2>1. grammar \in Consistent /\ ~G[k].mayReturnEmpty
    BY Zenon
  <2>2. F = {j \in 1 .. n : ~G[j].mayReturnEmpty}
    BY <2>1, Zenon
  <2>3. FlagIsCurrent(G, G[k]) /\ IsElement(G[k], n)
    BY <1>2, <1>3, <1>4, <2>1, Zenon
  <2> HIDE DEF F
  <2> QED BY <1>4, <2>1, <2>2, <2>3, CurrentIsNonempty
<1>6. /\ Len(E) = n /\ DOMAIN E = 1 .. n
      /\ \A k \in 1 .. n : /\ IsElement(E[k], n) /\ (k \in F => Nonempty(F, E[k]))
                           /\ G[k].mayReturnEmpty => E[k].mayReturnEmpty
  <2> HIDE DEF F
  <2> DEFINE H == Streamline(G)
  <2>1. n = Len(G)
    BY DEF n
  <2>2. /\ Len(H) = n /\ DOMAIN H = 1 .. n
        /\ \A k \in 1 .. n : /\ IsElement(H[k], n) /\ (k \in F => Nonempty(F, H[k]))
                             /\ G[k].mayReturnEmpty => H[k].mayReturnEmpty
    BY <1>4, <1>5, <2>1, StreamlineFacts
  <2>3. E = H
    BY <1>1
  <2> HIDE DEF H
  <2> QED BY <2>2, <2>3, Zenon
<1>7. Flagless = F
  BY <1>6, Zenon DEF Flagless, G
<1> HIDE DEF F
<1>8. F # {} => grammar \in Consistent
  BY DEF F
<1>9. F \subseteq 1 .. n
  BY DEF F
<1>10. \A k \in Flagless : k \in DOMAIN E /\ Nonempty(Flagless, E[k]) /\ BodiesApart(E, E[k])
  <2> SUFFICES ASSUME NEW k \in Flagless
               PROVE  k \in DOMAIN E /\ Nonempty(Flagless, E[k]) /\ BodiesApart(E, E[k])
    OBVIOUS
  <2>1. k \in 1 .. n /\ k \in F
    BY <1>7, <1>9
  <2>2. grammar \in Consistent
    BY <1>8, <2>1, Zenon
  <2> QED BY <1>3, <1>6, <1>7, <2>1, <2>2, Zenon
<1>11. GrammarOK
  <2>1. Len(instring) \in Nat /\ \E S : instring \in Seq(S)
    BY LenProperties
  <2>2. Flagless # {} => grammar \in WithoutCloseMatch
    BY <1>3, <1>7, <1>8, Zenon
  <2> QED BY <1>4, <1>6, <1>10, <2>1, <2>2, Zenon DEF GrammarOK
<1>12. \A k \in DOMAIN E : grammar \in Consistent /\ ~E[k].mayReturnEmpty => k \in Flagless
  <2> SUFFICES ASSUME NEW k \in 1 .. n, grammar \in Consistent, ~E[k].mayReturnEmpty
               PROVE  k \in F
    BY <1>6, <1>7, Zenon
  <2>1. ~G[k].mayReturnEmpty
    BY <1>6, Zenon
  <2> QED BY <2>1 DEF F
<1> QED BY <1>2, <1>4, <1>6, <1>11, <1>12, Zenon

(***************************************************************************)
(* The grammar and the input stay, and with them all that depends on       *)
(* nothing else                                                            *)
(***************************************************************************)
Stays == grammar' = grammar /\ instring' = instring

LEMMA StaysGrammar ==
  ASSUME Stays
  PROVE  /\ E' = E /\ Flagless' = Flagless /\ Len(instring)' = Len(instring)
         /\ \A a : Base(a)' = Base(a)
         /\ \A f : Elem(f)' = Elem(f)
         /\ \A f, i : Part(f, i)' = Part(f, i)
<1>1. E' = E
  BY Zenon DEF Stays, E
<1>2. Flagless' = Flagless
  BY <1>1, Zenon DEF Stays, Flagless
<1>3. \A a : Base(a)' = Base(a)
  BY Zenon DEF Stays, Base
<1>4. \A f : Elem(f)' = Elem(f)
  BY <1>1, Zenon DEF Elem
<1>5. \A f, i : Part(f, i)' = Part(f, i)
  BY <1>4, Zenon DEF Part
<1> QED BY <1>1, <1>2, <1>3, <1>4, <1>5, Zenon DEF Stays

LEMMA StaysCalls ==
  ASSUME Stays
  PROVE  /\ \A c : IsCall(c)' <=> IsCall(c)
         /\ \A o : IsOutcome(o)' <=> IsOutcome(o)
         /\ \A c, o : Answers(c, o)' <=> Answers(c, o)
         /\ \A f : IsFrame(f)' <=> IsFrame(f)
         /\ \A f : Called(f)' <=> Called(f)
         /\ \A f, act : ActsFor(f, act)' <=> ActsFor(f, act)
<1>1. /\ E' = E /\ Flagless' = Flagless /\ instring' = instring
      /\ \A a : Base(a)' = Base(a)
      /\ \A f : Elem(f)' = Elem(f)
  BY StaysGrammar, Zenon DEF Stays
<1>2. \A c : IsCall(c)' <=> IsCall(c)
  BY <1>1, Zenon DEF IsCall
<1>3. \A o : IsOutcome(o)' <=> IsOutcome(o)
  BY <1>1, Zenon DEF IsOutcome
<1>4. \A e, loc, end, to : Matches(e, loc, end, to)' <=> Matches(e, loc, end, to)
  BY <1>1, Zenon DEF Matches
<1>5. \A c, o : Answers(c, o)' <=> Answers(c, o)
  BY <1>3, <1>4, Zenon DEF Answers
<1>6. \A f : IsFrame(f)' <=> IsFrame(f)
  <2>1. \A o : IsFailure(o)' <=> IsFailure(o)
    BY <1>3, Zenon DEF IsFailure
  <2> QED BY <1>1, <1>2, <2>1, Zenon DEF IsFrame
<1>7. \A f : Called(f)' <=> Called(f)
  BY <1>1 DEF Called
<1>8. \A f : LetsAct(f)' <=> LetsAct(f)
  BY <1>1, Zenon DEF LetsAct, ActsAhead, Committed
<1>9. \A f : Restarts(f)' <=> Restarts(f)
  BY <1>1, Zenon DEF Restarts
<1>10. \A f, act : ActsFor(f, act)' <=> ActsFor(f, act)
  BY <1>8, <1>9, Zenon DEF ActsFor
<1> QED BY <1>2, <1>3, <1>5, <1>6, <1>7, <1>10, Zenon

LEMMA StaysEach ==
  ASSUME Stays
  PROVE  \A f, c : AwaitsEach(f, c)' <=> AwaitsEach(f, c)
<1>1. /\ E' = E /\ Flagless' = Flagless
      /\ \A a : Base(a)' = Base(a)
      /\ \A f : Elem(f)' = Elem(f)
  BY StaysGrammar, Zenon
<1>2. \A f, classes : OfClass(f, classes)' = OfClass(f, classes)
  BY <1>1, Zenon DEF OfClass
<1>3. \A exprs : BodiesOf(exprs)' = BodiesOf(exprs)
  BY <1>1, Zenon DEF BodiesOf
<1>4. \A f : Required(f)' = Required(f)
  BY <1>1, <1>2, <1>3, Zenon DEF Required, Multirequired, Single
<1>5. \A f, e : Whole(f, e)' = Whole(f, e)
  BY <1>1, <1>2, Zenon DEF Whole, Wholes
<1>6. \A f, r : IsRound(f, r)' <=> IsRound(f, r)
  BY <1>1, <1>4, <1>5, Zenon DEF IsRound
<1> SUFFICES ASSUME NEW f, NEW c PROVE AwaitsEach(f, c)' <=> AwaitsEach(f, c)
  OBVIOUS
<1>7. /\ E' = E /\ Flagless' = Flagless /\ Base(f.loc)' = Base(f.loc)
      /\ IsRound(f, f.todo)' <=> IsRound(f, f.todo)
  BY <1>1, <1>6, Zenon
<1> QED BY <1>7 DEF AwaitsEach

LEMMA StaysAwaits ==
  ASSUME Stays
  PROVE  /\ \A f, c : Expects(f, c)' <=> Expects(f, c)
         /\ \A f, o : Waits(f, o)' <=> Waits(f, o)
<1>1. /\ E' = E /\ Flagless' = Flagless /\ instring' = instring
      /\ \A a : Base(a)' = Base(a)
      /\ \A f : Elem(f)' = Elem(f)
      /\ \A f, i : Part(f, i)' = Part(f, i)
  BY StaysGrammar, Zenon DEF Stays
<1>2. \A f, c : AwaitsIgnorable(f, c)' <=> AwaitsIgnorable(f, c)
  BY <1>1, Zenon DEF AwaitsIgnorable
<1>3. \A f, c : AwaitsAnd(f, c)' <=> AwaitsAnd(f, c)
  BY <1>1, Zenon DEF AwaitsAnd
<1>4. \A f, c : AwaitsPart(f, c)' <=> AwaitsPart(f, c)
  BY <1>1, Zenon DEF AwaitsPart
<1>5. \A f, c : AwaitsMultiple(f, c)' <=> AwaitsMultiple(f, c)
  <2> SUFFICES ASSUME NEW f, NEW c PROVE AwaitsMultiple(f, c)' <=> AwaitsMultiple(f, c)
    OBVIOUS
  <2>1. /\ Flagless' = Flagless /\ Elem(f)' = Elem(f) /\ Part(f, 1)' = Part(f, 1)
        /\ Base(f.loc)' = Base(f.loc) /\ Base(f.last)' = Base(f.last)
        /\ FirstTime(f)' <=> FirstTime(f)
        /\ AwaitsIgnorable(f, c)' <=> AwaitsIgnorable(f, c)
    BY <1>1, <1>2, Zenon DEF FirstTime
  <2> QED BY <2>1 DEF AwaitsMultiple
<1>6. \A f, c : AwaitsSkipTo(f, c)' <=> AwaitsSkipTo(f, c)
  BY <1>1, Zenon DEF AwaitsSkipTo
<1>7. \A f : Alternatives(f)' = Alternatives(f)
  BY <1>1, Zenon DEF Alternatives
<1>8. \A f : Preparses(f)' <=> Preparses(f)
  BY <1>1, Zenon DEF Preparses
<1>9. \A f, c : Awaits(f, c)' <=> Awaits(f, c)
  <2> SUFFICES ASSUME NEW f, NEW c PROVE Awaits(f, c)' <=> Awaits(f, c)
    OBVIOUS
  <2>1. /\ Elem(f)' = Elem(f) /\ (AwaitsIgnorable(f, c)' <=> AwaitsIgnorable(f, c))
        /\ AwaitsAnd(f, c)' <=> AwaitsAnd(f, c)
        /\ AwaitsPart(f, c)' <=> AwaitsPart(f, c)
        /\ AwaitsMultiple(f, c)' <=> AwaitsMultiple(f, c)
        /\ AwaitsSkipTo(f, c)' <=> AwaitsSkipTo(f, c)
        /\ Alternatives(f)' = Alternatives(f)
        /\ Preparses(f)' <=> Preparses(f)
        /\ AwaitsEach(f, c)' <=> AwaitsEach(f, c)
    BY <1>1, <1>2, <1>3, <1>4, <1>5, <1>6, <1>7, <1>8, StaysEach, Zenon
  <2> QED BY <2>1 DEF Awaits, Unbegun
<1>10. \A f, c : Expects(f, c)' <=> Expects(f, c)
  BY <1>9, StaysCalls, Zenon DEF Expects
<1>11. \A f : Fresh(f)' <=> Fresh(f)
  BY StaysCalls, Zenon DEF Fresh
<1>12. \A f, o : Waits(f, o)' <=> Waits(f, o)
  BY <1>10, <1>11, StaysCalls, Zenon DEF Waits
<1> QED BY <1>10, <1>12, Zenon

(***************************************************************************)
(* The machine                                                             *)
(***************************************************************************)
IsStack(s) ==
  /\ \E S : s \in Seq(S)
  /\ Len(s) <= MaxDepth
  /\ \A i \in 1 .. Len(s) : IsFrame(s[i]) /\ (s[i].phase = "preParse only" => i = 1)
  /\ \A i \in 1 .. Len(s) - 1 : Expects(s[i], s[i + 1].call)

IsCache(k) ==
  /\ \E S : k \in Seq(S)
  /\ \A i \in 1 .. Len(k) : IsCall(k[i].key) /\ Answers(k[i].key, k[i].value)

IsDriver(d) ==
  /\ DOMAIN d = {"phase", "loc", "preloc", "matches", "result"}
  /\ d.loc \in 0 .. Len(instring) /\ d.preloc \in Nat

(* d is the driver, s the stack, c the call, o the outcome, k the cache.   *)
IsMachine(d, s, c, o, k) ==
  /\ IsDriver(d) /\ IsStack(s) /\ IsCache(k)
  /\ o = NoOutcome \/ IsOutcome(o)
  /\ d.phase = "start" => s = <<>> /\ c = NoCall /\ o = NoOutcome
  /\ c # NoCall => o = NoOutcome /\ IsCall(c) /\ (s # <<>> => Expects(Last(s), c))
  /\ c = NoCall /\ s # <<>> => Waits(Last(s), o)

ParserInv ==
  /\ grammar \in DOMAIN Grammars /\ instring \in Seq(STRING)
  /\ IsMachine(driver, stack, call, out, cache)

LEMMA PushStack ==
  ASSUME GrammarOK, NEW s, IsStack(s), Len(s) < MaxDepth, NEW c, IsCall(c),
         s # <<>> => Expects(Last(s), c)
  PROVE  LET t == Append(s, Frame(c))
         IN  IsStack(t) /\ t # <<>> /\ Last(t) = Frame(c) /\ Waits(Frame(c), NoOutcome)
<1> DEFINE f == Frame(c)  t == Append(s, f)
<1>1. PICK S : s \in Seq(S)
  BY DEF IsStack
<1>2. f.call = c /\ f.phase = "preParse"
  BY FrameFacts
<1>3. Fresh(f)
  BY <1>2, Zenon DEF Fresh
<1>4. IsFrame(f)
  BY <1>3, FreshFacts
<1> HIDE DEF f
<1>5. /\ t \in Seq(S \cup {f}) /\ Len(t) = Len(s) + 1 /\ Len(s) \in Nat /\ t[Len(s) + 1] = f
      /\ \A i \in 1 .. Len(s) : t[i] = s[i]
  <2>1. s \in Seq(S \cup {f})
    BY <1>1
  <2> QED BY <2>1, AppendProperties
<1>6. s # <<>> => Last(s) = s[Len(s)] /\ Len(s) > 0
  BY <1>1 DEF Last
<1>7. Last(t) = t[Len(t)]
  BY DEF Last
<1> HIDE DEF t
<1>8. Last(t) = f /\ t # <<>>
  BY <1>5, <1>7
<1>9. Len(t) <= MaxDepth
  BY <1>5, BoundsAssumption
<1>10. ASSUME NEW i \in 1 .. Len(t) PROVE IsFrame(t[i]) /\ (t[i].phase = "preParse only" => i = 1)
  <2>1. CASE i = Len(t)
    BY <1>2, <1>4, <1>5, <2>1
  <2>2. CASE i # Len(t)
    <3>1. i \in 1 .. Len(s)
      BY <1>5, <2>2
    <3> QED BY <1>5, <3>1 DEF IsStack
  <2> QED BY <2>1, <2>2
<1>11. ASSUME NEW i \in 1 .. Len(t) - 1 PROVE Expects(t[i], t[i + 1].call)
  <2>1. CASE i = Len(s)
    <3>1. s # <<>> /\ t[i] = Last(s) /\ t[i + 1] = f
      BY <1>1, <1>5, <1>6, <2>1
    <3> QED BY <1>2, <3>1, Zenon
  <2>2. CASE i # Len(s)
    <3>1. i \in 1 .. Len(s) - 1 /\ t[i] = s[i] /\ t[i + 1] = s[i + 1]
      BY <1>5, <2>2
    <3> QED BY <3>1, Zenon DEF IsStack
  <2> QED BY <2>1, <2>2
<1>12. IsStack(t)
  <2>1. \E T : t \in Seq(T)
    BY <1>5, Zenon
  <2> QED BY <1>9, <1>10, <1>11, <2>1, Zenon DEF IsStack
<1>13. Waits(f, NoOutcome)
  BY <1>3, Zenon DEF Waits
<1> QED BY <1>8, <1>12, <1>13, Zenon DEF f, t

LEMMA TopFacts ==
  ASSUME NEW s, IsStack(s), s # <<>>
  PROVE  /\ Len(s) \in Nat /\ Len(s) > 0 /\ DOMAIN s = 1 .. Len(s) /\ Last(s) = s[Len(s)]
         /\ IsFrame(Last(s)) /\ (Last(s).phase = "preParse only" => Len(s) = 1)
<1>1. PICK S : s \in Seq(S)
  BY DEF IsStack
<1>2. Len(s) \in Nat /\ Len(s) > 0 /\ DOMAIN s = 1 .. Len(s) /\ Last(s) = s[Len(s)]
  BY <1>1, LenProperties DEF Last
<1>3. Len(s) \in 1 .. Len(s)
  BY <1>2
<1>4. IsFrame(s[Len(s)]) /\ (s[Len(s)].phase = "preParse only" => Len(s) = 1)
  BY <1>3, Zenon DEF IsStack
<1> QED BY <1>2, <1>4, Zenon

LEMMA PopStack ==
  ASSUME NEW s, IsStack(s), s # <<>>
  PROVE  /\ IsStack(Front(s)) /\ Len(Front(s)) = Len(s) - 1
         /\ Front(s) # <<>> => Expects(Last(Front(s)), Last(s).call)
<1> DEFINE t == Front(s)
<1>1. PICK S : s \in Seq(S)
  BY DEF IsStack
<1>2. /\ t \in Seq(S) /\ Len(t) = Len(s) - 1 /\ \A i \in 1 .. Len(s) - 1 : t[i] = s[i]
  BY <1>1, FrontFacts
<1>3. Len(s) \in Nat /\ Len(s) > 0 /\ Last(s) = s[Len(s)]
  BY TopFacts
<1> HIDE DEF t
<1>4. \A i \in 1 .. Len(t) : i \in 1 .. Len(s) /\ t[i] = s[i]
  BY <1>2, <1>3
<1>5. \A i \in 1 .. Len(t) - 1 : i \in 1 .. Len(s) - 1 /\ t[i] = s[i] /\ t[i + 1] = s[i + 1]
  BY <1>2, <1>3
<1>6. Len(t) <= MaxDepth
  <2>1. Len(s) <= MaxDepth
    BY DEF IsStack
  <2> QED BY <1>2, <1>3, <2>1, BoundsAssumption
<1>7. IsStack(t)
  BY <1>2, <1>4, <1>5, <1>6, Zenon DEF IsStack
<1>8. ASSUME t # <<>> PROVE Expects(Last(t), Last(s).call)
  <2>1. Len(t) \in 1 .. Len(s) - 1 /\ Len(t) + 1 = Len(s) /\ Last(t) = s[Len(t)]
    BY <1>2, <1>3, <1>8 DEF Last
  <2>2. Expects(s[Len(t)], s[Len(t) + 1].call)
    BY <2>1, Zenon DEF IsStack
  <2> QED BY <1>3, <2>1, <2>2, Zenon
<1> QED BY <1>2, <1>7, <1>8 DEF t

(* s with g in its place n.                                                *)
Topped(s, n, g) == [s EXCEPT ![n] = g]

LEMMA ReplacedSeq ==
  ASSUME NEW S, NEW s \in Seq(S), NEW n \in Nat, n > 0, Len(s) = n, NEW g
  PROVE  LET t == Topped(s, n, g)
         IN  /\ (\E T : t \in Seq(T)) /\ Len(t) = n /\ t[n] = g /\ t # <<>> /\ Last(t) = g
             /\ \A i \in 1 .. n : i # n => t[i] = s[i]
<1> DEFINE t == [s EXCEPT ![n] = g]
<1>1. s \in [1 .. n -> S] /\ n \in 1 .. n
  BY LenProperties
<1>2. t \in [1 .. n -> S \cup {g}]
  BY <1>1
<1>3. t[n] = g /\ \A i \in 1 .. n : i # n => t[i] = s[i]
  BY <1>1
<1> HIDE DEF t
<1>4. t \in Seq(S \cup {g}) /\ Len(t) = n
  BY <1>2
<1>5. t # <<>> /\ Last(t) = g
  BY <1>3, <1>4 DEF Last
<1> QED BY <1>3, <1>4, <1>5, Zenon DEF t, Topped

LEMMA IndexBefore ==
  ASSUME NEW n \in Nat, NEW i \in 1 .. n - 1
  PROVE  i \in 1 .. n /\ i # n /\ i + 1 \in 1 .. n
OBVIOUS

(* The frame g is what a step makes of f.                                  *)
Follows(f, g) ==
  IsFrame(g) /\ g.call = f.call /\ (g.phase = "preParse only" => f.phase = "preParse only")

LEMMA ReplaceTop ==
  ASSUME NEW s, IsStack(s), s # <<>>, NEW g, Follows(Last(s), g)
  PROVE  LET t == Topped(s, Len(s), g)
         IN  IsStack(t) /\ t # <<>> /\ Last(t) = g /\ Len(t) = Len(s)
<1> DEFINE n == Len(s)  t == Topped(s, n, g)
<1>1. PICK S : s \in Seq(S)
  BY DEF IsStack
<1>2. n \in Nat /\ n > 0 /\ Last(s) = s[n]
  BY TopFacts
<1>3. Last(s).phase = "preParse only" => n = 1
  BY TopFacts
<1>4. /\ n <= MaxDepth /\ \A i \in 1 .. n - 1 : Expects(s[i], s[i + 1].call)
      /\ \A i \in 1 .. n : IsFrame(s[i]) /\ (s[i].phase = "preParse only" => i = 1)
  BY Zenon DEF IsStack
<1>5. /\ (\E T : t \in Seq(T)) /\ Len(t) = n /\ t[n] = g /\ t # <<>> /\ Last(t) = g
      /\ \A i \in 1 .. n : i # n => t[i] = s[i]
  BY <1>1, <1>2, ReplacedSeq
<1>6. /\ IsFrame(g) /\ g.call = s[n].call /\ (g.phase = "preParse only" => n = 1)
  BY <1>2, <1>3, Zenon DEF Follows
<1> HIDE DEF n, t
<1>7. \A i \in 1 .. n : IsFrame(t[i]) /\ (t[i].phase = "preParse only" => i = 1)
  BY <1>4, <1>5, <1>6, Zenon
<1>8. ASSUME NEW i \in 1 .. n - 1 PROVE Expects(t[i], t[i + 1].call)
  <2>1. i \in 1 .. n /\ i # n /\ i + 1 \in 1 .. n
    BY <1>2, IndexBefore, Zenon
  <2>2. t[i] = s[i]
    BY <1>5, <2>1, Zenon
  <2>3. t[i + 1].call = s[i + 1].call
    <3>1. CASE i + 1 = n
      BY <1>5, <1>6, <3>1, Zenon
    <3>2. CASE i + 1 # n
      BY <1>5, <2>1, <3>2, Zenon
    <3> QED BY <3>1, <3>2
  <2>4. Expects(s[i], s[i + 1].call)
    BY <1>4, Zenon
  <2> QED BY <2>2, <2>3, <2>4, Zenon
<1>9. \E T : t \in Seq(T)
  BY <1>5, Zenon
<1>10. IsStack(t)
  BY <1>4, <1>5, <1>7, <1>8, <1>9, Zenon DEF IsStack
<1> QED BY <1>5, <1>10, Zenon DEF t, n

LEMMA SubSeqCache ==
  ASSUME NEW k, IsCache(k), NEW m \in Nat, m > 0
  PROVE  IsCache(SubSeq(k, m, Len(k)))
<1> DEFINE n == Len(k)  t == SubSeq(k, m, n)
<1>1. PICK S : k \in Seq(S)
  BY DEF IsCache
<1>2. n \in Nat /\ \A i \in 1 .. n : IsCall(k[i].key) /\ Answers(k[i].key, k[i].value)
  BY <1>1, LenProperties DEF IsCache
<1>3. /\ t \in Seq(S) /\ Len(t) = (IF m <= n THEN n - m + 1 ELSE 0)
      /\ \A i \in 1 .. n - m + 1 : t[i] = k[m + i - 1]
  <2>1. \A i \in m .. n : k[i] \in S
    BY <1>1
  <2>2. m \in Int /\ n \in Int
    BY <1>2
  <2> QED BY <1>1, <2>1, <2>2, SubSeqProperties
<1> HIDE DEF t, n
<1>4. ASSUME NEW i \in 1 .. Len(t) PROVE IsCall(t[i].key) /\ Answers(t[i].key, t[i].value)
  <2>1. i \in 1 .. n - m + 1 /\ m + i - 1 \in 1 .. n
    BY <1>2, <1>3
  <2>2. t[i] = k[m + i - 1]
    BY <1>3, <2>1
  <2> QED BY <1>2, <2>1, <2>2, Zenon
<1>5. IsCache(t)
  BY <1>3, <1>4, Zenon DEF IsCache
<1> QED BY <1>5 DEF t, n

LEMMA StoredCache ==
  ASSUME NEW k, IsCache(k), NEW c, IsCall(c), NEW v, Answers(c, v)
  PROVE  IsCache(Stored(k, c, v))
<1> DEFINE x == [key |-> Key(c), value |-> v]
           same == {i \in DOMAIN k : k[i].key = Key(c)}
           r == [i \in DOMAIN k |-> IF i \in same THEN x ELSE k[i]]
           a == Append(k, x)
<1>1. x.key = c /\ x.value = v
  BY DEF Key
<1> HIDE DEF x
<1>2. PICK S : k \in Seq(S)
  BY DEF IsCache
<1>3. /\ Len(k) \in Nat /\ DOMAIN k = 1 .. Len(k)
      /\ \A i \in 1 .. Len(k) : IsCall(k[i].key) /\ Answers(k[i].key, k[i].value)
  BY <1>2, LenProperties DEF IsCache
<1>4. IsCache(r)
  <2>1. r \in [1 .. Len(k) -> S \cup {x}]
    BY <1>2, <1>3
  <2>2. \A i \in 1 .. Len(k) : r[i] = x \/ r[i] = k[i]
    BY <1>3
  <2> HIDE DEF r
  <2>3. Len(r) = Len(k) /\ r \in Seq(S \cup {x})
    BY <1>3, <2>1
  <2>4. \A i \in 1 .. Len(r) : IsCall(r[i].key) /\ Answers(r[i].key, r[i].value)
    BY <1>1, <1>3, <2>2, <2>3, Zenon
  <2> QED BY <2>3, <2>4, Zenon DEF IsCache
<1>5. IsCache(a)
  <2>1. /\ a \in Seq(S \cup {x}) /\ Len(a) = Len(k) + 1 /\ a[Len(k) + 1] = x
        /\ \A i \in 1 .. Len(k) : a[i] = k[i]
    <3>1. k \in Seq(S \cup {x})
      BY <1>2
    <3> QED BY <3>1, AppendProperties
  <2> HIDE DEF a
  <2>2. \A i \in 1 .. Len(a) : i \in 1 .. Len(k) \/ i = Len(k) + 1
    BY <1>3, <2>1
  <2>3. \A i \in 1 .. Len(a) : IsCall(a[i].key) /\ Answers(a[i].key, a[i].value)
    BY <1>1, <1>3, <2>1, <2>2, Zenon
  <2> QED BY <2>1, <2>3, Zenon DEF IsCache
<1>6. IsCache(Evicted(a))
  <2>1. Evicted(a) = a \/ (Len(a) > CacheSize /\ Evicted(a) = SubSeq(a, Len(a) - CacheSize + 1, Len(a)))
    BY DEF Evicted
  <2>2. Len(a) \in Nat
    BY <1>5, LenProperties DEF IsCache
  <2> HIDE DEF a
  <2>3. Len(a) > CacheSize => Len(a) - CacheSize + 1 \in Nat /\ Len(a) - CacheSize + 1 > 0
    BY <2>2, BoundsAssumption
  <2> QED BY <1>5, <2>1, <2>3, SubSeqCache, Zenon
<1>7. Stored(k, c, v) \in {k, r, Evicted(a)}
  BY DEF Stored, x
<1> HIDE DEF r, a
<1> QED BY <1>4, <1>6, <1>7, Zenon

LEMMA ClearedCache ==
  ASSUME IsCache(cache), NEW f, NEW d
  PROVE  IsCache(Cleared(f, d))
<1>1. IsCache(<<>>)
  <2> DEFINE k == <<>>
  <2>1. k \in Seq({}) /\ Len(k) = 0 /\ 1 .. 0 = {}
    OBVIOUS
  <2> HIDE DEF k
  <2>2. IsCache(k)
    BY <2>1 DEF IsCache
  <2> QED BY <2>2 DEF k
<1> QED BY <1>1, Zenon DEF Cleared

LEMMA LookupAnswers ==
  ASSUME IsCache(cache), NEW c, Cached(c)
  PROVE  Answers(c, Lookup(c))
<1> DEFINE i == CHOOSE i \in DOMAIN cache : cache[i].key = Key(c)
<1>1. i \in DOMAIN cache /\ cache[i].key = c
  BY Zenon DEF Cached, Key
<1>2. Lookup(c) = cache[i].value
  BY Zenon DEF Lookup
<1> HIDE DEF i
<1>3. i \in 1 .. Len(cache)
  BY <1>1, LenProperties DEF IsCache
<1> QED BY <1>1, <1>2, <1>3, Zenon DEF IsCache

(* The stack of a call of preParse by the driver.                          *)
LEMMA OneFrame ==
  ASSUME GrammarOK, NEW c, IsCall(c)
  PROVE  LET f == [Frame(c) EXCEPT !.phase = "preParse only"]
             s == <<f>>
         IN  IsStack(s) /\ s # <<>> /\ Last(s) = f /\ Waits(f, NoOutcome)
<1> DEFINE f == [Frame(c) EXCEPT !.phase = "preParse only"]  s == <<f>>
<1>1. f.call = c
  BY DEF Frame
<1>2. Fresh(f)
  BY <1>1, Zenon DEF Fresh
<1>3. IsFrame(f)
  BY <1>2, FreshFacts
<1>4. Waits(f, NoOutcome)
  BY <1>2, Zenon DEF Waits
<1> HIDE DEF f
<1>5. s \in Seq({f}) /\ Len(s) = 1 /\ s[1] = f /\ s # <<>> /\ Last(s) = f
  BY DEF Last
<1> HIDE DEF s
<1>6. Len(s) <= MaxDepth
  BY <1>5, BoundsAssumption
<1>7. (\A i \in 1 .. Len(s) : i = 1) /\ 1 .. Len(s) - 1 = {}
  BY <1>5
<1>8. IsStack(s)
  BY <1>3, <1>5, <1>6, <1>7, Zenon DEF IsStack
<1> QED BY <1>4, <1>5, <1>8, Zenon DEF f, s

(***************************************************************************)
(* The steps                                                               *)
(***************************************************************************)
MachineStep == Stays /\ IsMachine(driver', stack', call', out', cache')

LEMMA InvFacts ==
  ASSUME ParserInv
  PROVE  /\ GrammarOK /\ IsDriver(driver) /\ IsStack(stack) /\ IsCache(cache)
         /\ out = NoOutcome \/ IsOutcome(out)
         /\ driver.phase = "start" => stack = <<>> /\ call = NoCall /\ out = NoOutcome
         /\ call # NoCall => /\ out = NoOutcome /\ IsCall(call)
                             /\ stack # <<>> => Expects(Last(stack), call)
         /\ call = NoCall /\ stack # <<>> => Waits(Last(stack), out)
<1>1. GrammarOK
  BY GrammarIsOK DEF ParserInv
<1> QED BY <1>1, Zenon DEF ParserInv, IsMachine

LEMMA CallIsCall ==
  ASSUME GrammarOK, NEW c, IsCall(c)
  PROVE  c # NoCall
<1>1. c.e \in 1 .. Len(E) /\ Len(E) \in Nat
  BY DEF IsCall, GrammarOK
<1>2. c.e # 0
  BY <1>1
<1>3. NoCall.e = 0
  BY DEF NoCall, Call
<1> QED BY <1>2, <1>3

LEMMA TopIsLast ==
  ASSUME IsStack(stack), NEW f \in Top
  PROVE  stack # <<>> /\ f = Last(stack) /\ IsFrame(f)
<1>1. Len(stack) # 0 /\ f = stack[Len(stack)]
  BY DEF Top
<1>2. stack # <<>> /\ f = Last(stack)
  BY <1>1 DEF Last
<1> QED BY <1>2, TopFacts

LEMMA HitStep ==
  ASSUME ParserInv, Hit PROVE MachineStep
<1> DEFINE v == Lookup(call)
<1>1. /\ call # NoCall /\ Cached(call) /\ out' = v /\ call' = NoCall /\ stack' = stack
      /\ driver' = driver /\ cache' = cache /\ grammar' = grammar /\ instring' = instring
  BY Zenon DEF Hit, args
<1>2. IsCache(cache) /\ IsCall(call) /\ (stack # <<>> => Expects(Last(stack), call))
  BY <1>1, InvFacts
<1>3. Answers(call, v)
  BY <1>1, <1>2, LookupAnswers
<1> HIDE DEF v
<1>4. IsOutcome(v)
  BY <1>3, Zenon DEF Answers
<1>5. stack # <<>> => Waits(Last(stack), v)
  BY <1>2, <1>3, Zenon DEF Waits
<1>6. IsMachine(driver, stack, NoCall, v, cache)
  BY <1>1, <1>4, <1>5, InvFacts, Zenon DEF IsMachine
<1> QED BY <1>1, <1>6, Zenon DEF MachineStep, Stays

LEMMA MissStep ==
  ASSUME ParserInv, Miss PROVE MachineStep
<1> DEFINE f == Frame(call)  t == Append(stack, f)
<1>1. /\ call # NoCall /\ Len(stack) < MaxDepth /\ stack' = t /\ call' = NoCall /\ out' = NoOutcome
      /\ driver' = driver /\ cache' = cache /\ grammar' = grammar /\ instring' = instring
  BY Zenon DEF Miss, args
<1>2. /\ GrammarOK /\ IsStack(stack) /\ IsCall(call) /\ (stack # <<>> => Expects(Last(stack), call))
      /\ driver.phase # "start"
  BY <1>1, InvFacts
<1>3. IsStack(t) /\ t # <<>> /\ Last(t) = f /\ Waits(f, NoOutcome)
  BY <1>1, <1>2, PushStack
<1> HIDE DEF t, f
<1>4. IsMachine(driver, t, NoCall, NoOutcome, cache)
  BY <1>2, <1>3, InvFacts, Zenon DEF IsMachine
<1> QED BY <1>1, <1>4, Zenon DEF MachineStep, Stays

LEMMA TooDeepStep ==
  ASSUME ParserInv, TooDeep PROVE MachineStep
<1> DEFINE v == Fail("RecursionError", 0)
<1>1. /\ call # NoCall /\ out' = v /\ call' = NoCall /\ stack' = stack
      /\ driver' = driver /\ cache' = cache /\ grammar' = grammar /\ instring' = instring
  BY Zenon DEF TooDeep, args
<1>2. GrammarOK /\ (stack # <<>> => Expects(Last(stack), call))
  BY <1>1, InvFacts
<1>3. IsOutcome(v) /\ ~v.ok
  <2>1. 0 \in 0 .. Len(instring) + 1
    BY <1>2 DEF GrammarOK
  <2> QED BY <2>1, FailIsOutcome DEF Exceptions
<1> HIDE DEF v
<1>4. stack # <<>> => Waits(Last(stack), v)
  BY <1>2, <1>3, Zenon DEF Waits, Answers
<1>5. IsMachine(driver, stack, NoCall, v, cache)
  BY <1>1, <1>3, <1>4, InvFacts, Zenon DEF IsMachine
<1> QED BY <1>1, <1>5, Zenon DEF MachineStep, Stays

(* A frame goes on with a call.                                            *)
LEMMA GoesStep ==
  ASSUME ParserInv, stack # <<>>, NEW d, Goes(d), UNCHANGED <<args, driver>>,
         Follows(Last(stack), d.frame), Expects(d.frame, d.call)
  PROVE  MachineStep
<1> DEFINE t == Topped(stack, Len(stack), d.frame)
<1>1. /\ stack' = t /\ call' = d.call /\ out' = NoOutcome /\ cache' = cache
      /\ driver' = driver /\ grammar' = grammar /\ instring' = instring
  BY Zenon DEF Goes, args, Topped
<1>2. GrammarOK /\ IsStack(stack) /\ driver.phase # "start"
  BY InvFacts
<1>3. IsStack(t) /\ t # <<>> /\ Last(t) = d.frame
  BY <1>2, ReplaceTop
<1> HIDE DEF t
<1>4. IsCall(d.call)
  BY DEF Expects
<1>5. d.call # NoCall
  BY <1>2, <1>4, CallIsCall
<1>6. IsMachine(driver, t, d.call, NoOutcome, cache)
  BY <1>2, <1>3, <1>4, <1>5, InvFacts, Zenon DEF IsMachine
<1> QED BY <1>1, <1>6, Zenon DEF MachineStep, Stays

(* A frame returns o.                                                      *)
LEMMA ReturnStep ==
  ASSUME ParserInv, stack # <<>>, call = NoCall, stack' = Front(stack), UNCHANGED <<args, driver, call>>,
         IsOutcome(out'), Len(stack) > 1 => Answers(Last(stack).call, out'), IsCache(cache')
  PROVE  MachineStep
<1> DEFINE t == Front(stack)  o == out'  k == cache'
<1>1. /\ stack' = t /\ call' = NoCall /\ out' = o /\ cache' = k
      /\ driver' = driver /\ grammar' = grammar /\ instring' = instring
  BY Zenon DEF args
<1>2. IsStack(stack) /\ driver.phase # "start" /\ IsDriver(driver)
  BY InvFacts
<1>3. IsStack(t) /\ Len(t) = Len(stack) - 1 /\ (t # <<>> => Expects(Last(t), Last(stack).call))
  BY <1>2, PopStack
<1>4. IsOutcome(o) /\ (Len(stack) > 1 => Answers(Last(stack).call, o)) /\ IsCache(k)
  OBVIOUS
<1>5. t # <<>> => Len(stack) > 1
  <2>1. Len(stack) \in Nat /\ Len(stack) > 0
    BY <1>2, TopFacts
  <2> HIDE DEF t
  <2>2. t # <<>> => Len(t) > 0
    <3>1. PICK S : t \in Seq(S)
      BY <1>3 DEF IsStack
    <3> QED BY <3>1
  <2> QED BY <1>3, <2>1, <2>2
<1> HIDE DEF t, o, k
<1>6. t # <<>> => Waits(Last(t), o)
  BY <1>3, <1>4, <1>5, Zenon DEF Waits
<1>7. IsMachine(driver, t, NoCall, o, k)
  BY <1>2, <1>3, <1>4, <1>6, Zenon DEF IsMachine
<1> QED BY <1>1, <1>7, Zenon DEF MachineStep, Stays

LEMMA ClassStep ==
  ASSUME ParserInv, NEW classes, Step(classes) PROVE MachineStep
<1>0. GrammarOK /\ IsStack(stack) /\ IsCache(cache)
  BY InvFacts
<1>1. call = NoCall /\ UNCHANGED <<args, driver>>
  BY Zenon DEF Step
<1>2. PICK f \in Top : f.phase # "preParse only" /\
        \E d \in {Advance(f, out)} :
          IF d.do = "call" THEN Goes(d)
          ELSE /\ stack' = Front(stack) /\ out' = d.out
               /\ cache' = Stored(Cleared(f, d), f.call, d.out)
               /\ acts' = IF d.ran THEN Append(acts, f.call) ELSE acts
               /\ UNCHANGED call
  BY Zenon DEF Step
<1> DEFINE d == Advance(f, out)
<1>3. stack # <<>> /\ f = Last(stack)
  BY <1>0, TopIsLast
<1>4. Waits(f, out)
  BY <1>1, <1>3, InvFacts
<1>5. IsFrame(f) /\ Moves(f, d)
  BY <1>0, <1>2, <1>4, AdvanceMoves
<1>6. IF d.do = "call" THEN Goes(d)
      ELSE /\ stack' = Front(stack) /\ out' = d.out
           /\ cache' = Stored(Cleared(f, d), f.call, d.out)
           /\ UNCHANGED call
  BY <1>2, Zenon
<1> HIDE DEF d
<1>7. CASE d.do = "call"
  <2>1. Goes(d) /\ Expects(d.frame, d.call) /\ d.frame.call = f.call /\ d.frame.phase # "preParse only"
    BY <1>5, <1>6, <1>7 DEF Moves
  <2>2. Follows(Last(stack), d.frame)
    BY <1>3, <2>1, Zenon DEF Follows, Expects
  <2> QED BY <1>1, <1>3, <2>1, <2>2, GoesStep, Zenon
<1>8. CASE d.do # "call"
  <2>1. Results(f, d.out)
    BY <1>5, <1>8 DEF Moves
  <2>2. Answers(f.call, d.out) /\ IsOutcome(d.out) /\ IsCall(f.call)
    BY <1>0, <1>5, <2>1, ResultsAnswer DEF Answers, IsFrame
  <2>3. IsCache(Stored(Cleared(f, d), f.call, d.out))
    BY <1>0, <2>2, ClearedCache, StoredCache
  <2>4. stack' = Front(stack) /\ out' = d.out /\ call' = call
        /\ cache' = Stored(Cleared(f, d), f.call, d.out)
    BY <1>6, <1>8
  <2>5. IsCache(cache') /\ IsOutcome(out') /\ Answers(Last(stack).call, out')
    BY <1>3, <2>2, <2>3, <2>4, Zenon
  <2> QED BY <1>1, <1>3, <2>4, <2>5, ReturnStep, Zenon
<1> QED BY <1>7, <1>8

LEMMA PreParseOnlyStep ==
  ASSUME ParserInv, PreParseStep PROVE MachineStep
<1>0. GrammarOK /\ IsStack(stack) /\ IsCache(cache)
  BY InvFacts
<1>1. call = NoCall /\ UNCHANGED <<args, driver>>
  BY Zenon DEF PreParseStep
<1>2. PICK f \in Top : f.phase = "preParse only" /\
        \E d \in {SkipIgnorables(f, out)} :
          IF d.do = "call" THEN Goes(d)
          ELSE /\ stack' = Front(stack) /\ UNCHANGED <<call, cache, acts>>
               /\ out' = IF d.do = "skipped" THEN Ok(PreParsed(d.frame), <<>>) ELSE d.out
  BY Zenon DEF PreParseStep
<1> DEFINE d == SkipIgnorables(f, out)
           o == IF d.do = "skipped" THEN Ok(PreParsed(d.frame), <<>>) ELSE d.out
<1>3. stack # <<>> /\ f = Last(stack)
  BY <1>0, TopIsLast
<1>4. Waits(f, out)
  BY <1>1, <1>3, InvFacts
<1>5. /\ d.do = "call" => Expects(d.frame, d.call) /\ d.frame.call = f.call
      /\ d.do # "call" => IsOutcome(o)
  BY <1>0, <1>2, <1>4, PreParseMoves
<1>6. IF d.do = "call" THEN Goes(d)
      ELSE stack' = Front(stack) /\ out' = o /\ cache' = cache /\ call' = call
  BY <1>2, Zenon
<1> HIDE DEF d, o
<1>7. CASE d.do = "call"
  <2>1. Follows(Last(stack), d.frame)
    BY <1>2, <1>3, <1>5, <1>7, Zenon DEF Follows, Expects
  <2> QED BY <1>1, <1>3, <1>5, <1>6, <1>7, <2>1, GoesStep, Zenon
<1>8. CASE d.do # "call"
  <2>1. Len(stack) = 1
    BY <1>0, <1>2, <1>3, TopFacts
  <2>2. ~(Len(stack) > 1)
    BY <2>1
  <2>3. IsOutcome(out') /\ IsCache(cache')
    BY <1>0, <1>5, <1>6, <1>8, Zenon
  <2> QED BY <1>1, <1>3, <1>6, <1>8, <2>2, <2>3, ReturnStep, Zenon
<1> QED BY <1>7, <1>8

LocalsOf == {"phase", "loc", "preloc", "matches", "result"}

LEMMA RootCall ==
  ASSUME ParserInv, NEW loc \in 0 .. Len(instring) + 1, NEW pre
  PROVE  LET c == Call(Root, loc, TRUE, pre, Len(instring)) IN IsCall(c) /\ c # NoCall
<1> DEFINE c == Call(Root, loc, TRUE, pre, Len(instring))
<1>1. GrammarOK /\ Root \in DOMAIN E /\ Len(instring) \in Nat
  BY GrammarIsOK DEF ParserInv, Root, GrammarOK
<1>2. /\ DOMAIN c = {"e", "loc", "act", "pre", "end"} /\ c.e = Root /\ c.loc = loc
      /\ c.end = Len(instring)
  BY DEF Call
<1> HIDE DEF c
<1>3. c.end \in 0 .. Len(instring) /\ c.loc \in 0 .. c.end + 1
  BY <1>1, <1>2
<1>4. IsCall(c)
  BY <1>1, <1>2, <1>3, Zenon DEF IsCall
<1>5. c # NoCall
  BY <1>1, <1>4, CallIsCall
<1> QED BY <1>4, <1>5 DEF c

LEMMA CallRootStep ==
  ASSUME ParserInv, Idle, UNCHANGED args, NEW d, IsDriver(d), d.phase # "start",
         NEW loc \in 0 .. Len(instring) + 1, NEW pre, CallRoot(d, loc, pre)
  PROVE  MachineStep
<1> DEFINE c == Call(Root, loc, TRUE, pre, Len(instring))
<1>1. /\ stack' = <<>> /\ call' = c /\ out' = NoOutcome /\ cache' = cache /\ driver' = d
      /\ grammar' = grammar /\ instring' = instring /\ stack = <<>>
  BY Zenon DEF CallRoot, Idle, args
<1>2. IsCall(c) /\ c # NoCall
  BY RootCall
<1> HIDE DEF c
<1>3. IsMachine(d, <<>>, c, NoOutcome, cache)
  BY <1>1, <1>2, InvFacts, Zenon DEF IsMachine
<1> QED BY <1>1, <1>3, Zenon DEF MachineStep, Stays

LEMMA CallPreParseStep ==
  ASSUME ParserInv, Idle, UNCHANGED args, NEW d, IsDriver(d), d.phase # "start",
         NEW loc \in 0 .. Len(instring) + 1, CallPreParse(d, loc)
  PROVE  MachineStep
<1> DEFINE c == Call(Root, loc, TRUE, TRUE, Len(instring))
           f == [Frame(c) EXCEPT !.phase = "preParse only"]  s == <<f>>
<1>1. /\ stack' = s /\ call' = NoCall /\ out' = NoOutcome /\ cache' = cache /\ driver' = d
      /\ grammar' = grammar /\ instring' = instring
  BY Zenon DEF CallPreParse, Idle, args
<1>2. IsCall(c) /\ GrammarOK
  BY RootCall, InvFacts
<1> HIDE DEF c
<1>3. IsStack(s) /\ s # <<>> /\ Last(s) = f /\ Waits(f, NoOutcome)
  BY <1>2, OneFrame
<1> HIDE DEF s, f
<1>4. IsMachine(d, s, NoCall, NoOutcome, cache)
  BY <1>3, InvFacts, Zenon DEF IsMachine
<1> QED BY <1>1, <1>4, Zenon DEF MachineStep, Stays

LEMMA DriverReturnStep ==
  ASSUME ParserInv, Idle, UNCHANGED args, NEW r, Return(r)
  PROVE  MachineStep
<1> DEFINE d == [driver EXCEPT !.phase = "end", !.result = r]
<1>1. /\ stack' = <<>> /\ call' = NoCall /\ out' = NoOutcome /\ cache' = cache /\ driver' = d
      /\ grammar' = grammar /\ instring' = instring /\ stack = <<>>
  BY Zenon DEF Return, Idle, args
<1>2. IsDriver(driver)
  BY InvFacts
<1>3. IsDriver(d) /\ d.phase # "start"
  BY <1>2 DEF IsDriver
<1> HIDE DEF d
<1>4. IsMachine(d, <<>>, NoCall, NoOutcome, cache)
  BY <1>1, <1>3, InvFacts, Zenon DEF IsMachine
<1> QED BY <1>1, <1>4, Zenon DEF MachineStep, Stays

LEMMA ScanFromStep ==
  ASSUME ParserInv, Idle, UNCHANGED args, NEW d, DOMAIN d = LocalsOf, d.loc \in Nat, d.preloc \in Nat,
         ScanFrom(d)
  PROVE  MachineStep
<1> DEFINE g == [d EXCEPT !.phase = "scan preparse"]
<1>1. CASE d.loc <= Len(instring)
  <2>1. CallPreParse(g, d.loc)
    BY <1>1 DEF ScanFrom
  <2>2. Len(instring) \in Nat
    BY InvFacts DEF GrammarOK
  <2>3. d.loc \in 0 .. Len(instring) /\ d.loc \in 0 .. Len(instring) + 1
    BY <1>1, <2>2
  <2>4. IsDriver(g) /\ g.phase # "start"
    BY <2>3 DEF IsDriver, LocalsOf
  <2> HIDE DEF g
  <2> QED BY <2>1, <2>3, <2>4, CallPreParseStep, Zenon
<1>2. CASE ~(d.loc <= Len(instring))
  <2>1. Return(Ok(d.loc, <<>>))
    BY <1>2 DEF ScanFrom
  <2> QED BY <2>1, DriverReturnStep, Zenon
<1> QED BY <1>1, <1>2

LEMMA DriverFacts ==
  ASSUME ParserInv
  PROVE  /\ DOMAIN driver = LocalsOf /\ driver.loc \in Nat /\ driver.loc <= Len(instring)
         /\ driver.preloc \in Nat /\ Len(instring) \in Nat
         /\ out.ok => out.loc \in 0 .. Len(instring) + 1 /\ out.loc \in Nat
<1>1. IsDriver(driver) /\ Len(instring) \in Nat /\ (out = NoOutcome \/ IsOutcome(out))
  BY InvFacts DEF GrammarOK
<1>2. NoOutcome.ok = FALSE
  BY DEF NoOutcome
<1>3. out.ok => IsOutcome(out)
  BY <1>1, <1>2
<1> QED BY <1>1, <1>3 DEF IsDriver, IsOutcome, LocalsOf

LEMMA BeginsStep ==
  ASSUME ParserInv, Begins PROVE MachineStep
<1>1. driver.phase = "start" /\ UNCHANGED args
  BY Zenon DEF Begins
<1>2. Idle
  BY <1>1, InvFacts DEF Idle
<1>3. IsDriver(driver) /\ 0 \in 0 .. Len(instring) + 1
  BY InvFacts DEF GrammarOK
<1>4. /\ IsDriver([driver EXCEPT !.phase = "parse"])
      /\ IsDriver([driver EXCEPT !.phase = "scan preparse"])
  BY <1>3 DEF IsDriver
<1>5. /\ [driver EXCEPT !.phase = "parse"].phase # "start"
      /\ [driver EXCEPT !.phase = "scan preparse"].phase # "start"
  BY <1>3 DEF IsDriver
<1>6. \/ CallRoot([driver EXCEPT !.phase = "parse"], 0, TRUE)
      \/ CallPreParse([driver EXCEPT !.phase = "scan preparse"], 0)
  BY Zenon DEF Begins
<1>7. CASE CallRoot([driver EXCEPT !.phase = "parse"], 0, TRUE)
  BY <1>1, <1>2, <1>3, <1>4, <1>5, <1>7, CallRootStep, Zenon
<1>8. CASE CallPreParse([driver EXCEPT !.phase = "scan preparse"], 0)
  BY <1>1, <1>2, <1>3, <1>4, <1>5, <1>8, CallPreParseStep, Zenon
<1> QED BY <1>6, <1>7, <1>8

LEMMA ParseStringStep ==
  ASSUME ParserInv, ParseString PROVE MachineStep
<1> DEFINE d == [driver EXCEPT !.phase = "parseAll", !.result = out]
<1>1. Idle /\ UNCHANGED args
  BY Zenon DEF ParseString
<1>2. \/ out.ok /\ CallPreParse(d, out.loc)
      \/ \E r : Return(r)
  <2>1. \/ IF entry = "parseAll" /\ out.ok THEN CallPreParse(d, out.loc) ELSE Return(out)
        \/ Return(IF out.ok THEN AtEnd(out.loc) ELSE out)
    BY Zenon DEF ParseString
  <2> HIDE DEF d
  <2> QED BY <2>1, Zenon
<1>3. CASE out.ok /\ CallPreParse(d, out.loc)
  <2>1. IsDriver(driver) /\ out.loc \in 0 .. Len(instring) + 1
    BY <1>3, InvFacts, DriverFacts
  <2>2. IsDriver(d) /\ d.phase # "start"
    BY <2>1 DEF IsDriver
  <2> HIDE DEF d
  <2> QED BY <1>1, <1>3, <2>1, <2>2, CallPreParseStep, Zenon
<1>4. CASE \E r : Return(r)
  BY <1>1, <1>4, DriverReturnStep, Zenon
<1> QED BY <1>2, <1>3, <1>4

LEMMA MatchedStep ==
  ASSUME ParserInv, Idle, UNCHANGED args, out.ok, Matched PROVE MachineStep
<1> DEFINE match == [start |-> driver.preloc, end |-> out.loc, toks |-> out.toks]
           d == [driver EXCEPT !.matches = Append(@, match)]
           overlap == [d EXCEPT !.phase = "scan overlap", !.preloc = out.loc]
           next == [d EXCEPT !.loc = out.loc]
<1>1. /\ DOMAIN driver = LocalsOf /\ driver.loc \in Nat /\ driver.loc <= Len(instring)
      /\ driver.preloc \in Nat /\ Len(instring) \in Nat
      /\ out.loc \in 0 .. Len(instring) + 1 /\ out.loc \in Nat
  BY DriverFacts
<1> HIDE DEF match
<1>2. /\ DOMAIN d = LocalsOf /\ d.loc = driver.loc /\ d.preloc = driver.preloc
  BY <1>1 DEF LocalsOf
<1>3. Matched = IF entry = "overlap" THEN CallPreParse(overlap, d.loc) ELSE ScanFrom(next)
  BY Zenon DEF Matched, match
<1> HIDE DEF d
<1>4. /\ DOMAIN overlap = LocalsOf /\ overlap.loc = driver.loc /\ overlap.preloc = out.loc
      /\ overlap.phase # "start"
  BY <1>1, <1>2 DEF LocalsOf
<1>5. DOMAIN next = LocalsOf /\ next.loc = out.loc /\ next.preloc = driver.preloc
  BY <1>1, <1>2 DEF LocalsOf
<1> HIDE DEF overlap, next
<1>6. IsDriver(overlap) /\ d.loc \in 0 .. Len(instring) + 1
  <2>1. overlap.loc \in 0 .. Len(instring) /\ d.loc \in 0 .. Len(instring) + 1
    BY <1>1, <1>2, <1>4
  <2>2. overlap.preloc \in Nat
    BY <1>1, <1>4
  <2> QED BY <1>4, <2>1, <2>2 DEF IsDriver, LocalsOf
<1>7. CASE entry = "overlap"
  BY <1>3, <1>4, <1>6, <1>7, CallPreParseStep, Zenon
<1>8. CASE entry # "overlap"
  BY <1>1, <1>3, <1>5, <1>8, ScanFromStep, Zenon
<1> QED BY <1>7, <1>8

LEMMA ScanStringStep ==
  ASSUME ParserInv, ScanString PROVE MachineStep
<1> DEFINE d == [driver EXCEPT !.phase = "scan", !.preloc = out.loc]
           g == [driver EXCEPT !.loc = driver.preloc + 1]
           h == [driver EXCEPT !.loc =
                  IF out.loc > driver.loc THEN driver.preloc ELSE driver.loc + 1]
<1>1. Idle /\ UNCHANGED args
  BY Zenon DEF ScanString
<1>2. \/ out.ok /\ CallRoot(d, out.loc, FALSE)
      \/ out.ok /\ Matched
      \/ ScanFrom(g)
      \/ out.ok /\ ScanFrom(h)
      \/ Return(out)
  <2>1. \/ IF out.ok THEN CallRoot(d, out.loc, FALSE) ELSE Return(out)
        \/ IF out.ok /\ out.loc > driver.loc THEN Matched
           ELSE IF out.ok \/ out.exc = "ParseException" THEN ScanFrom(g)
           ELSE Return(out)
        \/ IF ~out.ok THEN Return(out) ELSE ScanFrom(h)
    BY Zenon DEF ScanString
  <2> HIDE DEF d, g, h
  <2> QED BY <2>1, Zenon
<1>3. /\ DOMAIN driver = LocalsOf /\ driver.loc \in Nat /\ driver.loc <= Len(instring)
      /\ driver.preloc \in Nat /\ Len(instring) \in Nat
      /\ out.ok => out.loc \in 0 .. Len(instring) + 1 /\ out.loc \in Nat
  BY DriverFacts
<1>4. CASE out.ok /\ CallRoot(d, out.loc, FALSE)
  <2>1. DOMAIN d = LocalsOf /\ d.loc = driver.loc /\ d.preloc = out.loc /\ d.phase # "start"
    BY <1>3 DEF LocalsOf
  <2> HIDE DEF d
  <2>2. d.loc \in 0 .. Len(instring) /\ d.preloc \in Nat
    BY <1>3, <1>4, <2>1
  <2>3. IsDriver(d)
    BY <2>1, <2>2 DEF IsDriver, LocalsOf
  <2> QED BY <1>1, <1>3, <1>4, <2>1, <2>3, CallRootStep, Zenon
<1>5. CASE out.ok /\ Matched
  BY <1>1, <1>5, MatchedStep
<1>6. CASE ScanFrom(g)
  <2>1. DOMAIN g = LocalsOf /\ g.loc \in Nat /\ g.preloc \in Nat
    BY <1>3 DEF LocalsOf
  <2> HIDE DEF g
  <2> QED BY <1>1, <1>6, <2>1, ScanFromStep, Zenon
<1>7. CASE out.ok /\ ScanFrom(h)
  <2>1. DOMAIN h = LocalsOf /\ h.loc \in Nat /\ h.preloc \in Nat
    BY <1>3, <1>7 DEF LocalsOf
  <2> HIDE DEF h
  <2> QED BY <1>1, <1>7, <2>1, ScanFromStep, Zenon
<1>8. CASE Return(out)
  BY <1>1, <1>8, DriverReturnStep
<1> QED BY <1>2, <1>4, <1>5, <1>6, <1>7, <1>8, Zenon

LEMMA NextStep ==
  ASSUME ParserInv, [Next]_vars PROVE MachineStep
<1>1. CASE UNCHANGED vars
  <2>1. /\ driver' = driver /\ stack' = stack /\ call' = call /\ out' = out /\ cache' = cache
        /\ grammar' = grammar /\ instring' = instring
    BY <1>1, Zenon DEF vars, args, machine
  <2>2. IsMachine(driver, stack, call, out, cache)
    BY DEF ParserInv
  <2> QED BY <2>1, <2>2, Zenon DEF MachineStep, Stays
<1>2. CASE \E classes : Step(classes)
  BY <1>2, ClassStep, Zenon
<1>3. CASE Begins
  BY <1>3, BeginsStep
<1>4. CASE ParseString
  BY <1>4, ParseStringStep
<1>5. CASE ScanString
  BY <1>5, ScanStringStep
<1>6. CASE PreParseStep
  BY <1>6, PreParseOnlyStep
<1>7. CASE Hit
  BY <1>7, HitStep
<1>8. CASE Miss
  BY <1>8, MissStep
<1>9. CASE TooDeep
  BY <1>9, TooDeepStep
<1>10. CASE Ended
  BY <1>1, <1>10, Zenon DEF Ended
<1>11. \/ UNCHANGED vars \/ \E classes : Step(classes)
       \/ Begins \/ ParseString \/ ScanString \/ PreParseStep \/ Hit \/ Miss \/ TooDeep \/ Ended
  BY Zenon DEF Next, TokenStep, AndStep, OrStep, MatchFirstStep, EachStep, EnhanceStep,
           FollowedByStep, PrecededByStep, NotAnyStep, MultipleStep, OptionalStep, SkipToStep
<1> QED BY <1>1, <1>2, <1>3, <1>4, <1>5, <1>6, <1>7, <1>8, <1>9, <1>10, <1>11, Zenon

LEMMA StaysMachine ==
  ASSUME Stays
  PROVE  \A d, s, c, o, k : IsMachine(d, s, c, o, k)' <=> IsMachine(d, s, c, o, k)
<1>1. \A s : IsStack(s)' <=> IsStack(s)
  BY StaysCalls, StaysAwaits, Zenon DEF IsStack
<1>2. \A k : IsCache(k)' <=> IsCache(k)
  BY StaysCalls, Zenon DEF IsCache
<1>3. \A d : IsDriver(d)' <=> IsDriver(d)
  BY StaysGrammar, Zenon DEF IsDriver, Stays
<1>4. SUFFICES ASSUME NEW d, NEW s, NEW c, NEW o, NEW k
               PROVE  IsMachine(d, s, c, o, k)' <=> IsMachine(d, s, c, o, k)
  OBVIOUS
<1>5. /\ IsOutcome(o)' <=> IsOutcome(o)
      /\ IsCall(c)' <=> IsCall(c)
      /\ Expects(Last(s), c)' <=> Expects(Last(s), c)
      /\ Waits(Last(s), o)' <=> Waits(Last(s), o)
      /\ IsStack(s)' <=> IsStack(s)
      /\ IsCache(k)' <=> IsCache(k)
      /\ IsDriver(d)' <=> IsDriver(d)
  BY <1>1, <1>2, <1>3, StaysCalls, StaysAwaits, Zenon
<1> QED BY <1>5 DEF IsMachine

LEMMA NextInv ==
  ASSUME ParserInv, [Next]_vars PROVE ParserInv'
<1>1. Stays /\ IsMachine(driver', stack', call', out', cache')
  BY NextStep DEF MachineStep
<1>2. grammar' \in DOMAIN Grammars /\ instring' \in Seq(STRING)
  BY <1>1, Zenon DEF Stays, ParserInv
<1>3. ParserInv' <=> /\ grammar' \in DOMAIN Grammars /\ instring' \in Seq(STRING)
                     /\ IsMachine(driver, stack, call, out, cache)'
  BY DEF ParserInv
<1>4. \A d, s, c, o, k : IsMachine(d, s, c, o, k)' <=> IsMachine(d, s, c, o, k)
  BY <1>1, StaysMachine
<1> QED BY <1>1, <1>2, <1>3, <1>4, Zenon

LEMMA InitInv ==
  ASSUME Init PROVE ParserInv
<1>1. grammar \in DOMAIN Grammars /\ instring \in Seq(STRING)
  BY ParsesAssumption DEF Init
<1>2. GrammarOK
  BY <1>1, GrammarIsOK
<1>3. /\ driver.phase = "start" /\ driver.loc = 0 /\ driver.preloc = 0
      /\ DOMAIN driver = {"phase", "loc", "preloc", "matches", "result"}
      /\ stack = <<>> /\ call = NoCall /\ out = NoOutcome /\ cache = <<>>
  BY DEF Init
<1>4. IsDriver(driver)
  <2>1. 0 \in 0 .. Len(instring) /\ 0 \in Nat
    BY <1>2 DEF GrammarOK
  <2> QED BY <1>3, <2>1, Zenon DEF IsDriver
<1>5. IsStack(<<>>) /\ IsCache(<<>>)
  <2> DEFINE s == <<>>
  <2>1. s \in Seq({}) /\ Len(s) = 0 /\ 1 .. 0 = {} /\ 1 .. 0 - 1 = {}
    OBVIOUS
  <2> HIDE DEF s
  <2>2. Len(s) <= MaxDepth
    BY <2>1, BoundsAssumption
  <2>3. IsStack(s)
    <3>1. 1 .. Len(s) = {} /\ 1 .. Len(s) - 1 = {}
      BY <2>1
    <3> QED BY <2>1, <2>2, <3>1, Zenon DEF IsStack
  <2>4. IsCache(s)
    BY <2>1 DEF IsCache
  <2> QED BY <2>3, <2>4 DEF s
<1>6. IsMachine(driver, stack, call, out, cache)
  BY <1>3, <1>4, <1>5, Zenon DEF IsMachine
<1> QED BY <1>1, <1>6, Zenon DEF ParserInv

(* The invariant of the parser: whatever frame waits for a call, the call  *)
(* is one of its class in its phase, and every outcome and cache entry     *)
(* answers the call it belongs to.                                         *)
LEMMA ParserIsInvariant == Spec => []ParserInv
<1>1. Init => ParserInv
  BY InitInv
<1>2. ParserInv /\ [Next]_vars => ParserInv'
  BY NextInv
<1> QED BY <1>1, <1>2, PTL DEF Spec

(***************************************************************************)
(* Types                                                                   *)
(***************************************************************************)
LEMMA OutcomeType ==
  ASSUME GrammarOK, NEW o, o = NoOutcome \/ IsOutcome(o)
  PROVE  Outcome(o)
<1>1. Len(instring) \in Nat
  BY DEF GrammarOK
<1>2. CASE o = NoOutcome
  <2>1. o.ok = FALSE /\ o.exc = "none" /\ o.loc = -1
    BY <1>2, Zenon DEF NoOutcome
  <2>2. o.loc \in -1 .. Len(instring) + 1 /\ ~(o.loc >= 0)
    BY <1>1, <2>1
  <2>3. o.ok = (o.exc = "none" /\ o.loc >= 0)
    BY <2>1, <2>2, Zenon
  <2> QED BY <2>1, <2>2, <2>3 DEF Outcome
<1>3. CASE IsOutcome(o)
  <2>1. o.ok = (o.exc = "none") /\ o.loc \in 0 .. Len(instring) + 1 /\ o.exc \in Exceptions
    BY <1>3, Zenon DEF IsOutcome
  <2>2. o.loc >= 0 /\ o.loc \in -1 .. Len(instring) + 1
    BY <1>1, <2>1
  <2>3. o.ok = (o.exc = "none" /\ o.loc >= 0)
    BY <2>1, <2>2, Zenon
  <2>4. o.exc \in {"none", "ParseException", "IndexError", "ParseSyntaxException",
                   "ParseFatalException", "RecursionError"}
    BY <2>1, Zenon DEF Exceptions
  <2> QED BY <2>2, <2>3, <2>4 DEF Outcome
<1> QED BY <1>2, <1>3

LEMMA TypeFromInv ==
  ASSUME ParserInv PROVE TypeOK
<1>1. /\ GrammarOK /\ IsStack(stack) /\ (out = NoOutcome \/ IsOutcome(out))
      /\ call = NoCall \/ IsCall(call)
  BY InvFacts
<1>2. Outcome(out)
  BY <1>1, OutcomeType
<1>3. Len(stack) <= MaxDepth /\ DOMAIN stack = 1 .. Len(stack)
  BY <1>1, LenProperties DEF IsStack
<1>4. ASSUME NEW i \in DOMAIN stack
      PROVE  /\ stack[i].call.e \in DOMAIN E /\ stack[i].call.end \in 0 .. Len(instring)
             /\ {stack[i].loc, stack[i].pos, stack[i].last}
                  \subseteq Base(stack[i].call.loc) .. stack[i].call.end + 1
  <2>1. IsFrame(stack[i])
    BY <1>1, <1>3, <1>4, Zenon DEF IsStack
  <2> QED BY <2>1 DEF IsFrame, IsCall
<1>5. call = NoCall \/ (call.e \in DOMAIN E /\ call.loc \in 0 .. call.end + 1)
  BY <1>1 DEF IsCall
<1> QED BY <1>2, <1>3, <1>4, <1>5, Zenon DEF TypeOK

(* Whatever the grammar and the input, every location of a parse stays     *)
(* between where its call began (0 with a CloseMatch) and one past the end *)
(* of the string, outcomes are well formed and no call is nested beyond    *)
(* the recursion limit: _parse, preParse and every parseImpl.              *)
THEOREM TypeIsOK == Spec => []TypeOK
<1>1. ParserInv => TypeOK
  BY TypeFromInv
<1> QED BY <1>1, ParserIsInvariant, PTL

(***************************************************************************)
(* Matching the empty string                                               *)
(***************************************************************************)
(* A frame that returns.                                                   *)
Pops(f, d) ==
  /\ f = Last(stack) /\ stack # <<>> /\ IsFrame(f) /\ Waits(f, out) /\ f.phase # "preParse only"
  /\ d = Advance(f, out) /\ d.do = "return" /\ Results(f, d.out) /\ (d.ran => ActsOn(f))
  /\ out' = d.out /\ acts' = IF d.ran THEN Append(acts, f.call) ELSE acts
  /\ call' = NoCall /\ call = NoCall

LEMMA ClassPops ==
  ASSUME ParserInv, NEW classes, Step(classes)
  PROVE  \/ Len(stack') = Len(stack) /\ acts' = acts
         \/ \E f, d : Pops(f, d)
<1>0. GrammarOK /\ IsStack(stack)
  BY InvFacts
<1>1. call = NoCall
  BY Zenon DEF Step
<1>2. PICK f \in Top : f.phase # "preParse only" /\
        \E d \in {Advance(f, out)} :
          IF d.do = "call" THEN Goes(d)
          ELSE /\ stack' = Front(stack) /\ out' = d.out
               /\ cache' = Stored(Cleared(f, d), f.call, d.out)
               /\ acts' = IF d.ran THEN Append(acts, f.call) ELSE acts
               /\ UNCHANGED call
  BY Zenon DEF Step
<1> DEFINE d == Advance(f, out)
<1>3. stack # <<>> /\ f = Last(stack)
  BY <1>0, TopIsLast
<1>4. Waits(f, out)
  BY <1>1, <1>3, InvFacts
<1>5. IsFrame(f) /\ Moves(f, d)
  BY <1>0, <1>2, <1>4, AdvanceMoves
<1>6. IF d.do = "call" THEN Goes(d)
      ELSE /\ out' = d.out /\ call' = call
           /\ acts' = IF d.ran THEN Append(acts, f.call) ELSE acts
  BY <1>2, Zenon
<1>7. CASE d.do = "call"
  <2>1. stack' = Topped(stack, Len(stack), d.frame) /\ acts' = acts
    BY <1>6, <1>7, Zenon DEF Goes, Topped
  <2>2. PICK S : stack \in Seq(S)
    BY <1>0 DEF IsStack
  <2>3. Len(stack') = Len(stack)
    <3>1. Len(stack) \in Nat /\ Len(stack) > 0
      BY <1>0, <1>3, TopFacts
    <3> DEFINE n == Len(stack)  g == d.frame  t == Topped(stack, n, g)
    <3>2. n \in Nat /\ n > 0 /\ Len(stack) = n /\ stack' = t
      BY <2>1, <3>1
    <3> HIDE DEF n, g
    <3>3. Len(t) = n
      BY <2>2, <3>2, ReplacedSeq
    <3> QED BY <3>2, <3>3
  <2> QED BY <2>1, <2>3
<1>8. CASE d.do # "call"
  <2> HIDE DEF d
  <2>1. d.do = "return" /\ Results(f, d.out) /\ (d.ran => ActsOn(f))
    BY <1>5, <1>8 DEF Moves
  <2>2. d = Advance(f, out)
    BY DEF d
  <2>3. out' = d.out /\ call' = NoCall /\ acts' = IF d.ran THEN Append(acts, f.call) ELSE acts
    BY <1>1, <1>6, <1>8
  <2>4. Pops(f, d)
    BY <1>1, <1>2, <1>3, <1>4, <1>5, <2>1, <2>2, <2>3, Zenon DEF Pops
  <2> QED BY <2>4, Zenon
<1> QED BY <1>7, <1>8

LEMMA ScanFromActs ==
  ASSUME NEW d, ScanFrom(d) PROVE acts' = acts
BY Zenon DEF ScanFrom, CallPreParse, Return

LEMMA DriverActs ==
  ASSUME Begins \/ ParseString \/ ScanString PROVE acts' = acts
<1>1. CASE Begins
  BY <1>1, Zenon DEF Begins, CallRoot, CallPreParse
<1>2. CASE ParseString
  BY <1>2, Zenon DEF ParseString, CallPreParse, Return
<1>3. CASE ScanString
  <2>1. ASSUME Matched PROVE acts' = acts
    <3> DEFINE d == [driver EXCEPT !.matches =
                       Append(@, [start |-> driver.preloc, end |-> out.loc, toks |-> out.toks])]
               overlap == [d EXCEPT !.phase = "scan overlap", !.preloc = out.loc]
               next == [d EXCEPT !.loc = out.loc]
    <3>1. Matched = IF entry = "overlap" THEN CallPreParse(overlap, d.loc) ELSE ScanFrom(next)
      BY Zenon DEF Matched
    <3> HIDE DEF d, overlap, next
    <3>2. CallPreParse(overlap, d.loc) => acts' = acts
      BY Zenon DEF CallPreParse
    <3> QED BY <2>1, <3>1, <3>2, ScanFromActs, Zenon
  <2> DEFINE d == [driver EXCEPT !.phase = "scan", !.preloc = out.loc]
             g == [driver EXCEPT !.loc = driver.preloc + 1]
             h == [driver EXCEPT !.loc =
                    IF out.loc > driver.loc THEN driver.preloc ELSE driver.loc + 1]
  <2>2. \/ CallRoot(d, out.loc, FALSE) \/ Matched \/ ScanFrom(g) \/ ScanFrom(h) \/ Return(out)
    <3>1. \/ IF out.ok THEN CallRoot(d, out.loc, FALSE) ELSE Return(out)
          \/ IF out.ok /\ out.loc > driver.loc THEN Matched
             ELSE IF out.ok \/ out.exc = "ParseException" THEN ScanFrom(g)
             ELSE Return(out)
          \/ IF ~out.ok THEN Return(out) ELSE ScanFrom(h)
      BY <1>3, Zenon DEF ScanString
    <3> HIDE DEF d, g, h
    <3> QED BY <3>1, Zenon
  <2> HIDE DEF d, g, h
  <2> QED BY <2>1, <2>2, ScanFromActs, Zenon DEF CallRoot, Return
<1> QED BY <1>1, <1>2, <1>3

LEMMA NotShorter ==
  ASSUME NEW a \in Nat, NEW b \in Nat, b = a \/ b = a + 1 \/ a = 0
  PROVE  ~(b < a)
OBVIOUS

(* Only the end of a frame's _parse takes it away and runs actions.        *)
LEMMA StepPops ==
  ASSUME ParserInv, [Next]_vars
  PROVE  (acts' = acts /\ ~Returns) \/ \E f, d : Pops(f, d)
<1>0. /\ IsStack(stack) /\ Len(stack) \in Nat /\ Len(stack') \in Nat
      /\ (driver.phase = "start" => stack = <<>>)
  <2>1. IsStack(stack) /\ (driver.phase = "start" => stack = <<>>)
    BY InvFacts
  <2>2. IsStack(stack')
    BY NextStep, Zenon DEF MachineStep, IsMachine
  <2>3. Len(stack) \in Nat
    <3>1. PICK S : stack \in Seq(S)
      BY <2>1 DEF IsStack
    <3> QED BY <3>1
  <2>4. Len(stack') \in Nat
    <3>1. PICK S : stack' \in Seq(S)
      BY <2>2 DEF IsStack
    <3> QED BY <3>1
  <2> QED BY <2>1, <2>3, <2>4
<1> DEFINE n == Len(stack)  m == Len(stack')
<1>1. m = n \/ m = n + 1 \/ n = 0 => ~Returns
  <2>1. Returns => m < n
    BY Zenon DEF Returns
  <2>2. n \in Nat /\ m \in Nat
    BY <1>0
  <2> HIDE DEF n, m
  <2> QED BY <2>1, <2>2, NotShorter, Zenon
<1> HIDE DEF n, m
<1>2. CASE \E classes : Step(classes)
  <2>1. PICK classes : Step(classes)
    BY <1>2
  <2> QED BY <1>1, <2>1, ClassPops, Zenon DEF n, m
<1>3. CASE UNCHANGED vars \/ Hit \/ TooDeep \/ Ended
  <2>1. stack' = stack /\ acts' = acts
    BY <1>3, Zenon DEF vars, machine, Hit, TooDeep, Ended
  <2> QED BY <1>1, <2>1, Zenon DEF n, m
<1>4. CASE Miss
  <2>1. stack' = Append(stack, Frame(call)) /\ acts' = acts
    BY <1>4, Zenon DEF Miss
  <2>2. PICK S : stack \in Seq(S)
    BY <1>0 DEF IsStack
  <2> DEFINE f == Frame(call)
  <2> HIDE DEF f
  <2>3. Len(stack') = Len(stack) + 1
    <3>1. stack \in Seq(S \cup {f}) /\ stack' = Append(stack, f)
      BY <2>1, <2>2 DEF f
    <3> QED BY <3>1, AppendProperties
  <2> QED BY <1>1, <2>1, <2>3, Zenon DEF n, m
<1>5. CASE Begins \/ ParseString \/ ScanString
  <2>1. stack = <<>>
    BY <1>0, <1>5, Zenon DEF Begins, ParseString, ScanString, Idle
  <2>2. Len(stack) = 0
    BY <2>1
  <2> QED BY <1>5, <1>1, <2>2, DriverActs, Zenon DEF n
<1>6. CASE PreParseStep
  <2>1. PICK f \in Top : f.phase = "preParse only"
    BY <1>6, Zenon DEF PreParseStep
  <2>2. Last(stack).phase = "preParse only"
    BY <1>0, <2>1, TopIsLast, Zenon
  <2>3. acts' = acts
    BY <1>6, Zenon DEF PreParseStep, Goes
  <2> QED BY <2>2, <2>3, Zenon DEF Returns
<1>7. \/ UNCHANGED vars \/ \E classes : Step(classes)
      \/ Begins \/ ParseString \/ ScanString \/ PreParseStep \/ Hit \/ Miss \/ TooDeep \/ Ended
  BY Zenon DEF Next, TokenStep, AndStep, OrStep, MatchFirstStep, EachStep, EnhanceStep,
           FollowedByStep, PrecededByStep, NotAnyStep, MultipleStep, OptionalStep, SkipToStep
<1> QED BY <1>2, <1>3, <1>4, <1>5, <1>6, <1>7, Zenon

LEMMA EmptyStep ==
  ASSUME ParserInv, [Next]_vars, grammar \in Consistent, Returns, out'.ok,
         ~Elem(Last(stack)).mayReturnEmpty
  PROVE  out'.loc > Last(stack).loc
<1>1. PICK f, d : Pops(f, d)
  BY StepPops, Zenon
<1>2. f = Last(stack) /\ IsFrame(f) /\ Results(f, d.out) /\ out' = d.out
  BY <1>1, Zenon DEF Pops
<1>3. f.call.e \in DOMAIN E /\ Elem(f) = E[f.call.e]
  BY <1>2, Zenon DEF IsFrame, IsCall, Elem
<1>4. f.call.e \in Flagless
  BY <1>2, <1>3, GrammarIsOK, Zenon DEF ParserInv
<1> QED BY <1>2, <1>4, Zenon DEF Results, Matches

(* In every grammar whose flags are current, whatever is parsed, the       *)
(* parseImpl of an element that is not said to match the empty string ends *)
(* beyond where it began if it succeeds: And, Each, the alternatives,      *)
(* OneOrMore, the elements around one part and the tokens alike.           *)
THEOREM EmptyIsSaid == Spec => EmptyOnlyWhenSaid
<1>1. ParserInv /\ [Next]_vars =>
        [(grammar \in Consistent /\ Returns /\ out'.ok /\ ~Elem(Last(stack)).mayReturnEmpty) =>
            out'.loc > Last(stack).loc]_vars
  BY EmptyStep, Zenon
<1> QED BY <1>1, ParserIsInvariant, PTL DEF Spec, EmptyOnlyWhenSaid

(***************************************************************************)
(* Actions                                                                 *)
(***************************************************************************)
ActsAreCalls == \E S : acts \in Seq(S)

LEMMA ActsAfter ==
  ASSUME ActsAreCalls, NEW c
  PROVE  Last(Append(acts, c)) = c /\ \E S : Append(acts, c) \in Seq(S)
<1> DEFINE t == Append(acts, c)
<1>1. PICK S : acts \in Seq(S)
  BY DEF ActsAreCalls
<1>2. acts \in Seq(S \cup {c})
  BY <1>1
<1>3. t \in Seq(S \cup {c}) /\ Len(t) = Len(acts) + 1 /\ t[Len(acts) + 1] = c
  BY <1>2, AppendProperties
<1>4. Last(t) = t[Len(t)]
  BY DEF Last
<1> HIDE DEF t
<1>5. Last(t) = c /\ \E T : t \in Seq(T)
  BY <1>3, <1>4
<1> QED BY <1>5 DEF t

LEMMA ActsStep ==
  ASSUME ParserInv, ActsAreCalls, [Next]_vars
  PROVE  /\ ActsAreCalls'
         /\ acts' # acts => \E f, d : Pops(f, d) /\ ActsOn(f) /\ Last(acts') = f.call
<1>1. CASE acts' = acts
  BY <1>1, Zenon DEF ActsAreCalls
<1>2. CASE acts' # acts
  <2>1. PICK f, d : Pops(f, d)
    BY <1>2, StepPops
  <2>2. acts' = Append(acts, f.call) /\ ActsOn(f)
    BY <1>2, <2>1, Zenon DEF Pops
  <2> DEFINE c == f.call
  <2>3. Last(Append(acts, c)) = c /\ \E S : Append(acts, c) \in Seq(S)
    BY ActsAfter
  <2>4. ActsAreCalls' <=> \E S : acts' \in Seq(S)
    BY DEF ActsAreCalls
  <2> QED BY <2>1, <2>2, <2>3, <2>4, Zenon
<1> QED BY <1>1, <1>2

(* A call with actions was made by frames that keep it, up to one that     *)
(* parses with actions in any case.                                        *)
LEMMA MadeWithActions ==
  ASSUME IsStack(stack), stack # <<>>, Last(stack).call.act, NEW i \in 1 .. Len(stack) - 1
  PROVE  \/ stack[i].call.act /\ LetsAct(stack[i])
         \/ \E k \in i .. Len(stack) - 1 : Restarts(stack[k])
<1> DEFINE n == Len(stack)
           Restarted(j) == \E k \in j .. n - 1 : Restarts(stack[k])
           T == {m \in 0 .. n - 1 : stack[n - m].call.act \/ Restarted(n - m)}
<1>1. n \in Nat /\ n > 0 /\ Last(stack) = stack[n]
  BY TopFacts
<1>2. \A j \in 1 .. n - 1 : ActsFor(stack[j], stack[j + 1].call.act)
  BY Zenon DEF IsStack, Expects
<1> HIDE DEF n
<1>3. ASSUME NEW j \in 1 .. n - 1, stack[j + 1].call.act \/ Restarted(j + 1)
      PROVE  (stack[j].call.act /\ LetsAct(stack[j])) \/ Restarted(j)
  <2>1. CASE stack[j + 1].call.act
    <3>1. (stack[j].call.act /\ LetsAct(stack[j])) \/ Restarts(stack[j])
      BY <1>2, <2>1, Zenon DEF ActsFor
    <3>2. j \in j .. n - 1
      BY <1>1
    <3> QED BY <3>1, <3>2, Zenon
  <2>2. CASE Restarted(j + 1)
    <3>1. \A k \in j + 1 .. n - 1 : k \in j .. n - 1
      BY <1>1
    <3> QED BY <2>2, <3>1, Zenon
  <2> QED BY <1>3, <2>1, <2>2
<1>4. 0 \in T
  <2>1. n - 0 = n /\ 0 \in 0 .. n - 1
    BY <1>1
  <2> QED BY <1>1, <2>1
<1>5. ASSUME NEW m \in 1 .. n - 1, m - 1 \in T PROVE m \in T
  <2>1. n - m \in 1 .. n - 1 /\ n - (m - 1) = (n - m) + 1 /\ m \in 0 .. n - 1
    BY <1>1
  <2>2. stack[(n - m) + 1].call.act \/ Restarted((n - m) + 1)
    BY <1>5, <2>1
  <2> DEFINE j == n - m
  <2>3. j \in 1 .. n - 1 /\ (stack[j + 1].call.act \/ Restarted(j + 1))
    BY <2>1, <2>2
  <2> HIDE DEF j
  <2>4. stack[j].call.act \/ Restarted(j)
    BY <1>3, <2>3, Zenon
  <2> QED BY <2>1, <2>4, Zenon DEF j
<1>6. n - 1 \in Nat
  BY <1>1
<1>7. \A m \in 0 .. n - 1 : m \in T
  <2> HIDE DEF T
  <2> QED BY <1>4, <1>5, <1>6, IndexInduction
<1>8. i \in 1 .. n - 1 /\ n - (i + 1) \in 0 .. n - 1 /\ n - (n - (i + 1)) = i + 1
  BY <1>1 DEF n
<1>9. stack[i + 1].call.act \/ Restarted(i + 1)
  <2>1. n - (i + 1) \in T
    BY <1>7, <1>8
  <2> QED BY <1>8, <2>1
<1>10. (stack[i].call.act /\ LetsAct(stack[i])) \/ Restarted(i)
  BY <1>3, <1>8, <1>9, Zenon
<1> QED BY <1>10, Zenon DEF n

LEMMA ActionStep ==
  ASSUME ParserInv, ActsAreCalls, [Next]_vars, acts' # acts
  PROVE  \/ E[Last(acts').e].callDuringTry
         \/ /\ Last(acts').act
            /\ \A i \in 1 .. Len(stack) - 1 :
                 \/ stack[i].call.act /\ LetsAct(stack[i])
                 \/ \E k \in i .. Len(stack) - 1 : Restarts(stack[k])
<1>1. PICK f, d : Pops(f, d) /\ ActsOn(f) /\ Last(acts') = f.call
  BY ActsStep, Zenon
<1>2. f = Last(stack) /\ stack # <<>>
  BY <1>1, Zenon DEF Pops
<1>3. CASE f.call.act
  <2>1. IsStack(stack) /\ Last(stack).call.act
    BY <1>2, <1>3, InvFacts
  <2> QED BY <1>1, <1>2, <1>3, <2>1, MadeWithActions, Zenon
<1>4. CASE ~f.call.act
  BY <1>1, <1>4, Zenon DEF ActsOn, Elem
<1> QED BY <1>3, <1>4

(* Parse actions run for matches that are kept: whatever the grammar, one  *)
(* without callDuringTry runs only below frames that parse with actions    *)
(* and that keep the part, or look ahead at it with FollowedBy, or below   *)
(* the ignorables and the look-behind, which parse with actions anywhere.  *)
THEOREM ActionsAreCommitted == Spec => ActionsWhenCommitted
<1>1. Init => ActsAreCalls
  BY DEF Init, ActsAreCalls
<1>2. ParserInv /\ ActsAreCalls /\ [Next]_vars => ActsAreCalls'
  BY ActsStep, Zenon
<1>3. ParserInv /\ ActsAreCalls /\ [Next]_vars =>
        [acts' # acts =>
           \/ E[Last(acts').e].callDuringTry
           \/ /\ Last(acts').act
              /\ \A i \in 1 .. Len(stack) - 1 :
                   \/ stack[i].call.act /\ LetsAct(stack[i])
                   \/ \E k \in i .. Len(stack) - 1 : Restarts(stack[k])]_vars
  BY ActionStep, Zenon
<1> QED BY <1>1, <1>2, <1>3, ParserIsInvariant, PTL DEF Spec, ActionsWhenCommitted, LetsAct

(***************************************************************************)
(* Fatal exceptions                                                        *)
(***************************************************************************)
IsFatal(o) == Fatal(o) /\ ~o.ok

LEMMA FatalFacts ==
  ASSUME NEW o, IsFatal(o)
  PROVE  ~Missed(o) /\ ~o.ok /\ o.exc # "ParseException" /\ o.exc # "IndexError"
BY DEF IsFatal, Fatal, Missed

LEMMA StopFatal ==
  ASSUME NEW f, NEW o, ~o.ok
  PROVE  IsFatal(SyntaxError(f, o))
<1>1. CASE o.exc = "RecursionError"
  BY <1>1 DEF SyntaxError, IsFatal, Fatal
<1>2. CASE o.exc # "RecursionError"
  <2> DEFINE at == IF o.exc = "IndexError" THEN f.call.end ELSE o.loc
  <2>1. SyntaxError(f, o) = Fail("ParseSyntaxException", at)
    BY <1>2, Zenon DEF SyntaxError
  <2> HIDE DEF at
  <2>2. IsFatal(Fail("ParseSyntaxException", at))
    BY DEF IsFatal, Fatal, Fail
  <2> QED BY <2>1, <2>2, Zenon
<1> QED BY <1>1, <1>2

(* _parseNoCache lets a fatal exception of parseImpl through.              *)
LEMMA FatalReturned ==
  ASSUME NEW f, NEW v, IsFatal(v)
  PROVE  LET d == Finished(f, Done(v)) IN d.do = "return" /\ d.out = v
<1>1. v.exc # "IndexError" /\ ~v.ok
  BY FatalFacts
<1>2. Done(v).do = "return" /\ Done(v).out = v
  BY DEF Done
<1>3. Finished(f, Done(v)) = Returned(f, v)
  BY <1>2, Zenon DEF Finished
<1>4. Returned(f, v).do = "return" /\ Returned(f, v).out = v
  BY <1>1 DEF Returned
<1> QED BY <1>3, <1>4, Zenon

(* A frame at the ignorables of preParse lets it through.                  *)
LEMMA FatalSkips ==
  ASSUME NEW f, NEW v, IsFatal(v), f.i # 0
  PROVE  SkipIgnorables(f, v) = Done(v)
BY FatalFacts, Zenon DEF SkipIgnorables

LEMMA NotZero ==
  ASSUME NEW i \in Nat, i > 0 PROVE i # 0
OBVIOUS

LEMMA PastEnd ==
  ASSUME NEW i \in Nat, NEW n \in Nat, i > n PROVE ~(i \in 1 .. n)
OBVIOUS

(* parseImpl of a frame that passes fatal exceptions on.                   *)
Through(f, o) == \E v : Impl(f, o) = Done(v) /\ IsFatal(v)

LEMMA MultiplePasses ==
  ASSUME NEW f, IsFrame(f), f.phase \in {"ignore", "expr"}, f.phase = "ignore" => f.i # 0,
         NEW o, IsFatal(o)
  PROVE  MultipleImpl(f, o) = Done(o)
<1>1. EndsRepetition(f, o) = Done(o) /\ ~o.ok
  BY FatalFacts, Zenon DEF EndsRepetition
<1>2. CASE f.phase = "expr"
  <2>1. MultipleImpl(f, o) = EndsRepetition(f, o)
    BY <1>1, <1>2 DEF MultipleImpl
  <2> QED BY <1>1, <2>1
<1>3. CASE f.phase = "ignore"
  <2> DEFINE h == [f EXCEPT !.phase = "ignore"]  d == SkipIgnorables(h, o)
  <2>1. h.i = f.i
    OBVIOUS
  <2> HIDE DEF h
  <2>2. d = Done(o)
    BY <1>3, <2>1, FatalSkips
  <2>3. BeforeNext(f, o) = CASE d.do = "skipped" -> Repeat(d.frame, d.frame.pos, TRUE)
                             [] d.do = "return"  -> EndsRepetition(f, d.out)
                             [] d.do = "call"    -> d
    BY Zenon DEF BeforeNext, h
  <2> HIDE DEF d
  <2>4. d.do = "return" /\ d.out = o
    BY <2>2 DEF Done
  <2>5. BeforeNext(f, o) = EndsRepetition(f, o)
    BY <2>3, <2>4
  <2>6. MultipleImpl(f, o) = BeforeNext(f, o)
    BY <1>3 DEF MultipleImpl
  <2> QED BY <1>1, <2>5, <2>6
<1> QED BY <1>2, <1>3

LEMMA ImplPasses ==
  ASSUME GrammarOK, NEW f, NEW c, Expects(f, c), f.phase \notin {"preParse", "preParse only"},
         Passes(f), NEW o, IsFatal(o)
  PROVE  Through(f, o)
<1> DEFINE cls == Elem(f).cls  d == Impl(f, o)
<1>0. /\ IsFrame(f) /\ Called(f) /\ cls \in Classes /\ f.i \in Nat /\ Len(Elem(f).exprs) \in Nat
      /\ cls \notin Multiple \cup {"SkipTo"} => f.phase = "impl"
  <2>1. IsFrame(f) /\ Called(f) /\ IsCall(f.call) /\ f.i \in Nat
    BY Zenon DEF Expects, IsFrame
  <2>2. cls \in Classes /\ Len(Elem(f).exprs) \in Nat
    BY <2>1, ElemFacts
  <2> QED BY <2>1, <2>2 DEF IsFrame, Phases
<1>1. ~Missed(o) /\ ~o.ok /\ o.exc # "ParseException"
  BY FatalFacts
<1>2. ASSUME d = Done(o) PROVE Through(f, o)
  BY <1>2, Zenon DEF Through
<1>3. ASSUME cls \notin Multiple \cup Tokens \cup {"SkipTo"} PROVE f.i > 0 /\ f.i # 0
  <2>1. Called(f) /\ f.phase = "impl"
    BY <1>0, <1>3
  <2>2. f.i > 0
    BY <1>3, <2>1 DEF Called, Multiple, Tokens
  <2> QED BY <1>0, <2>2, NotZero, Zenon
<1>4. CASE cls \in Tokens
  BY <1>0, <1>4 DEF Called, Tokens, Multiple
<1>5. CASE cls \in Enhanced
  <2>1. d = EnhanceImpl(f, o) /\ f.i > 0
    BY <1>3, <1>5 DEF Impl, Tokens, Enhanced, Multiple
  <2> QED BY <1>2, <2>1, Zenon DEF EnhanceImpl
<1>6. CASE cls \in Multiple
  <2>1. d = MultipleImpl(f, o)
    BY <1>6 DEF Impl, Tokens, Enhanced, Multiple
  <2>2. f.phase # "impl" /\ (f.phase = "ignore" => f.i > 0)
    BY <1>0, <1>6 DEF Called, Multiple, Tokens
  <2>3. f.phase # "ender"
    BY <1>6 DEF Passes, Multiple
  <2>4. f.phase \in {"ignore", "expr"}
    BY <1>0, <1>6, <2>2, <2>3 DEF IsFrame, Phases, Multiple
  <2>5. f.phase = "ignore" => f.i # 0
    BY <1>0, <2>2
  <2>6. MultipleImpl(f, o) = Done(o)
    BY <1>0, <2>4, <2>5, MultiplePasses
  <2> QED BY <1>2, <2>1, <2>6, Zenon
<1>7. CASE cls = "And"
  <2>1. d = AndImpl(f, o) /\ f.i > 0
    BY <1>3, <1>7 DEF Impl, Tokens, Enhanced, Multiple
  <2>2. d = Done(IF Stopped(f) THEN SyntaxError(f, o) ELSE o)
    BY <1>1, <2>1, Zenon DEF AndImpl
  <2>3. IsFatal(IF Stopped(f) THEN SyntaxError(f, o) ELSE o)
    BY <1>1, StopFatal, Zenon
  <2> QED BY <2>2, <2>3, Zenon DEF Through
<1>8. CASE cls = "Or"
  <2>1. d = OrImpl(f, o) /\ f.i > Len(Elem(f).exprs)
    BY <1>0, <1>8 DEF Impl, Tokens, Enhanced, Multiple, Passes
  <2>2. ~(f.i \in 1 .. Len(Elem(f).exprs))
    BY <1>0, <2>1, PastEnd, Zenon
  <2> QED BY <1>1, <1>2, <2>1, <2>2, Zenon DEF OrImpl
<1>9. CASE cls = "MatchFirst"
  <2>1. d = MatchFirstImpl(f, o) /\ f.i > 0
    BY <1>3, <1>9 DEF Impl, Tokens, Enhanced, Multiple
  <2> QED BY <1>1, <1>2, <2>1, Zenon DEF MatchFirstImpl
<1>10. CASE cls = "Each"
  <2>1. d = EachImpl(f, o)
    BY <1>10 DEF Impl, Tokens, Enhanced, Multiple
  <2>2. f.i = 2
    BY <1>10 DEF Passes
  <2>3. f.i # 0
    BY <1>3, <1>10 DEF Tokens, Multiple
  <2> QED BY <1>1, <1>2, <2>1, <2>2, <2>3, Zenon DEF EachImpl
<1>11. CASE cls \in {"FollowedBy", "_FB"}
  <2>1. d = FollowedByImpl(f, o) /\ f.i # 0 /\ cls # "_FB"
    BY <1>0, <1>3, <1>11 DEF Impl, Tokens, Enhanced, Multiple, Passes
  <2> QED BY <1>1, <1>2, <2>1, Zenon DEF FollowedByImpl
<1>12. CASE cls = "PrecededBy"
  <2>1. d = PrecededByImpl(f, o) /\ f.i > 0 /\ Elem(f).arg.flag
    BY <1>0, <1>3, <1>12 DEF Impl, Tokens, Enhanced, Multiple, Passes
  <2> QED BY <1>1, <1>2, <2>1, Zenon DEF PrecededByImpl
<1>13. CASE cls = "NotAny"
  BY <1>0, <1>13 DEF Passes
<1>14. CASE cls = "Optional"
  <2>1. d = OptionalImpl(f, o) /\ f.i # 0
    BY <1>3, <1>14 DEF Impl, Tokens, Enhanced, Multiple
  <2> QED BY <1>1, <1>2, <2>1, Zenon DEF OptionalImpl
<1>15. CASE cls = "SkipTo"
  <2>1. d = SkipToImpl(f, o) /\ f.phase \in {"expr", "include"}
    BY <1>0, <1>15 DEF Impl, Tokens, Enhanced, Multiple, Passes
  <2>2. SkipToImpl(f, o) = Done(o)
    BY <1>1, <2>1 DEF SkipToImpl
  <2> QED BY <1>2, <2>1, <2>2, Zenon
<1> HIDE DEF cls, d
<1>16. \/ cls \in Tokens \/ cls \in Enhanced \/ cls \in Multiple
       \/ cls = "And" \/ cls = "Or" \/ cls = "MatchFirst" \/ cls = "Each"
       \/ cls \in {"FollowedBy", "_FB"} \/ cls = "PrecededBy" \/ cls = "NotAny"
       \/ cls = "Optional" \/ cls = "SkipTo"
  BY <1>0 DEF Classes, Lookaround, Listed
<1> QED BY <1>4, <1>5, <1>6, <1>7, <1>8, <1>9, <1>10, <1>11, <1>12, <1>13, <1>14, <1>15, <1>16, Zenon

LEMMA FatalOut ==
  ASSUME ParserInv, Fatal(out)
  PROVE  /\ IsFatal(out) /\ call = NoCall /\ driver.phase # "start"
         /\ stack # <<>> => \E c : Expects(Last(stack), c)
<1>1. out # NoOutcome
  BY DEF NoOutcome, Fatal
<1>2. IsOutcome(out) /\ call = NoCall /\ driver.phase # "start"
  BY <1>1, InvFacts
<1>3. IsFatal(out)
  <2>1. out.exc # "none" /\ out.ok = (out.exc = "none")
    BY <1>2, Zenon DEF Fatal, IsOutcome
  <2> QED BY <2>1, Zenon DEF IsFatal
<1>4. stack # <<>> => \E c : Expects(Last(stack), c)
  BY <1>1, <1>2, InvFacts, Zenon DEF Waits
<1> QED BY <1>2, <1>3, <1>4, Zenon

LEMMA StopStep ==
  ASSUME ParserInv, [Next]_vars, Returns, BehindStop(Last(stack)), ~out.ok
  PROVE  Fatal(out')
<1>1. PICK f, d : Pops(f, d)
  BY StepPops, Zenon
<1>2. f = Last(stack) /\ IsFrame(f) /\ d = Advance(f, out) /\ out' = d.out
  BY <1>1, Zenon DEF Pops
<1>3. Elem(f).cls = "And" /\ f.phase = "impl" /\ \E i \in 2 .. f.i - 1 : IsErrorStop(f, i)
  BY <1>2, Zenon DEF BehindStop, IsErrorStop, Part
<1>4. f.i > 0
  <2>1. f.i \in Nat
    BY <1>2, Zenon DEF IsFrame
  <2> QED BY <1>3, <2>1
<1> DEFINE v == SyntaxError(f, out)
<1>5. Impl(f, out) = Done(v)
  <2>1. Impl(f, out) = AndImpl(f, out)
    BY <1>3 DEF Impl, Tokens, Enhanced, Multiple
  <2>2. AndImpl(f, out) = Done(v)
    BY <1>3, <1>4, Zenon DEF AndImpl, Stopped
  <2> QED BY <2>1, <2>2
<1>6. IsFatal(v)
  BY StopFatal
<1> HIDE DEF v
<1>7. Advance(f, out) = Finished(f, Done(v))
  BY <1>3, <1>5 DEF Advance
<1>8. d.out = v
  BY <1>2, <1>6, <1>7, FatalReturned
<1> QED BY <1>2, <1>6, <1>8, Zenon DEF IsFatal

(* The frame on top passes a fatal exception on.                           *)
LEMMA AdvancePasses ==
  ASSUME GrammarOK, NEW f, NEW c, Expects(f, c), f.phase # "preParse only", Passes(f),
         NEW o, IsFatal(o)
  PROVE  Advance(f, o).do = "return" /\ IsFatal(Advance(f, o).out)
<1>1. CASE f.phase = "preParse"
  <2>1. Preparses(f) /\ f.i \in Nat /\ f.i > 0
    <3>1. Called(f) /\ Awaits(f, c) /\ f.i \in Nat
      BY Zenon DEF Expects, IsFrame
    <3>2. f.i > 0
      BY <1>1, <3>1 DEF Called
    <3> QED BY <1>1, <3>1, <3>2, Zenon DEF Awaits
  <2>2. f.i # 0
    BY <2>1, NotZero, Zenon
  <2>3. SkipIgnorables(f, o) = Done(o)
    BY <2>2, FatalSkips
  <2>4. Done(o).do = "return" /\ Done(o).out = o
    BY DEF Done
  <2>5. Advance(f, o) = Done(o)
    BY <1>1, <2>1, <2>3, <2>4 DEF Advance
  <2> QED BY <2>4, <2>5, Zenon
<1>2. CASE f.phase # "preParse"
  <2>1. PICK v : Impl(f, o) = Done(v) /\ IsFatal(v)
    BY <1>2, ImplPasses DEF Through
  <2>2. Advance(f, o) = Finished(f, Done(v))
    BY <1>2, <2>1, Zenon DEF Advance
  <2> DEFINE d == Finished(f, Done(v))
  <2>3. d.do = "return" /\ d.out = v
    BY <2>1, FatalReturned
  <2> HIDE DEF d
  <2>4. Advance(f, o) = d
    BY <2>2 DEF d
  <2> QED BY <2>1, <2>3, <2>4, Zenon
<1> QED BY <1>1, <1>2

LEMMA DriverEnds ==
  ASSUME ParserInv, IsFatal(out), ParseString \/ ScanString
  PROVE  call' = NoCall /\ driver'.phase = "end"
<1>1. \E r : Return(r)
  BY FatalFacts, Zenon DEF ParseString, ScanString
<1>2. Idle
  BY Zenon DEF ParseString, ScanString
<1>3. PICK r : Return(r)
  BY <1>1
<1>4. call' = call /\ driver' = [driver EXCEPT !.phase = "end", !.result = r]
  BY <1>3, Zenon DEF Return
<1>5. DOMAIN driver = LocalsOf
  BY DriverFacts
<1> QED BY <1>2, <1>4, <1>5 DEF Idle, LocalsOf

LEMMA PassStep ==
  ASSUME ParserInv, [Next]_vars, Fatal(out), \A f \in Top : Passes(f)
  PROVE  UNCHANGED vars \/ (call' = NoCall /\ (Fatal(out') \/ driver'.phase = "end"))
<1>0. GrammarOK /\ IsStack(stack)
  BY InvFacts
<1>1. IsFatal(out) /\ call = NoCall /\ driver.phase # "start"
  BY FatalOut
<1>2. CASE \E classes : Step(classes)
  <2>1. PICK classes : Step(classes)
    BY <1>2
  <2>2. PICK f \in Top : f.phase # "preParse only" /\
          \E d \in {Advance(f, out)} :
            IF d.do = "call" THEN Goes(d)
            ELSE /\ stack' = Front(stack) /\ out' = d.out
                 /\ cache' = Stored(Cleared(f, d), f.call, d.out)
                 /\ acts' = IF d.ran THEN Append(acts, f.call) ELSE acts
                 /\ UNCHANGED call
    BY <2>1, Zenon DEF Step
  <2>3. stack # <<>> /\ f = Last(stack)
    BY <1>0, TopIsLast
  <2>4. PICK c : Expects(f, c)
    BY <2>3, FatalOut
  <2> DEFINE d == Advance(f, out)
  <2>5. d.do = "return" /\ IsFatal(d.out)
    BY <1>0, <1>1, <2>2, <2>4, AdvancePasses
  <2>6. IF d.do = "call" THEN Goes(d) ELSE out' = d.out /\ call' = call
    BY <2>2, Zenon
  <2> HIDE DEF d
  <2>7. out' = d.out /\ call' = call
    BY <2>5, <2>6
  <2> QED BY <1>1, <2>5, <2>7, Zenon DEF IsFatal
<1>3. CASE PreParseStep
  <2>1. PICK f \in Top : f.phase = "preParse only" /\
          \E d \in {SkipIgnorables(f, out)} :
            IF d.do = "call" THEN Goes(d)
            ELSE /\ stack' = Front(stack) /\ UNCHANGED <<call, cache, acts>>
                 /\ out' = IF d.do = "skipped" THEN Ok(PreParsed(d.frame), <<>>) ELSE d.out
    BY <1>3, Zenon DEF PreParseStep
  <2>2. stack # <<>> /\ f = Last(stack) /\ IsFrame(f)
    BY <1>0, TopIsLast
  <2>3. f.i # 0
    <3>1. PICK c : Expects(f, c)
      BY <2>2, FatalOut
    <3>2. f.i > 0 /\ f.i \in Nat
      BY <2>1, <2>2, <3>1, Zenon DEF Expects, Called, IsFrame
    <3> QED BY <3>2, NotZero, Zenon
  <2> DEFINE d == SkipIgnorables(f, out)
  <2>4. d = Done(out)
    BY <1>1, <2>3, FatalSkips
  <2>5. IF d.do = "call" THEN Goes(d)
        ELSE call' = call /\ out' = IF d.do = "skipped" THEN Ok(PreParsed(d.frame), <<>>) ELSE d.out
    BY <2>1, Zenon
  <2> HIDE DEF d
  <2>6. d.do = "return" /\ d.out = out
    BY <2>4 DEF Done
  <2>7. call' = call /\ out' = out
    BY <2>5, <2>6
  <2> QED BY <1>1, <2>7, Zenon DEF IsFatal, Fatal
<1>4. CASE ParseString \/ ScanString
  BY <1>1, <1>4, DriverEnds
<1>5. CASE Begins \/ Hit \/ Miss \/ TooDeep
  BY <1>1, <1>5, Zenon DEF Begins, Hit, Miss, TooDeep
<1>6. CASE Ended \/ UNCHANGED vars
  BY <1>6, Zenon DEF Ended
<1>7. \/ UNCHANGED vars \/ \E classes : Step(classes)
      \/ Begins \/ ParseString \/ ScanString \/ PreParseStep \/ Hit \/ Miss \/ TooDeep \/ Ended
  BY Zenon DEF Next, TokenStep, AndStep, OrStep, MatchFirstStep, EachStep, EnhanceStep,
           FollowedByStep, PrecededByStep, NotAnyStep, MultipleStep, OptionalStep, SkipToStep
<1> QED BY <1>2, <1>3, <1>4, <1>5, <1>6, <1>7, Zenon

(* A part that fails behind an error stop ends the parse: And makes its    *)
(* failure fatal, and every frame that does not try what it calls hands a  *)
(* fatal exception on, until parseString or scanString returns it.         *)
THEOREM ErrorStopEndsParse == Spec => ErrorStopIsFinal
<1>1. ParserInv /\ [Next]_vars =>
        [/\ Returns /\ BehindStop(Last(stack)) /\ ~out.ok => Fatal(out')
         /\ Fatal(out) /\ (\A f \in Top : Passes(f)) =>
              call' = NoCall /\ (Fatal(out') \/ driver'.phase = "end")]_vars
  BY StopStep, PassStep, Zenon
<1> QED BY <1>1, ParserIsInvariant, PTL DEF Spec, ErrorStopIsFinal

=============================================================================
