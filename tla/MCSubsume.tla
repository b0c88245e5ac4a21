----------------------------- MODULE MCSubsume -----------------------------
(***************************************************************************)
(* Small documents for TLC.  Every name but "v" is a declaration, which is *)
(* no field: the walk reaches it through a recursion.                      *)
(***************************************************************************)
EXTENDS Subsume

MCAtom == {"number", "integer", "1", "string", "pattern", "len0"}
MCAbove ==
  {<<a, a>> : a \in MCAtom}
    \union {<<"number", "integer">>, <<"number", "1">>, <<"integer", "1">>}
MCUnclear == {<<"string", "pattern">>}
MCPasses ==
  {<<"number", v>> : v \in {"1", "2", "1.5"}} \union {<<"integer", v>> : v \in {"1", "2"}}
    \union {<<"1", "1">>, <<"string", "a">>, <<"string", "b">>, <<"pattern", "a">>}
MCCounts == {<<"len0", 0>>}

X(f) == [k \in {"x"} |-> f]
XY(f, h) == [k \in {"x", "y"} |-> IF k = "x" THEN f ELSE h]

Atomic == {[is |-> "atom", v |-> v] : v \in {"1", "2", "1.5", "a", "b"}}
Bagged(is, keys, vs) == {[is |-> is, at |-> f] : f \in UNION {[ks -> vs] : ks \in keys}}
Flat == Atomic \union Bagged("map", {{}}, {}) \union Bagged("list", {{}}, {})
Nested ==
  Flat \union Bagged("map", SUBSET {"x", "y"}, Flat)
       \union Bagged("list", {{}, {"0"}, {"0", "1"}, {"0", "1", "2"}}, Atomic)
Deep == Nested \union Bagged("map", {{"x"}}, Nested)
Deeper == Deep \union Bagged("map", {{"x"}}, Deep)
Wide == {[is |-> "map", at |-> XY(w, v)] : w \in Bagged("map", SUBSET {"x", "y"}, Flat), v \in Flat}
Fresh == {[m EXCEPT !.at = With(@, {"z"}, [is |-> "atom", v |-> "1"])] :
            m \in Bagged("map", SUBSET {"x", "y"}, Flat)}
MCSample == Wide \union Fresh \union Deeper \union Bagged("map", {{"x"}}, Deeper)

Map(at, optional) == Bag(FALSE, at, optional, FALSE, NoSpread)
Sealed(at, optional) == Bag(FALSE, at, optional, TRUE, NoSpread)
Spread(at, f) == Bag(FALSE, at, {}, FALSE, f)
List(at) == Bag(TRUE, at, {}, FALSE, NoSpread)
SealedList(at) == Bag(TRUE, at, {}, TRUE, NoSpread)
SpreadList(at, f) == Bag(TRUE, at, {}, FALSE, f)

Or(f, h) == Alts([k \in {"a", "b"} |-> IF k = "a" THEN f ELSE h])
None == [k \in {} |-> Nil]
V(f) == [n \in {"v"} |-> f]
Doc(f, a) == [n \in {"v", "a"} |-> IF n = "v" THEN f ELSE a]
Doc2(f, a, b) == [n \in {"v", "a", "b"} |-> IF n = "v" THEN f ELSE IF n = "a" THEN a ELSE b]

Flats ==
  {V(f) : f \in {Any, Leaf("number"), Leaf("1"), Leaf("string"), Leaf("pattern"),
     Or(Leaf("1"), Leaf("string")), Or(Leaf("integer"), Leaf("pattern")),
     Map(None, {}), Map(X(Leaf("integer")), {}), Map(X(Leaf("1")), {"x"}), Map(X(Nil), {"x"}),
     Map(XY(Leaf("1"), Leaf("string")), {}), Map(XY(Leaf("1"), Leaf("string")), {"y"}),
     Sealed(None, {}), Sealed(X(Leaf("integer")), {}), Sealed(X(Leaf("1")), {"x"}),
     Sealed(X(Nil), {"x"}), Spread(None, Leaf("number")), Spread(X(Leaf("1")), Leaf("integer")),
     Or(Map(X(Leaf("1")), {}), Leaf("1")),
     Or(Map(XY(Leaf("1"), Leaf("string")), {}), Leaf("1")), Map(XY(Leaf("1"), Leaf("pattern")), {}),
     Map(X(Or(Leaf("1"), Leaf("pattern"))), {}),
     Leaf("len0"), Map(X(Leaf("len0")), {}), Map(X(Sealed(None, {})), {}),
     Or(Leaf("len0"), Leaf("1")), List(None), SealedList([k \in {"0"} |-> Leaf("1")]), SpreadList(None, Leaf("integer")),
     List([k \in {"0", "1"} |-> Leaf("integer")])}}

\* A recursion, its unrolling, two names that take turns, one that has to
\* end and ones that never do, one with two members, a name used twice, and
\* recursions that unfold to nothing.
Recs ==
  {Doc(f, Sealed(X(Rec("a")), {"x"})) : f \in {Rec("a"), Sealed(X(Rec("a")), {"x"}),
     Sealed(X(Sealed(X(Rec("a")), {"x"})), {"x"})}}
    \union {Doc2(Rec("a"), Sealed(X(Rec("b")), {"x"}), Sealed(X(Rec("a")), {"x"})),
            Doc(Rec("a"), Map(XY(Rec("a"), Leaf("integer")), {"x"})),
            Doc(Rec("a"), Map(XY(Rec("a"), Leaf("1")), {"x"})),
            Doc(Rec("a"), Or(Leaf("integer"), Map(X(Rec("a")), {}))),
            Doc(Rec("a"), Or(Leaf("1"), Map(X(Rec("a")), {}))),
            Doc(Or(Leaf("string"), Rec("a")), Or(Leaf("1"), Map(X(Rec("a")), {}))),
            Doc(Rec("a"), Map(X(Rec("a")), {})),
            Doc(Rec("a"), Spread(None, Rec("a"))),
            Doc2(Rec("a"), Map(XY(Rec("a"), Rec("b")), {"x", "y"}),
                 Map(XY(Rec("b"), Leaf("1")), {"x"})),
            Doc2(Rec("a"), Map(XY(Rec("b"), Rec("a")), {"x", "y"}),
                 Map(XY(Rec("a"), Leaf("number")), {"x"})),
            Doc2(Rec("a"), Rec("b"), Map(X(Rec("a")), {"x"})),
            Doc(Map(XY(Rec("a"), Rec("a")), {}), Map(X(Leaf("integer")), {})),
            Doc(Map(XY(Rec("a"), Rec("a")), {}), Map(X(Leaf("1")), {})),
            Doc(Rec("a"), Rec("a")), Doc(Rec("a"), Or(Rec("a"), Leaf("1"))),
            Doc2(Rec("a"), Rec("b"), Or(Leaf("1"), Rec("a")))}

MCForm == [d \in Docs |-> {n.form : n \in Nodes(d)}]

\* A head h with two members to compare.  Its x opens r, whose first member
\* p reaches a, and a reaches p again; p's other member reaches h, so a
\* yes for a and one for p wait for h.  r's second member q reaches a.
Knot(n) ==
  [name \in {"v", "h", "r", "p", "a", "q"} |->
     CASE name = "v" -> Rec("h")
       [] name = "h" -> Map(XY(Rec("r"), Leaf(n)), {})
       [] name = "r" -> Map(XY(Rec("p"), Rec("q")), {"x", "y"})
       [] name = "p" -> Map(XY(Rec("a"), Rec("h")), {"x", "y"})
       [] name = "a" -> Map(X(Rec("p")), {"x"})
       [] name = "q" -> Map(X(Rec("a")), {"x"})]
Knots == {Knot("integer"), Knot("string")}

\* Choices between maps that count as concrete, and yet a key of theirs may
\* be left out, or a template admits others; the last may hold themselves.
Looseness ==
  {V(Or(Sealed(X(Leaf("1")), {}), Sealed(None, {}))),
   V(Or(Sealed(X(Leaf("1")), {"x"}), Sealed(X(Leaf("1")), {}))),
   V(Or(Spread(None, Leaf("pattern")), Leaf("1"))), V(Or(Spread(None, Leaf("string")), Leaf("1"))),
   Doc(Rec("a"), Map(XY(Or(Spread(None, Rec("a")), Leaf("1")), Leaf("string")), {})),
   Doc(Rec("a"), Map(XY(Or(Spread(None, Rec("a")), Leaf("1")), Leaf("pattern")), {}))}

MCLoose ==
  {V(Sealed(X(Leaf("1")), {"x"})), V(Or(Sealed(X(Leaf("1")), {}), Sealed(None, {})))}
\* A length that no rule tries on a map, among alternatives.
MCDoubt == {V(Sealed(None, {})), V(Or(Leaf("len0"), Leaf("1")))}
MCDocs == Flats \union Recs \union Knots \union Looseness
=============================================================================
