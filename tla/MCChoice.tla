------------------------------ MODULE MCChoice ------------------------------
(***************************************************************************)
(* Small vocabularies for TLC: halves and whole numbers, one text, maps of *)
(* two keys.                                                               *)
(***************************************************************************)
EXTENDS Choice

MCKeyOrder == <<"x", "y">>
MCLength == [s \in Spelling |-> s]

Num(n) == [leaf |-> "integer", v |-> 2 * n]
N(n) == Lit(Num(n))
A == Lit([leaf |-> "string", v |-> 1])
Integer == Kind("integer", FALSE)
AtMost1 == MaxConstraint(Num(1))
Star(v) == Pref(v, 0, Top)
StarStar(v) == Pref(v, 1, Top)
Or(a, b) == Alts(<<a, b>>)

X(v) == [k \in {"x"} |-> v]
XY(v, w) == [k \in {"x", "y"} |-> IF k = "x" THEN v ELSE w]
Open(of) == Map(of, {}, FALSE, None)
Closed(of) == Map(of, {}, TRUE, None)

Scalars == {Num(0), Num(1), Num(2), Num(3), [leaf |-> "float", v |-> 3], [leaf |-> "string", v |-> 1]}
Members == {Atomic(Num(n)) : n \in 1 .. 3} \union {Atomic([leaf |-> "string", v |-> 1]),
            Bagged(<<>>), Bagged(X(Atomic(Num(1))))}
MCSample ==
  {Atomic(x) : x \in Scalars} \union {Bagged(<<>>)}
    \union {Bagged(X(x)) : x \in Members} \union {Bagged([k \in {"y"} |-> Atomic(Num(n))]) : n \in 1 .. 2}
    \union {Bagged(XY(x, Atomic(Num(1)))) : x \in Members} \union {Bagged(XY(Atomic(Num(1)), Atomic(Num(2))))}

Leaves == {N(1), A, Integer, AtMost1, Or(N(1), N(2)), Or(Integer, A), Or(N(1), Open(X(N(1)))),
           Alts(<<N(1), N(2), N(1)>>),
           Star(N(1)), StarStar(N(2)), Or(Star(N(1)), N(2)), Or(StarStar(N(2)), Star(A))}
Maps == {Open(X(Integer)), Open(XY(Or(N(1), N(2)), N(1))), Map(X(N(1)), {"x"}, FALSE, None),
         Map(XY(N(1), Or(N(1), N(2))), {"y"}, FALSE, None), Closed(X(Integer)), Closed(XY(N(1), Integer)),
         Map(XY(Open(<<>>), Integer), {"y"}, TRUE, None), Map(<<>>, {}, FALSE, Integer),
         Map(X(N(1)), {}, FALSE, AtMost1), Or(Closed(X(N(1))), Open(<<>>)),
         Or(Open(X(N(1))), Open(X(N(2)))), Open(X(Star(N(1)))), Star(Open(X(N(1)))), Open(X(Or(Star(N(1)), N(2)))),
         Or(Star(Open(X(N(1)))), Open(XY(N(2), N(2))))}
\* An optional map whose second member says no value.
MCPartial == {Map(X(Open(XY(N(1), Integer))), {"x"}, FALSE, None)}
MCTerms == Leaves \union Maps
=============================================================================
