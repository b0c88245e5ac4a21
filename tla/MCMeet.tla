------------------------------- MODULE MCMeet -------------------------------
(***************************************************************************)
(* Small vocabularies for TLC.  The texts, in code-point order:            *)
(*   0 ""  1 "#"  2 "$"  3 "."  4 ".a"  5 ".a.b"  6 "/"  7 "a"  8 "ab"     *)
(***************************************************************************)
EXTENDS Meet

MCSpelling == 0 .. 8
MCLength ==
  [s \in Spelling |-> CASE s = 0 -> 0 [] s \in {1, 2, 3, 6, 7} -> 1 [] s \in {4, 8} -> 2
                       [] s = 5 -> 4]
MCOpens == {<<4, 5>>}

Num(leaf, v) == [leaf |-> leaf, v |-> v]
Str(v) == [leaf |-> "string", v |-> v]
Path(v) == [leaf |-> "path", v |-> v]

\* A pattern of the letters, a trial schema of small numbers and short
\* texts, members that differ.
MCHolds ==
  {<<"letters", leaf, v>> : leaf \in TextLeaf, v \in {0, 4, 7, 8}}
    \union {<<"small", leaf, v>> : leaf \in Leaf, v \in {0, 1, 2, 4, 7}}
    \union {<<"unique", "bag", v>> : v \in {0, 1}}
    \union {<<"by", "bag", v>> : v \in {0, 2}}

MCSample ==
  {Num(leaf, v) : leaf \in {"integer", "biginteger"}, v \in {0, 2, 4}}
    \union {Num(leaf, v) : leaf \in {"float", "bigdecimal"}, v \in {-1, 2, 3, 4}}
    \union {Str(v) : v \in Spelling} \union {Path(v) : v \in Address}
    \union {Num("boolean", 1)} \union {Num("bag", v) : v \in 0 .. 3}

Numbers ==
  {MinConstraint(Num("integer", 2)), MinConstraint(Num("float", 2)),
   AboveConstraint(Num("bigdecimal", 2)), BelowConstraint(Num("float", 4)),
   MaxConstraint(Num("integer", 2)), NeqConstraint({Num("integer", 2), Num("float", 2)}),
   MulofConstraint(Num("integer", 4)), MulofConstraint(Num("float", 1)),
   Kind("number", FALSE), Kind("integer", FALSE), Lit(Num("float", 3)), Lit(Num("integer", 2))}
Texts ==
  {MinConstraint(Str(4)), MaxConstraint(Str(7)), AboveConstraint(Str(0)), NeqConstraint({Str(7)}),
   MinConstraint(Path(4)), ReConstraint("letters"), Kind("string", FALSE), Kind("path", FALSE), Empty,
   Lit(Str(0)), Lit(Str(7)), Lit(Path(4))}
Sizes ==
  {LenConstraint(MinConstraint(Num("integer", 2))), LenConstraint(MaxConstraint(Num("float", 3))),
   LenConstraint(MulofConstraint(Num("integer", 4))), UniqueConstraint,
   UniqueByConstraint("by"), ContainsConstraint("small"), RestConstraint("by"),
   MustConstraint("small")}
All == Numbers \union Texts \union Sizes

Paths == {Lit(Path(4)), Lit(Path(5)), MaxConstraint(Str(4)), NeqConstraint({Str(5)}), Kind("path", FALSE)}
=============================================================================
