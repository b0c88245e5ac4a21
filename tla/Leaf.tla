-------------------------------- MODULE Leaf --------------------------------
(***************************************************************************)
(* The values without parts - any, nil, scalars, scalar kinds, empty() and *)
(* constraint residuals - and the meet of two of them, as unite dispatches *)
(* it (unify.ts; val/ScalarVal.ts, StringVal.ts, PathVal.ts,               *)
(* ScalarKindVal.ts, EmptyVal.ts, ConstraintVal.ts).                       *)
(***************************************************************************)
EXTENDS Residual

\* Every address starts with $ or a dot: it is past the text "$" and short
\* of the first text that starts after a dot.
CONSTANTS Dollar, AfterDot
ASSUME AddressAssumption ==
  /\ Dollar \in Nat /\ AfterDot \in Nat
  /\ \A a \in Address : Dollar < a /\ a < AfterDot

(***************************************************************************)
(* A string that met the string kind while it is "" is owed a refusal      *)
(* (needs), and one that met empty() is let off (ok): the two flags are    *)
(* combined by every later meet and read when the value is generated.      *)
(***************************************************************************)
Top == [is |-> "top"]
Nil == [is |-> "nil"]
Empty == [is |-> "empty"]
Kind(k, ok) == [is |-> "kind", kind |-> k, ok |-> ok]
Scalar(x, needs, ok) == [is |-> "scalar", leaf |-> x.leaf, v |-> x.v, needs |-> needs, ok |-> ok]
Lit(x) == Scalar(x, FALSE, FALSE)

\* The boolean kind is left out: beside trial schemas alone it stays a
\* conjunction, which is a value with parts.
KindName == NumLeaf \union TextLeaf \union {"number"}
KindSubsumes(sup, sub) == sup = sub \/ (sup = "number" /\ sub \in NumLeaf)

WithNonEmpty(s) == [s EXCEPT !.needs = s.needs \/ (s.leaf = "string" /\ s.v = 0)]
WithEmpty(s) == IF s.leaf = "string" THEN [s EXCEPT !.ok = TRUE] ELSE s

LeafType ==
  {Top, Nil, Empty}
    \union {k \in [is : {"kind"}, kind : KindName, ok : BOOLEAN] : k.ok => k.kind = "string"}
    \union {s \in [is : {"scalar"}, leaf : Leaf \ {"bag"}, v : Int, needs : BOOLEAN, ok : BOOLEAN] :
              /\ [leaf |-> s.leaf, v |-> s.v] \in Instance
              /\ s.needs \/ s.ok => s.leaf = "string"}
    \union {r \in ResidualType : WellFormed(r) /\ ~StateEmpty(r)}

\* MUTANT of Finish: the residual that arises is not looked into.
FinishUnchecked(r) == r

\* A residual with nothing left in it is refused where it arises.
Finish(r) == IF StateEmpty(r) THEN Nil ELSE r

(***************************************************************************)
(* The atoms as they are written, each a residual of its own or a refusal. *)
(***************************************************************************)
OrderPoint(x) == x.leaf \in NumLeaf \union TextLeaf

MinConstraint(x)   == [Free EXCEPT !.domain = DomainOf(x), !.lo = At(x, FALSE)]
AboveConstraint(x) == [Free EXCEPT !.domain = DomainOf(x), !.lo = At(x, TRUE)]
MaxConstraint(x)   == [Free EXCEPT !.domain = DomainOf(x), !.hi = At(x, FALSE)]
BelowConstraint(x) == [Free EXCEPT !.domain = DomainOf(x), !.hi = At(x, TRUE)]

\* Every argument of neq is an order point, and all are of one domain.
NeqConstraint(xs) ==
  IF xs # {} /\ (\A x, y \in xs : OrderPoint(x) /\ DomainOf(x) = DomainOf(y))
    THEN [Free EXCEPT !.domain = DomainOf(CHOOSE x \in xs : TRUE), !.neqs = xs]
    ELSE Nil

MulofConstraint(x) ==
  IF x.leaf \in NumLeaf /\ x.v > 0
    THEN [Free EXCEPT !.domain = "number", !.mults = {x}] ELSE Nil

\* re and format take the string domain outright.
ReConstraint(test) == [Free EXCEPT !.domain = "string", !.tests = {test}]

UniqueConstraint         == [Free EXCEPT !.uniq = TRUE]
UniqueByConstraint(key)  == [Free EXCEPT !.keys = {key}]
MustConstraint(check)    == [Free EXCEPT !.checks = {check}]
ContainsConstraint(atom) == [Free EXCEPT !.contains = {atom}]
RestConstraint(atom)     == [Free EXCEPT !.rests = {atom}]

\* A count: a number, a numeric residual that sizes nothing, or a numeric
\* kind.  Its meet with the whole numbers from 0 may leave nothing.
CountArg(a) ==
  CASE a.is = "scalar" /\ a.leaf \in NumLeaf ->
         LET x == [leaf |-> a.leaf, v |-> a.v]
         IN  [CountBase EXCEPT !.kind = "none", !.lo = At(x, FALSE), !.hi = At(x, FALSE)]
    [] a.is = "residual" /\ a.domain = "number" ->
         [CountBase EXCEPT !.kind = a.kind, !.lo = a.lo, !.hi = a.hi,
                           !.neqs = a.neqs, !.mults = a.mults]
    [] a.is = "kind" /\ a.kind \in NumLeaf \union {"number"} ->
         [CountBase EXCEPT !.kind = IF a.kind = "number" THEN "none" ELSE a.kind,
                           !.lo = NoBound]
    [] OTHER -> NoCount

LenConstraint(a) ==
  LET arg == CountArg(a)
      c   == MeetCount(CountBase, arg)
  IN  IF ~arg.on \/ CountEmpty(c) THEN Nil ELSE [Free EXCEPT !.count = c]

(***************************************************************************)
(* Scalars.                                                                *)
(***************************************************************************)
SameScalar(a, b) == a.leaf = b.leaf /\ a.v = b.v

\* Two addresses meet by the prefix rule, to the longer.
PrefixMeet(a, b) ==
  IF a.v = b.v \/ <<b.v, a.v>> \in Opens THEN a
  ELSE IF <<a.v, b.v>> \in Opens THEN b ELSE Nil

ScalarScalar(a, b) ==
  IF a.leaf = "path" /\ b.leaf = "path" THEN PrefixMeet(a, b)
  ELSE IF SameScalar(a, b)
    THEN [a EXCEPT !.needs = a.needs \/ b.needs, !.ok = a.ok \/ b.ok]
    ELSE Nil

(***************************************************************************)
(* Kinds.                                                                  *)
(***************************************************************************)
KindKind(a, b) ==
  IF a.kind = b.kind THEN [a EXCEPT !.ok = a.ok \/ b.ok]
  ELSE IF KindSubsumes(a.kind, b.kind) THEN b
  ELSE IF KindSubsumes(b.kind, a.kind) THEN a ELSE Nil

KindScalar(k, s) ==
  IF ~KindSubsumes(k.kind, s.leaf) THEN Nil
  ELSE IF k.kind # "string" THEN s
  ELSE IF k.ok THEN WithEmpty(s) ELSE WithNonEmpty(s)

(***************************************************************************)
(* Residuals.                                                              *)
(***************************************************************************)
\* A kind narrows a residual, or refuses it.
KindRefused(r, k) ==
  \/ k.kind = "path" /\ (r.domain = "number" \/ r.nonEmpty \/ r.emptyOk)
  \/ k.kind = "string" /\ r.pathKind
  \/ k.kind \in {"number", "string"} /\ r.domain \notin {"none", k.kind}
  \/ k.kind \in NumLeaf /\ (r.domain = "string" \/ r.kind \notin {"none", k.kind})

Narrowed(r, k) ==
  [r EXCEPT !.domain   = IF k.kind \in TextLeaf THEN "string" ELSE "number",
            !.kind     = IF k.kind \in NumLeaf THEN k.kind ELSE r.kind,
            !.nonEmpty = r.nonEmpty \/ k.kind = "string",
            !.emptyOk  = r.emptyOk \/ k.ok,
            !.pathKind = r.pathKind \/ k.kind = "path"]

MeetKind(r, k) == IF KindRefused(r, k) THEN Nil ELSE Finish(Narrowed(r, k))

\* A scalar is admitted, and takes the residual's two flags, or refused.
Admit(r, s) ==
  IF ~AdmitsScalar(r, s) THEN Nil
  ELSE LET t == IF r.nonEmpty THEN WithNonEmpty(s) ELSE s
       IN  IF r.emptyOk THEN WithEmpty(t) ELSE t

MeetConstraint(a, b) ==
  IF \/ a.domain # "none" /\ b.domain # "none" /\ a.domain # b.domain
     \/ a.kind # "none" /\ b.kind # "none" /\ a.kind # b.kind
     \/ a.pathKind /\ (b.nonEmpty \/ b.emptyOk)
     \/ b.pathKind /\ (a.nonEmpty \/ a.emptyOk)
    THEN Nil ELSE Finish(Merged(a, b))

AllowEmpty(r) ==
  IF r.domain = "number" \/ r.kind # "none" \/ r.pathKind THEN Nil
  ELSE Finish([r EXCEPT !.domain = "string", !.emptyOk = TRUE])

\* empty() waives a requirement of strings and refuses the rest.
MeetEmpty(v) ==
  CASE v.is = "empty" -> Empty
    [] v.is = "kind" -> IF v.kind = "string" THEN [v EXCEPT !.ok = TRUE] ELSE Nil
    [] v.is = "scalar" -> IF v.leaf = "string" THEN WithEmpty(v) ELSE Nil
    [] v.is = "residual" -> AllowEmpty(v)
    [] OTHER -> v

(***************************************************************************)
(* unite: any is the unit, a failure stays itself, empty() answers from    *)
(* either side, then residuals, kinds and scalars.                         *)
(***************************************************************************)
Unite(a, b) ==
  CASE b.is = "top" -> a
    [] a.is = "top" /\ b.is # "top" -> b
    [] a.is = "nil" /\ b.is # "top" -> a
    [] b.is = "nil" /\ a.is \notin {"top", "nil"} -> b
    [] b.is = "empty" /\ a.is \notin {"top", "nil"} -> MeetEmpty(a)
    [] a.is = "empty" /\ b.is \notin {"top", "nil", "empty"} -> MeetEmpty(b)
    [] a.is = "residual" /\ b.is = "residual" -> MeetConstraint(a, b)
    [] a.is = "residual" /\ b.is = "kind" -> MeetKind(a, b)
    [] a.is = "kind" /\ b.is = "residual" -> MeetKind(b, a)
    [] a.is = "residual" /\ b.is = "scalar" -> Admit(a, b)
    [] a.is = "scalar" /\ b.is = "residual" -> Admit(b, a)
    [] a.is = "kind" /\ b.is = "kind" -> KindKind(a, b)
    [] a.is = "kind" /\ b.is = "scalar" -> KindScalar(a, b)
    [] a.is = "scalar" /\ b.is = "kind" -> KindScalar(b, a)
    [] a.is = "scalar" /\ b.is = "scalar" -> ScalarScalar(a, b)

(***************************************************************************)
(* What a value admits, the refusal of "" apart: that is the flags'.       *)
(***************************************************************************)
Admits(a, x) ==
  CASE a.is = "top" -> TRUE
    [] a.is = "nil" -> FALSE
    [] a.is = "empty" -> x.leaf = "string"
    [] a.is = "kind" -> KindSubsumes(a.kind, x.leaf)
    [] a.is = "scalar" ->
         SameScalar(a, x) \/ (a.leaf = "path" /\ x.leaf = "path" /\ <<a.v, x.v>> \in Opens)
    [] a.is = "residual" -> ResidualAdmits(a, x)

\* Whether a value refuses "" for want of empty(), read when it settles.
Needs(a) ==
  CASE a.is = "kind" -> a.kind = "string"
    [] a.is = "scalar" -> a.needs
    [] a.is = "residual" -> a.nonEmpty
    [] OTHER -> FALSE
Waives(a) ==
  CASE a.is \in {"kind", "scalar"} -> a.ok
    [] a.is = "residual" -> a.emptyOk
    [] OTHER -> a.is = "empty"
RefusesEmpty(a) == Needs(a) /\ ~Waives(a)

(***************************************************************************)
(* subsume on two values without parts: TRUE where the query answers yes.  *)
(***************************************************************************)
InsideString(s) ==
  \/ s.nonEmpty /\ ~s.emptyOk
  \/ /\ ~(AdmitsScalar(s, [leaf |-> "string", v |-> 0]) /\ ~(s.nonEmpty /\ ~s.emptyOk))
     /\ s.checks = {} /\ s.rests = {}
     /\ s.lo.on /\ s.lo.at.v >= AfterDot

RefusesPaths(s) ==
  \/ s.nonEmpty
  \/ s.lo.on /\ s.lo.at.v >= AfterDot
  \/ s.hi.on /\ (s.hi.at.v < Dollar \/ (s.hi.open /\ s.hi.at.v = Dollar))

\* Above the string kind: nothing refuses a string the kind admits.
AboveString(g, strict) ==
  /\ g.domain \in {"none", "string"} /\ g.kind = "none" /\ ~g.pathKind
  /\ ~g.hi.on /\ ~g.count.on /\ ~g.uniq /\ g.keys = {}
  /\ g.tests = {} /\ OpaqueAtoms(g) = {}
  /\ g.lo.on => g.lo.at.v = 0 /\ (strict \/ ~g.lo.open)
  /\ strict \/ ~(g.nonEmpty /\ ~g.emptyOk)
  /\ \A n \in g.neqs : n.leaf = "string" => strict /\ n.v = 0

KindCovers(g, s) ==
  LET strict == g.kind = "string" /\ ~g.ok
  IN  CASE s.is = "kind" -> KindSubsumes(g.kind, s.kind) /\ ~(strict /\ s.ok)
        [] s.is = "scalar" ->
             KindSubsumes(g.kind, s.leaf) /\ ~(strict /\ (s.ok \/ (s.leaf = "string" /\ s.v = 0)))
        [] s.is = "residual" ->
             \/ s.domain = "number" /\ (g.kind = "number" \/ g.kind = s.kind)
             \/ /\ s.domain = "string" /\ g.kind = "string" /\ ~s.pathKind
                /\ IF strict THEN InsideString(s) ELSE RefusesPaths(s)
             \/ g.kind = "path" /\ s.pathKind
        [] OTHER -> FALSE

KindState(k) ==
  [Free EXCEPT !.domain = "number", !.kind = IF k \in NumLeaf THEN k ELSE "none"]

ConstraintCovers(g, s) ==
  CASE s.is = "residual" -> g = s \/ ResidualCovers(g, s)
    [] s.is = "scalar" ->
         /\ g.checks = {} /\ g.rests = {} /\ AdmitsScalar(g, s)
         /\ ~(g.nonEmpty /\ ~g.emptyOk /\ s.leaf = "string" /\ s.v = 0)
    [] s.is = "kind" ->
         \/ s.kind \in NumLeaf \union {"number"} /\ ResidualCovers(g, KindState(s.kind))
         \/ s.kind = "string" /\ AboveString(g, ~s.ok)
    [] OTHER -> FALSE

Covers(g, s) ==
  CASE g.is = "top" -> TRUE
    [] s.is = "nil" /\ g.is # "top" -> TRUE
    [] g.is = "kind" /\ s.is # "nil" -> KindCovers(g, s)
    [] g.is = "residual" /\ s.is # "nil" -> ConstraintCovers(g, s)
    [] g.is = "scalar" /\ s.is # "nil" ->
         s.is = "scalar" /\ (SameScalar(g, s) \/ (g.leaf = "path" /\ s.leaf = "path"
                                                  /\ <<g.v, s.v>> \in Opens))
    [] OTHER -> g = s
=============================================================================
