------------------------------ MODULE Residual ------------------------------
(***************************************************************************)
(* The constraint algebra: what a run of bound atoms meets to, when it is  *)
(* refused as empty, what it admits, and when one residual is below        *)
(* another (val/ConstraintVal.ts, val/numcmp.ts).                          *)
(*                                                                         *)
(* A scalar is a leaf and a point.  A number's point is twice its value,   *)
(* so a half has one; a string's or a path's is the place of its spelling  *)
(* in code-point order, "" at 0.  What no rule of the algebra looks into   *)
(* - a pattern, a format, a trial schema - is a name, and Holds says of    *)
(* which values it is true.                                                *)
(***************************************************************************)
EXTENDS Integers, FiniteSets

CONSTANTS
  Spelling,   \* the code-point ranks of the texts the values spell
  Length,     \* the characters of each
  Address,    \* the spellings that are addresses, as a path's is
  Opens,      \* <<a, b>>: address b is address a with steps added
  Opaque,     \* the names of the tests, checks and member atoms
  Holds       \* <<atom, leaf, point>>: the atom is true of that value

NumLeaf == {"integer", "float", "biginteger", "bigdecimal"}
TextLeaf == {"string", "path"}
Leaf == NumLeaf \union TextLeaf \union {"boolean", "bag"}

ASSUME SpellingAssumption ==
  /\ Spelling \subseteq Nat
  /\ Length \in [Spelling -> Nat]
ASSUME OpensAssumption ==
  /\ Address \subseteq Spelling \ {0}
  /\ Opens \subseteq Address \X Address
  /\ \A a, b \in Address : <<a, b>> \in Opens => <<b, a>> \notin Opens
  /\ \A a, b, c \in Address :
       <<a, b>> \in Opens /\ <<b, c>> \in Opens => <<a, c>> \in Opens
ASSUME HoldsAssumption == Holds \subseteq Opaque \X Leaf \X Int

(***************************************************************************)
(* Scalars and bounds.  A value that is a map or a list is a bag: the      *)
(* algebra sees its size and what the named atoms find in it.              *)
(***************************************************************************)
Whole(v) == v % 2 = 0

Point ==
  [leaf : {"integer", "biginteger"}, v : {n \in Int : n % 2 = 0}]
    \union [leaf : {"float", "bigdecimal"}, v : Int]
    \union [leaf : {"string"}, v : Spelling]
    \union [leaf : {"path"}, v : Address]

Instance == Point \union [leaf : {"boolean"}, v : {0, 1}] \union [leaf : {"bag"}, v : Nat]

DomainOf(x) ==
  IF x.leaf \in NumLeaf THEN "number" ELSE IF x.leaf \in TextLeaf THEN "string" ELSE "none"

\* The order of the numeric leaves, which decides between equal points.
TowerRank(leaf) ==
  CASE leaf = "integer" -> 0 [] leaf = "float" -> 1
    [] leaf = "biginteger" -> 2 [] leaf = "bigdecimal" -> 3 [] OTHER -> 0

Bound == [on : {TRUE}, at : Point, open : BOOLEAN]
NoBound == [on |-> FALSE, at |-> [leaf |-> "integer", v |-> 0], open |-> FALSE]

At(x, isOpen) == [on |-> TRUE, at |-> x, open |-> isOpen]

\* MUTANT of Tighter: of two ends at one point, the first written.
TighterFirst(a, b, lower) ==
  CASE ~a.on -> b
    [] a.on /\ ~b.on -> a
    [] a.on /\ b.on /\ a.at.v # b.at.v -> IF lower = (a.at.v > b.at.v) THEN a ELSE b
    [] a.on /\ b.on /\ a.at.v = b.at.v /\ a.open # b.open -> IF a.open THEN a ELSE b
    [] OTHER -> a

\* MUTANT of Tighter: of two ends at one point, the closed one.
TighterClosed(a, b, lower) ==
  CASE ~a.on -> b
    [] a.on /\ ~b.on -> a
    [] a.on /\ b.on /\ a.at.v # b.at.v -> IF lower = (a.at.v > b.at.v) THEN a ELSE b
    [] a.on /\ b.on /\ a.at.v = b.at.v /\ a.open # b.open -> IF a.open THEN b ELSE a
    [] OTHER -> IF TowerRank(b.at.leaf) < TowerRank(a.at.leaf) THEN b ELSE a

\* Of two ends on one side the one that admits less; where they coincide
\* the open one, and then the lower leaf of the tower.
Tighter(a, b, lower) ==
  CASE ~a.on -> b
    [] a.on /\ ~b.on -> a
    [] a.on /\ b.on /\ a.at.v # b.at.v -> IF lower = (a.at.v > b.at.v) THEN a ELSE b
    [] a.on /\ b.on /\ a.at.v = b.at.v /\ a.open # b.open -> IF a.open THEN a ELSE b
    [] OTHER -> IF TowerRank(b.at.leaf) < TowerRank(a.at.leaf) THEN b ELSE a

\* Divisors that show one value are one divisor, kept in the lowest leaf.
MergedMults(ms) ==
  {m \in ms : \A n \in ms : n.v = m.v => TowerRank(m.leaf) <= TowerRank(n.leaf)}

IsMultiple(p, d) == p % d = 0

(***************************************************************************)
(* The count residual (len): the same algebra over the whole numbers, so   *)
(* it needs a leaf, two ends, exclusions and divisors, and remembers a     *)
(* clash of leaves it had no context to report.                            *)
(***************************************************************************)
CountVal(n) == [leaf |-> "integer", v |-> 2 * n]
NoCount ==
  [on |-> FALSE, kind |-> "integer", lo |-> At(CountVal(0), FALSE), hi |-> NoBound,
   neqs |-> {}, mults |-> {}, clash |-> FALSE]
CountBase == [NoCount EXCEPT !.on = TRUE]

MeetCount(a, b) ==
  [on    |-> TRUE,
   kind  |-> a.kind,
   lo    |-> Tighter(a.lo, b.lo, TRUE),
   hi    |-> Tighter(a.hi, b.hi, FALSE),
   neqs  |-> a.neqs \union b.neqs,
   mults |-> MergedMults(a.mults \union b.mults),
   clash |-> a.clash \/ b.clash \/ (a.kind # "none" /\ b.kind # "none" /\ a.kind # b.kind)]

(***************************************************************************)
(* A residual: one value carrying every constraint at once.                *)
(***************************************************************************)
Free ==
  [is |-> "residual", domain |-> "none", kind |-> "none", lo |-> NoBound, hi |-> NoBound,
   neqs |-> {}, mults |-> {}, tests |-> {}, count |-> NoCount, uniq |-> FALSE,
   keys |-> {}, contains |-> {}, rests |-> {}, checks |-> {},
   nonEmpty |-> FALSE, emptyOk |-> FALSE, pathKind |-> FALSE]

(***************************************************************************)
(* The residuals there are: every end, exclusion, divisor and test is of   *)
(* the domain, and only a text one waives or demands.                      *)
(***************************************************************************)
Ends == Bound \union {NoBound}

CountType ==
  [on : BOOLEAN, kind : {"integer"}, lo : Ends, hi : Ends, neqs : SUBSET Point,
   mults : SUBSET Point, clash : {FALSE}]

ResidualType ==
  [is : {"residual"}, domain : {"none", "number", "string"}, kind : NumLeaf \union {"none"},
   lo : Ends, hi : Ends, neqs : SUBSET Point, mults : SUBSET Point, tests : SUBSET Opaque,
   count : CountType, uniq : BOOLEAN, keys : SUBSET Opaque, contains : SUBSET Opaque,
   rests : SUBSET Opaque, checks : SUBSET Opaque,
   nonEmpty : BOOLEAN, emptyOk : BOOLEAN, pathKind : BOOLEAN]

OfDomain(r, domain) ==
  /\ r.lo.on => DomainOf(r.lo.at) = domain
  /\ r.hi.on => DomainOf(r.hi.at) = domain
  /\ \A n \in r.neqs : DomainOf(n) = domain
  /\ \A m \in r.mults : domain = "number" /\ DomainOf(m) = "number" /\ m.v > 0

WellFormed(r) ==
  /\ OfDomain(r, r.domain)
  /\ OfDomain(r.count, "number")
  /\ r.kind # "none" => r.domain = "number"
  /\ r.tests # {} \/ r.nonEmpty \/ r.emptyOk \/ r.pathKind => r.domain = "string"
  /\ r.pathKind => ~r.nonEmpty /\ ~r.emptyOk

\* Normalised: one value is divided by once, and there is one way to size
\* nothing.
Normalised(r) ==
  /\ \A m, n \in r.mults : m.v = n.v => m = n
  /\ \A m, n \in r.count.mults : m.v = n.v => m = n
  /\ r.count.on \/ r.count = NoCount

\* Of two ends at one text, a string and an address, the one met first is kept.
Mixed(e, f) == e.on /\ f.on /\ e.at.v = f.at.v /\ {e.at.leaf, f.at.leaf} = TextLeaf

Given(a, b) == IF a # "none" THEN a ELSE b

Merged(a, b) ==
  [is       |-> "residual",
   domain   |-> Given(a.domain, b.domain),
   kind     |-> Given(a.kind, b.kind),
   lo       |-> Tighter(a.lo, b.lo, TRUE),
   hi       |-> Tighter(a.hi, b.hi, FALSE),
   neqs     |-> a.neqs \union b.neqs,
   mults    |-> MergedMults(a.mults \union b.mults),
   tests    |-> a.tests \union b.tests,
   count    |-> IF ~a.count.on THEN b.count
                ELSE IF ~b.count.on THEN a.count ELSE MeetCount(a.count, b.count),
   uniq     |-> a.uniq \/ b.uniq,
   keys     |-> a.keys \union b.keys,
   contains |-> a.contains \union b.contains,
   rests    |-> a.rests \union b.rests,
   checks   |-> a.checks \union b.checks,
   nonEmpty |-> a.nonEmpty \/ b.nonEmpty,
   emptyOk  |-> a.emptyOk \/ b.emptyOk,
   pathKind |-> a.pathKind \/ b.pathKind]

(***************************************************************************)
(* Eager emptiness.  r is a residual or a count: both have a leaf, ends,   *)
(* exclusions and divisors.                                                *)
(***************************************************************************)
Integral(r) == r.kind \in {"integer", "biginteger"} \/ \E m \in r.mults : Whole(m.v)

EmptyInterval(r) ==
  /\ r.lo.on /\ r.hi.on
  /\ \/ r.hi.at.v < r.lo.at.v
     \/ r.hi.at.v = r.lo.at.v /\ (r.lo.open \/ r.hi.open)

\* The first whole number the lower end leaves, and the last the upper does.
FirstWhole(b) == (b.at.v \div 2) + (IF ~Whole(b.at.v) \/ b.open THEN 1 ELSE 0)
LastWhole(b) == (b.at.v \div 2) - (IF b.open /\ Whole(b.at.v) THEN 1 ELSE 0)

IntegralGap(r) ==
  Integral(r) /\ r.lo.on /\ r.hi.on /\ LastWhole(r.hi) < FirstWhole(r.lo)

PointExcluded(r) ==
  /\ r.kind # "none" /\ r.lo.on /\ r.hi.on /\ ~r.lo.open /\ ~r.hi.open
  /\ r.lo.at.v = r.hi.at.v
  /\ \E n \in r.neqs : n.leaf = r.kind /\ n.v = r.lo.at.v

CountEmpty(c) == c.clash \/ EmptyInterval(c) \/ IntegralGap(c) \/ PointExcluded(c)

StateEmpty(r) ==
  \/ EmptyInterval(r)
  \/ IntegralGap(r)
  \/ PointExcluded(r)
  \/ r.domain = "number" /\ (r.count.on \/ r.uniq \/ r.keys # {})
  \/ r.domain = "string" /\ r.uniq
  \/ r.count.on /\ CountEmpty(r.count)

(***************************************************************************)
(* Membership.                                                             *)
(***************************************************************************)
AboveLo(b, v) == b.on => v > b.at.v \/ (v = b.at.v /\ ~b.open)
BelowHi(b, v) == b.on => v < b.at.v \/ (v = b.at.v /\ ~b.open)

\* x is inside the ends, not excluded, and on every divisor.
Inside(r, x) ==
  /\ r.kind # "none" => x.leaf = r.kind
  /\ AboveLo(r.lo, x.v)
  /\ BelowHi(r.hi, x.v)
  /\ [leaf |-> x.leaf, v |-> x.v] \notin r.neqs
  /\ \A m \in r.mults : IsMultiple(x.v, m.v)

CountAdmits(c, n) == c.on => Inside(c, CountVal(n))

Passes(atoms, x) == \A a \in atoms : <<a, x.leaf, x.v>> \in Holds

\* What a state answers of a scalar, before the sizing atoms: one with no
\* domain rules on any scalar that has an order, and on the others where
\* no atom sizes.
StateAdmits(r, x) ==
  IF r.domain = "none"
    THEN DomainOf(x) # "none" \/ (~r.count.on /\ ~r.uniq /\ r.keys = {})
    ELSE DomainOf(x) = r.domain /\ Inside(r, x) /\ Passes(r.tests, x)

AdmitsScalar(r, x) ==
  /\ ~r.uniq /\ r.keys = {} /\ r.contains = {}
  /\ StateAdmits(r, x)
  /\ r.nonEmpty => x.leaf # "path"
  /\ r.pathKind => x.leaf = "path"
  /\ r.count.on => x.leaf \in TextLeaf /\ CountAdmits(r.count, Length[x.v])
  /\ Passes(r.checks, x)

\* A container, as it is read once nothing more can arrive.
AdmitsContainer(r, x) ==
  /\ r.domain = "none"
  /\ CountAdmits(r.count, x.v)
  /\ r.uniq => Passes({"unique"}, x)
  /\ Passes(r.keys, x) /\ Passes(r.contains, x) /\ Passes(r.rests, x)
  /\ Passes(r.checks, x)

ResidualAdmits(r, x) == IF x.leaf = "bag" THEN AdmitsContainer(r, x) ELSE AdmitsScalar(r, x)

(***************************************************************************)
(* Subsumption: g's admitted set holds s's, decided atom by atom.          *)
(***************************************************************************)
\* MUTANT of LowerCovers: openness is not compared.
LowerCoversClosed(g, s) ==
  g.on => s.on /\ (g.at.v < s.at.v \/ g.at.v = s.at.v)

\* MUTANT of LowerCovers: at one point both ends must be open or closed.
LowerCoversSame(g, s) ==
  g.on => s.on /\ (g.at.v < s.at.v \/ (g.at.v = s.at.v /\ g.open = s.open))

LowerCovers(g, s) ==
  g.on => s.on /\ (g.at.v < s.at.v \/ (g.at.v = s.at.v /\ (g.open => s.open)))
UpperCovers(g, s) ==
  g.on => s.on /\ (g.at.v > s.at.v \/ (g.at.v = s.at.v /\ (g.open => s.open)))

MultsCover(g, s) ==
  \A a \in g.mults :
    (\E b \in s.mults : IsMultiple(b.v, a.v)) \/ (Integral(s) /\ IsMultiple(2, a.v))

CountCovers(g, s) ==
  /\ g.kind # "none" => g.kind = s.kind
  /\ LowerCovers(g.lo, s.lo) /\ UpperCovers(g.hi, s.hi)
  /\ g.neqs \subseteq s.neqs
  /\ MultsCover(g, s)

OpaqueAtoms(r) == r.checks \union r.contains \union r.rests

ResidualCovers(g, s) ==
  /\ OpaqueAtoms(g) = {}
  /\ g.domain # "none" => g.domain = s.domain
  /\ g.kind # "none" => g.kind = s.kind
  /\ g.pathKind => s.pathKind
  /\ g.nonEmpty /\ ~g.emptyOk => s.nonEmpty /\ ~s.emptyOk
  /\ LowerCovers(g.lo, s.lo) /\ UpperCovers(g.hi, s.hi)
  /\ g.neqs \subseteq s.neqs
  /\ MultsCover(g, s)
  /\ g.tests \subseteq s.tests
  /\ g.keys \subseteq s.keys
  /\ g.uniq => s.uniq
  /\ g.count.on => s.count.on /\ CountCovers(g.count, s.count)
=============================================================================
