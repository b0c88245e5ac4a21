--------------------------- MODULE ResidualProofs ---------------------------
(***************************************************************************)
(* What the constraint algebra promises, for every vocabulary of texts,    *)
(* addresses and tests: a merged residual admits what both admit, an empty *)
(* one admits nothing, and one that covers another admits what it does.    *)
(***************************************************************************)
EXTENDS Residual, TLAPS

(***************************************************************************)
(* Divisibility.                                                           *)
(***************************************************************************)
LEMMA Quotient ==
  ASSUME NEW x \in Int, NEW m \in Nat \ {0}, x % m = 0
  PROVE  \E q \in Int : x = m * q
  <1>1. x = m * (x \div m) BY Z3
  <1> QED BY <1>1

LEMMA Product ==
  ASSUME NEW q \in Int, NEW m \in Nat \ {0}
  PROVE  (m * q) % m = 0
  BY Z3

LEMMA Divides ==
  ASSUME NEW x \in Int, NEW m \in Nat \ {0}, NEW d \in Nat \ {0}, x % m = 0, m % d = 0
  PROVE  x % d = 0
  <1>1. PICK q \in Int : x = m * q BY Quotient
  <1>2. PICK k \in Int : m = d * k BY Quotient
  <1>3. x = d * (k * q) BY <1>1, <1>2, SMT
  <1>4. k * q \in Int OBVIOUS
  <1> QED BY <1>3, <1>4, Product

(***************************************************************************)
(* Points and instances.                                                   *)
(***************************************************************************)
LEMMA PointShape ==
  ASSUME NEW x \in Point
  PROVE  /\ x.v \in Int /\ x.leaf \in NumLeaf \union TextLeaf
         /\ x = [leaf |-> x.leaf, v |-> x.v]
         /\ x.leaf \in {"integer", "biginteger"} => x.v % 2 = 0
         /\ x.leaf = "string" => x.v \in Spelling
         /\ x.leaf = "path" => x.v \in Address
  <1> USE DEF NumLeaf, TextLeaf
  <1>1. CASE x \in [leaf : {"integer", "biginteger"}, v : {n \in Int : n % 2 = 0}] BY <1>1
  <1>2. CASE x \in [leaf : {"float", "bigdecimal"}, v : Int] BY <1>2
  <1>3. CASE x \in [leaf : {"string"}, v : Spelling] 
    <2>1. Spelling \subseteq Int BY SpellingAssumption
    <2> QED BY <1>3, <2>1
  <1>4. CASE x \in [leaf : {"path"}, v : Address] 
    <2>1. Address \subseteq Int BY SpellingAssumption, OpensAssumption
    <2> QED BY <1>4, <2>1
  <1> QED BY <1>1, <1>2, <1>3, <1>4 DEF Point

LEMMA InstanceShape ==
  ASSUME NEW x \in Instance
  PROVE  /\ x.v \in Int /\ x.leaf \in Leaf
         /\ x = [leaf |-> x.leaf, v |-> x.v]
         /\ x.leaf \in NumLeaf \union TextLeaf => x \in Point
         /\ x.leaf \in {"integer", "biginteger"} => x.v % 2 = 0
         /\ x.leaf = "bag" => x.v \in Nat
  <1>1. CASE x \in Point
    BY <1>1, PointShape DEF Leaf, NumLeaf, TextLeaf
  <1>2. CASE x \notin Point
    BY <1>2 DEF Instance, Leaf, NumLeaf, TextLeaf
  <1> QED BY <1>1, <1>2

LEMMA PointIsInstance == Point \subseteq Instance
  BY DEF Instance

\* The points of the count residual are the even integers.
LEMMA CountPoint ==
  ASSUME NEW n \in Nat
  PROVE  CountVal(n) \in Point
  <1>1. (2 * n) % 2 = 0 BY Product
  <1> QED BY <1>1 DEF CountVal, Point

(***************************************************************************)
(* Ends.                                                                   *)
(***************************************************************************)
LEMMA EndsShape ==
  ASSUME NEW b \in Ends
  PROVE  b.on \in BOOLEAN /\ b.open \in BOOLEAN /\ b.at.v \in Int
         /\ (b.on => b \in Bound /\ b.at \in Point)
  <1>1. CASE b \in Bound
    <2>1. b.at \in Point BY <1>1 DEF Bound
    <2> QED BY <1>1, <2>1, PointShape DEF Bound
  <1>2. CASE b = NoBound BY <1>2 DEF NoBound
  <1> QED BY <1>1, <1>2 DEF Ends

LEMMA TighterEnds ==
  ASSUME NEW a \in Ends, NEW b \in Ends, NEW lower \in BOOLEAN
  PROVE  /\ Tighter(a, b, lower) \in {a, b}
         /\ Tighter(a, b, lower).on = (a.on \/ b.on)
  BY EndsShape DEF Tighter

\* The tighter of two lower ends admits what both admit.
LEMMA TighterLower ==
  ASSUME NEW a \in Ends, NEW b \in Ends, NEW v \in Int
  PROVE  AboveLo(Tighter(a, b, TRUE), v) <=> AboveLo(a, v) /\ AboveLo(b, v)
  <1> USE EndsShape
  <1>1. CASE ~a.on \/ ~b.on BY <1>1 DEF Tighter, AboveLo
  <1>2. CASE a.on /\ b.on /\ a.at.v # b.at.v BY <1>2 DEF Tighter, AboveLo
  <1>3. CASE a.on /\ b.on /\ a.at.v = b.at.v /\ a.open # b.open BY <1>3 DEF Tighter, AboveLo
  <1>4. CASE a.on /\ b.on /\ a.at.v = b.at.v /\ a.open = b.open BY <1>4 DEF Tighter, AboveLo
  <1> QED BY <1>1, <1>2, <1>3, <1>4

LEMMA TighterUpper ==
  ASSUME NEW a \in Ends, NEW b \in Ends, NEW v \in Int
  PROVE  BelowHi(Tighter(a, b, FALSE), v) <=> BelowHi(a, v) /\ BelowHi(b, v)
  <1> USE EndsShape
  <1>1. CASE ~a.on \/ ~b.on BY <1>1 DEF Tighter, BelowHi
  <1>2. CASE a.on /\ b.on /\ a.at.v # b.at.v BY <1>2 DEF Tighter, BelowHi
  <1>3. CASE a.on /\ b.on /\ a.at.v = b.at.v /\ a.open # b.open BY <1>3 DEF Tighter, BelowHi
  <1>4. CASE a.on /\ b.on /\ a.at.v = b.at.v /\ a.open = b.open BY <1>4 DEF Tighter, BelowHi
  <1> QED BY <1>1, <1>2, <1>3, <1>4

(***************************************************************************)
(* Divisors: dropping the ones that show the same value loses nothing.     *)
(***************************************************************************)
LEMMA MergedMultsSubset == ASSUME NEW ms PROVE MergedMults(ms) \subseteq ms
  BY DEF MergedMults

LEMMA MergedMultsKeep ==
  ASSUME NEW ms, NEW m \in ms
  PROVE  \E n \in MergedMults(ms) : n.v = m.v
  <1> DEFINE Of(k) == {n \in ms : n.v = m.v /\ TowerRank(n.leaf) = k}
  <1>1. \A n \in ms : TowerRank(n.leaf) \in 0 .. 3 BY DEF TowerRank
  <1>2. PICK k \in 0 .. 3 : Of(k) # {} /\ \A j \in 0 .. 3 : j < k => Of(j) = {}
    <2>1. \E k \in 0 .. 3 : Of(k) # {} BY <1>1
    <2> HIDE DEF Of
    <2>2. CASE Of(0) # {} BY <2>2
    <2>3. CASE Of(0) = {} /\ Of(1) # {} BY <2>3
    <2>4. CASE Of(0) = {} /\ Of(1) = {} /\ Of(2) # {} BY <2>4
    <2>5. CASE Of(0) = {} /\ Of(1) = {} /\ Of(2) = {}
      <3>1. Of(3) # {} BY <2>5, <2>1
      <3> QED BY <2>5, <3>1
    <2> QED BY <2>2, <2>3, <2>4, <2>5
  <1>3. PICK n \in Of(k) : TRUE BY <1>2
  <1>4. \A o \in ms : o.v = n.v => TowerRank(n.leaf) <= TowerRank(o.leaf)
    BY <1>1, <1>2, <1>3
  <1> QED BY <1>3, <1>4 DEF MergedMults

LEMMA MergedMultsDivide ==
  ASSUME NEW ms, NEW x
  PROVE  (\A m \in MergedMults(ms) : IsMultiple(x, m.v)) <=> (\A m \in ms : IsMultiple(x, m.v))
  BY MergedMultsSubset, MergedMultsKeep
(***************************************************************************)
(* What a residual and a count have in common.                             *)
(***************************************************************************)
Ranged(r) ==
  /\ r.kind \in NumLeaf \union {"none"}
  /\ r.lo \in Ends /\ r.hi \in Ends
  /\ r.neqs \subseteq Point
  /\ \A m \in r.mults : m.v \in Nat \ {0}

LEMMA MultsPositive ==
  ASSUME NEW ms \in SUBSET Point, NEW domain, NEW r,
         OfDomain(r, domain), r.mults = ms
  PROVE  \A m \in r.mults : m.v \in Nat \ {0}
  BY PointShape DEF OfDomain

LEMMA ResidualRanged ==
  ASSUME NEW r \in ResidualType, WellFormed(r)
  PROVE  Ranged(r) /\ Ranged(r.count)
  <1>1. r.mults \in SUBSET Point /\ OfDomain(r, r.domain) BY DEF ResidualType, WellFormed
  <1>2. \A m \in r.mults : m.v \in Nat \ {0} BY <1>1, MultsPositive
  <1>3. Ranged(r) BY <1>2 DEF ResidualType, Ranged
  <1>4. r.count \in CountType BY DEF ResidualType
  <1>5. OfDomain(r.count, "number") BY DEF WellFormed
  <1>6. r.count.mults \in SUBSET Point BY <1>4 DEF CountType
  <1>7. \A m \in r.count.mults : m.v \in Nat \ {0} BY <1>5, <1>6, MultsPositive
  <1>8. Ranged(r.count) BY <1>4, <1>7 DEF CountType, Ranged, NumLeaf
  <1> QED BY <1>3, <1>8

\* The merge of two ranges is their intersection.
LEMMA InsideBoth ==
  ASSUME NEW a, Ranged(a), NEW b, Ranged(b), NEW c, NEW x, x.v \in Int,
         c.kind = Given(a.kind, b.kind),
         a.kind = "none" \/ b.kind = "none" \/ a.kind = b.kind,
         c.lo = Tighter(a.lo, b.lo, TRUE), c.hi = Tighter(a.hi, b.hi, FALSE),
         c.neqs = a.neqs \union b.neqs, c.mults = MergedMults(a.mults \union b.mults)
  PROVE  Inside(c, x) <=> Inside(a, x) /\ Inside(b, x)
  <1>1. AboveLo(c.lo, x.v) <=> AboveLo(a.lo, x.v) /\ AboveLo(b.lo, x.v)
    <2>1. a.lo \in Ends /\ b.lo \in Ends BY DEF Ranged
    <2>2. AboveLo(Tighter(a.lo, b.lo, TRUE), x.v) <=> AboveLo(a.lo, x.v) /\ AboveLo(b.lo, x.v)
      BY <2>1, TighterLower
    <2> QED BY <2>2
  <1>2. BelowHi(c.hi, x.v) <=> BelowHi(a.hi, x.v) /\ BelowHi(b.hi, x.v)
    <2>1. a.hi \in Ends /\ b.hi \in Ends BY DEF Ranged
    <2>2. BelowHi(Tighter(a.hi, b.hi, FALSE), x.v) <=> BelowHi(a.hi, x.v) /\ BelowHi(b.hi, x.v)
      BY <2>1, TighterUpper
    <2> QED BY <2>2
  <1>3. (\A m \in c.mults : IsMultiple(x.v, m.v))
          <=> (\A m \in a.mults \union b.mults : IsMultiple(x.v, m.v))
    <2>1. (\A m \in MergedMults(a.mults \union b.mults) : IsMultiple(x.v, m.v))
            <=> (\A m \in a.mults \union b.mults : IsMultiple(x.v, m.v))
      BY MergedMultsDivide
    <2> QED BY <2>1
  <1>4. (c.kind # "none" => x.leaf = c.kind)
          <=> (a.kind # "none" => x.leaf = a.kind) /\ (b.kind # "none" => x.leaf = b.kind)
    BY DEF Given
  <1>5. [leaf |-> x.leaf, v |-> x.v] \notin c.neqs
          <=> [leaf |-> x.leaf, v |-> x.v] \notin a.neqs
              /\ [leaf |-> x.leaf, v |-> x.v] \notin b.neqs
    OBVIOUS
  <1> QED BY <1>1, <1>2, <1>3, <1>4, <1>5 DEF Inside

(***************************************************************************)
(* Emptiness: nothing is inside a range the code refuses.                  *)
(***************************************************************************)
LEMMA Halves == ASSUME NEW v \in Int PROVE v \div 2 \in Int /\ (v = 2 * (v \div 2) \/ v = 2 * (v \div 2) + 1)
                                           /\ (v % 2 = 0 <=> v = 2 * (v \div 2))
  BY Z3

LEMMA IntegralIsWhole ==
  ASSUME NEW r, Ranged(r), NEW x \in Instance, Inside(r, x), Integral(r)
  PROVE  x.v % 2 = 0
  <1>1. CASE r.kind \in {"integer", "biginteger"}
    BY <1>1, InstanceShape DEF Inside
  <1>2. CASE \E m \in r.mults : Whole(m.v)
    <2>1. PICK m \in r.mults : m.v % 2 = 0 BY <1>2 DEF Whole
    <2>2. m.v \in Nat \ {0} /\ x.v % m.v = 0 BY <2>1 DEF Ranged, Inside, IsMultiple
    <2>3. x.v \in Int BY InstanceShape
    <2> QED BY <2>1, <2>2, <2>3, Divides
  <1> QED BY <1>1, <1>2 DEF Integral

LEMMA IntervalEmpty ==
  ASSUME NEW r, Ranged(r), NEW x \in Instance, EmptyInterval(r)
  PROVE  ~Inside(r, x)
  BY EndsShape, InstanceShape DEF Ranged, EmptyInterval, Inside, AboveLo, BelowHi

LEMMA GapEmpty ==
  ASSUME NEW r, Ranged(r), NEW x \in Instance, IntegralGap(r)
  PROVE  ~Inside(r, x)
  <1> SUFFICES ASSUME Inside(r, x) PROVE FALSE OBVIOUS
  <1>1. x.v \in Int /\ x.v % 2 = 0 BY IntegralIsWhole, InstanceShape DEF IntegralGap
  <1>2. r.lo.at.v \in Int /\ r.hi.at.v \in Int /\ r.lo.on /\ r.hi.on
    BY EndsShape DEF Ranged, IntegralGap
  <1>3. AboveLo(r.lo, x.v) /\ BelowHi(r.hi, x.v) BY DEF Inside
  <1>4. FirstWhole(r.lo) <= x.v \div 2
    BY <1>1, <1>2, <1>3, Halves DEF FirstWhole, AboveLo, Whole
  <1>5. x.v \div 2 <= LastWhole(r.hi)
    BY <1>1, <1>2, <1>3, Halves DEF LastWhole, BelowHi, Whole
  <1>6. FirstWhole(r.lo) \in Int /\ LastWhole(r.hi) \in Int /\ x.v \div 2 \in Int
    BY <1>1, <1>2, Halves DEF FirstWhole, LastWhole, Whole
  <1> QED BY <1>4, <1>5, <1>6 DEF IntegralGap

LEMMA ExcludedEmpty ==
  ASSUME NEW r, Ranged(r), NEW x \in Instance, PointExcluded(r)
  PROVE  ~Inside(r, x)
  <1> SUFFICES ASSUME Inside(r, x) PROVE FALSE OBVIOUS
  <1>1. PICK n \in r.neqs : n.leaf = r.kind /\ n.v = r.lo.at.v BY DEF PointExcluded
  <1>2. x.v = r.lo.at.v
    BY EndsShape, InstanceShape DEF Ranged, PointExcluded, Inside, AboveLo, BelowHi
  <1>3. x.leaf = r.kind BY DEF PointExcluded, Inside
  <1>4. n = [leaf |-> x.leaf, v |-> x.v] BY <1>1, <1>2, <1>3, PointShape DEF Ranged
  <1> QED BY <1>1, <1>4 DEF Inside
(***************************************************************************)
(* Domains.                                                                *)
(***************************************************************************)
LEMMA PointDomain ==
  ASSUME NEW x \in Point
  PROVE  DomainOf(x) \in {"number", "string"}
  BY PointShape DEF DomainOf

\* A residual without a domain has said nothing of points.
LEMMA NoDomain ==
  ASSUME NEW r \in ResidualType, WellFormed(r), r.domain = "none"
  PROVE  /\ ~r.lo.on /\ ~r.hi.on /\ r.neqs = {} /\ r.mults = {} /\ r.tests = {}
         /\ r.kind = "none" /\ ~r.nonEmpty /\ ~r.emptyOk /\ ~r.pathKind
  <1>1. OfDomain(r, "none") BY DEF WellFormed
  <1>2. r.lo \in Ends /\ r.hi \in Ends /\ r.neqs \subseteq Point /\ r.mults \subseteq Point
    BY DEF ResidualType
  <1>3. ~r.lo.on /\ ~r.hi.on
    BY <1>1, <1>2, EndsShape, PointDomain DEF OfDomain
  <1>4. r.neqs = {} /\ r.mults = {}
    BY <1>1, <1>2, PointDomain DEF OfDomain
  <1>5. r.kind = "none" /\ r.tests = {} /\ ~r.nonEmpty /\ ~r.emptyOk /\ ~r.pathKind
    BY DEF WellFormed, ResidualType
  <1> QED BY <1>3, <1>4, <1>5

LEMMA NoDomainInside ==
  ASSUME NEW r \in ResidualType, WellFormed(r), r.domain = "none", NEW x
  PROVE  Inside(r, x) /\ Passes(r.tests, x)
  BY NoDomain DEF Inside, AboveLo, BelowHi, Passes

LEMMA PassesBoth ==
  ASSUME NEW A, NEW B, NEW x
  PROVE  Passes(A \union B, x) <=> Passes(A, x) /\ Passes(B, x)
  BY DEF Passes

(***************************************************************************)
(* Two residuals the code merges agree on domain and kind.                 *)
(***************************************************************************)
Agree(a, b) ==
  /\ a.domain = "none" \/ b.domain = "none" \/ a.domain = b.domain
  /\ a.kind = "none" \/ b.kind = "none" \/ a.kind = b.kind

LEMMA MergedInside ==
  ASSUME NEW a \in ResidualType, NEW b \in ResidualType, WellFormed(a), WellFormed(b),
         Agree(a, b), NEW x, x.v \in Int
  PROVE  Inside(Merged(a, b), x) <=> Inside(a, x) /\ Inside(b, x)
  <1> DEFINE c == Merged(a, b)
  <1>1. c.kind = Given(a.kind, b.kind) BY DEF Merged
  <1>2. c.lo = Tighter(a.lo, b.lo, TRUE) /\ c.hi = Tighter(a.hi, b.hi, FALSE) BY DEF Merged
  <1>3. c.neqs = a.neqs \union b.neqs BY DEF Merged
  <1>4. c.mults = MergedMults(a.mults \union b.mults) BY DEF Merged
  <1>5. Ranged(a) /\ Ranged(b) BY ResidualRanged
  <1>6. a.kind = "none" \/ b.kind = "none" \/ a.kind = b.kind BY DEF Agree
  <1> HIDE DEF c
  <1>7. Inside(c, x) <=> Inside(a, x) /\ Inside(b, x)
    BY <1>1, <1>2, <1>3, <1>4, <1>5, <1>6, InsideBoth
  <1> QED BY <1>7 DEF c

LEMMA CountBoth ==
  ASSUME NEW a \in CountType, NEW b \in CountType, Ranged(a), Ranged(b), a.on, b.on, NEW n \in Nat
  PROVE  CountAdmits(MeetCount(a, b), n) <=> CountAdmits(a, n) /\ CountAdmits(b, n)
  <1> DEFINE c == MeetCount(a, b)
             x == CountVal(n)
  <1>1. c.on /\ c.kind = a.kind BY DEF MeetCount
  <1>2. c.lo = Tighter(a.lo, b.lo, TRUE) /\ c.hi = Tighter(a.hi, b.hi, FALSE) BY DEF MeetCount
  <1>3. c.neqs = a.neqs \union b.neqs BY DEF MeetCount
  <1>4. c.mults = MergedMults(a.mults \union b.mults) BY DEF MeetCount
  <1>5. a.kind = "integer" /\ b.kind = "integer" BY DEF CountType
  <1>6. c.kind = Given(a.kind, b.kind) BY <1>1, <1>5 DEF Given
  <1>7. x.v \in Int BY DEF CountVal
  <1> HIDE DEF c, x
  <1>8. Inside(c, x) <=> Inside(a, x) /\ Inside(b, x)
    BY <1>2, <1>3, <1>4, <1>5, <1>6, <1>7, InsideBoth
  <1>9. CountAdmits(c, n) <=> Inside(c, x) BY <1>1 DEF CountAdmits, x
  <1>10. CountAdmits(a, n) <=> Inside(a, x) BY DEF CountAdmits, x
  <1>11. CountAdmits(b, n) <=> Inside(b, x) BY DEF CountAdmits, x
  <1>12. CountAdmits(c, n) <=> CountAdmits(a, n) /\ CountAdmits(b, n)
    BY <1>8, <1>9, <1>10, <1>11
  <1> QED BY <1>12 DEF c

LEMMA MergedCount ==
  ASSUME NEW a \in ResidualType, NEW b \in ResidualType, WellFormed(a), WellFormed(b),
         NEW n \in Nat
  PROVE  /\ Merged(a, b).count.on <=> a.count.on \/ b.count.on
         /\ CountAdmits(Merged(a, b).count, n)
              <=> CountAdmits(a.count, n) /\ CountAdmits(b.count, n)
  <1>1. a.count \in CountType /\ b.count \in CountType BY DEF ResidualType
  <1>2. Ranged(a.count) /\ Ranged(b.count) BY ResidualRanged
  <1>3. Merged(a, b).count = IF ~a.count.on THEN b.count
                             ELSE IF ~b.count.on THEN a.count ELSE MeetCount(a.count, b.count)
    BY DEF Merged
  <1>4. a.count.on \in BOOLEAN /\ b.count.on \in BOOLEAN BY <1>1 DEF CountType
  <1>5. CASE ~a.count.on BY <1>3, <1>4, <1>5 DEF CountAdmits
  <1>6. CASE a.count.on /\ ~b.count.on BY <1>3, <1>4, <1>6 DEF CountAdmits
  <1>7. CASE a.count.on /\ b.count.on
    <2>1. Merged(a, b).count = MeetCount(a.count, b.count) BY <1>3, <1>7
    <2>2. MeetCount(a.count, b.count).on BY DEF MeetCount
    <2>3. CountAdmits(MeetCount(a.count, b.count), n)
            <=> CountAdmits(a.count, n) /\ CountAdmits(b.count, n)
      BY <1>1, <1>2, <1>7, CountBoth
    <2> QED BY <2>1, <2>2, <2>3, <1>7
  <1> QED BY <1>4, <1>5, <1>6, <1>7
LEMMA MergedState ==
  ASSUME NEW a \in ResidualType, NEW b \in ResidualType, WellFormed(a), WellFormed(b),
         Agree(a, b), NEW x \in Instance, x.leaf # "bag",
         a.keys = {}, b.keys = {}, ~a.uniq, ~b.uniq
  PROVE  StateAdmits(Merged(a, b), x) <=> StateAdmits(a, x) /\ StateAdmits(b, x)
  <1> DEFINE c == Merged(a, b)
  <1>1. c.domain = Given(a.domain, b.domain) /\ c.keys = {} /\ ~c.uniq BY DEF Merged
  <1>2. Inside(c, x) <=> Inside(a, x) /\ Inside(b, x) BY MergedInside, InstanceShape
  <1>3. c.tests = a.tests \union b.tests BY DEF Merged
  <1>4. Passes(c.tests, x) <=> Passes(a.tests, x) /\ Passes(b.tests, x) BY <1>3, PassesBoth
  <1>5. c.count.on <=> a.count.on \/ b.count.on
    <2>1. 0 \in Nat OBVIOUS
    <2> QED BY <2>1, MergedCount
  <1> SUFFICES StateAdmits(c, x) <=> StateAdmits(a, x) /\ StateAdmits(b, x) OBVIOUS
  <1> HIDE DEF c
  <1>6. CASE a.domain = "none" /\ b.domain = "none"
    BY <1>1, <1>5, <1>6 DEF StateAdmits, Given
  <1>7. CASE a.domain = "none" /\ b.domain # "none"
    <2>1. Inside(a, x) /\ Passes(a.tests, x) BY <1>7, NoDomainInside
    <2>2. c.domain = b.domain BY <1>1, <1>7 DEF Given
    <2> QED BY <1>2, <1>4, <1>7, <2>1, <2>2 DEF StateAdmits
  <1>8. CASE a.domain # "none" /\ b.domain = "none"
    <2>1. Inside(b, x) /\ Passes(b.tests, x) BY <1>8, NoDomainInside
    <2>2. c.domain = a.domain BY <1>1, <1>8 DEF Given
    <2> QED BY <1>2, <1>4, <1>8, <2>1, <2>2 DEF StateAdmits
  <1>9. CASE a.domain # "none" /\ b.domain # "none"
    <2>1. c.domain = a.domain /\ a.domain = b.domain BY <1>1, <1>9 DEF Given, Agree
    <2> QED BY <1>2, <1>4, <1>9, <2>1 DEF StateAdmits
  <1> QED BY <1>6, <1>7, <1>8, <1>9

LEMMA LengthIsNat == ASSUME NEW x \in Instance, x.leaf \in TextLeaf PROVE Length[x.v] \in Nat
  <1>1. x \in Point BY InstanceShape
  <1>2. Address \subseteq Spelling BY OpensAssumption
  <1>3. x.v \in Spelling BY <1>1, <1>2, PointShape DEF TextLeaf
  <1> QED BY <1>3, SpellingAssumption

LEMMA MergedScalar ==
  ASSUME NEW a \in ResidualType, NEW b \in ResidualType, WellFormed(a), WellFormed(b),
         Agree(a, b), NEW x \in Instance, x.leaf # "bag"
  PROVE  AdmitsScalar(Merged(a, b), x) <=> AdmitsScalar(a, x) /\ AdmitsScalar(b, x)
  <1> DEFINE c == Merged(a, b)
  <1>1. /\ c.uniq = (a.uniq \/ b.uniq)
        /\ c.keys = a.keys \union b.keys
        /\ c.contains = a.contains \union b.contains
        /\ c.nonEmpty = (a.nonEmpty \/ b.nonEmpty)
        /\ c.pathKind = (a.pathKind \/ b.pathKind)
        /\ c.checks = a.checks \union b.checks
    BY DEF Merged
  <1>2. Passes(c.checks, x) <=> Passes(a.checks, x) /\ Passes(b.checks, x) BY <1>1, PassesBoth
  <1>3. CASE a.uniq \/ b.uniq \/ a.keys \union b.keys # {} \/ a.contains \union b.contains # {}
    BY <1>1, <1>3 DEF AdmitsScalar
  <1>4. CASE ~a.uniq /\ ~b.uniq /\ a.keys = {} /\ b.keys = {} /\ a.contains = {} /\ b.contains = {}
    <2>1. StateAdmits(c, x) <=> StateAdmits(a, x) /\ StateAdmits(b, x) BY <1>4, MergedState
    <2>2. (c.count.on => x.leaf \in TextLeaf /\ CountAdmits(c.count, Length[x.v]))
            <=> /\ a.count.on => x.leaf \in TextLeaf /\ CountAdmits(a.count, Length[x.v])
                /\ b.count.on => x.leaf \in TextLeaf /\ CountAdmits(b.count, Length[x.v])
      <3>1. CASE x.leaf \in TextLeaf
        <4>1. Length[x.v] \in Nat BY <3>1, LengthIsNat
        <4>2. c.count.on <=> a.count.on \/ b.count.on BY <4>1, MergedCount
        <4>3. CountAdmits(c.count, Length[x.v])
                <=> CountAdmits(a.count, Length[x.v]) /\ CountAdmits(b.count, Length[x.v])
          BY <4>1, MergedCount
        <4> HIDE DEF c
        <4> QED BY <3>1, <4>2, <4>3 DEF CountAdmits
      <3>2. CASE x.leaf \notin TextLeaf
        <4>1. 0 \in Nat OBVIOUS
        <4>2. c.count.on <=> a.count.on \/ b.count.on BY <4>1, MergedCount
        <4> HIDE DEF c
        <4> QED BY <3>2, <4>2
      <3> QED BY <3>1, <3>2
    <2>3. AdmitsScalar(c, x) <=> AdmitsScalar(a, x) /\ AdmitsScalar(b, x)
      <3> HIDE DEF c
      <3> QED BY <1>1, <1>2, <1>4, <2>1, <2>2 DEF AdmitsScalar
    <2> QED BY <2>3
  <1> QED BY <1>3, <1>4

LEMMA MergedContainer ==
  ASSUME NEW a \in ResidualType, NEW b \in ResidualType, WellFormed(a), WellFormed(b),
         Agree(a, b), NEW x \in Instance, x.leaf = "bag"
  PROVE  AdmitsContainer(Merged(a, b), x) <=> AdmitsContainer(a, x) /\ AdmitsContainer(b, x)
  <1> DEFINE c == Merged(a, b)
  <1>1. /\ c.domain = Given(a.domain, b.domain)
        /\ c.uniq = (a.uniq \/ b.uniq)
        /\ c.keys = a.keys \union b.keys
        /\ c.contains = a.contains \union b.contains
        /\ c.rests = a.rests \union b.rests
        /\ c.checks = a.checks \union b.checks
    BY DEF Merged
  <1>2. c.domain = "none" <=> a.domain = "none" /\ b.domain = "none" BY <1>1 DEF Given
  <1>3. x.v \in Nat BY InstanceShape
  <1>4. CountAdmits(c.count, x.v) <=> CountAdmits(a.count, x.v) /\ CountAdmits(b.count, x.v)
    BY <1>3, MergedCount
  <1>5. /\ Passes(c.keys, x) <=> Passes(a.keys, x) /\ Passes(b.keys, x)
        /\ Passes(c.contains, x) <=> Passes(a.contains, x) /\ Passes(b.contains, x)
        /\ Passes(c.rests, x) <=> Passes(a.rests, x) /\ Passes(b.rests, x)
        /\ Passes(c.checks, x) <=> Passes(a.checks, x) /\ Passes(b.checks, x)
    BY <1>1, PassesBoth
  <1> HIDE DEF c
  <1>6. AdmitsContainer(c, x) <=> AdmitsContainer(a, x) /\ AdmitsContainer(b, x)
    BY <1>1, <1>2, <1>4, <1>5 DEF AdmitsContainer
  <1> QED BY <1>6 DEF c

\* The merge admits exactly what both admit.
THEOREM MergedIsIntersection ==
  ASSUME NEW a \in ResidualType, NEW b \in ResidualType, WellFormed(a), WellFormed(b),
         Agree(a, b), NEW x \in Instance
  PROVE  ResidualAdmits(Merged(a, b), x) <=> ResidualAdmits(a, x) /\ ResidualAdmits(b, x)
  BY MergedScalar, MergedContainer DEF ResidualAdmits

\* What the code refuses as empty admits nothing.
THEOREM EmptyAdmitsNothing ==
  ASSUME NEW r \in ResidualType, WellFormed(r), StateEmpty(r), NEW x \in Instance
  PROVE  ~ResidualAdmits(r, x)
  <1> SUFFICES ASSUME ResidualAdmits(r, x) PROVE FALSE OBVIOUS
  <1>1. Ranged(r) /\ Ranged(r.count) BY ResidualRanged
  <1>2. x.v \in Int /\ x.leaf \in Leaf BY InstanceShape
  <1>3. CASE EmptyInterval(r) \/ IntegralGap(r) \/ PointExcluded(r)
    <2>1. ~Inside(r, x) BY <1>1, <1>3, IntervalEmpty, GapEmpty, ExcludedEmpty
    <2>2. r.domain # "none" BY <2>1, NoDomainInside
    <2> QED BY <2>1, <2>2 DEF ResidualAdmits, AdmitsScalar, AdmitsContainer, StateAdmits
  <1>4. CASE r.domain = "number" /\ (r.count.on \/ r.uniq \/ r.keys # {})
    BY <1>4, <1>2 DEF ResidualAdmits, AdmitsScalar, AdmitsContainer, StateAdmits, DomainOf,
                      NumLeaf, TextLeaf
  <1>5. CASE r.domain = "string" /\ r.uniq
    BY <1>5 DEF ResidualAdmits, AdmitsScalar, AdmitsContainer
  <1>6. CASE r.count.on /\ CountEmpty(r.count)
    <2>1. PICK n \in Nat : CountAdmits(r.count, n)
      <3>1. CASE x.leaf = "bag" BY <3>1, InstanceShape DEF ResidualAdmits, AdmitsContainer
      <3>2. CASE x.leaf # "bag" BY <1>6, <3>2, LengthIsNat DEF ResidualAdmits, AdmitsScalar
      <3> QED BY <3>1, <3>2
    <2>2. CountVal(n) \in Instance BY CountPoint, PointIsInstance
    <2>3. Inside(r.count, CountVal(n)) BY <1>6, <2>1 DEF CountAdmits
    <2>4. ~r.count.clash BY DEF ResidualType, CountType
    <2>5. EmptyInterval(r.count) \/ IntegralGap(r.count) \/ PointExcluded(r.count)
      BY <1>6, <2>4 DEF CountEmpty
    <2> QED BY <1>1, <2>2, <2>3, <2>5, IntervalEmpty, GapEmpty, ExcludedEmpty
  <1> QED BY <1>3, <1>4, <1>5, <1>6 DEF StateEmpty
(***************************************************************************)
(* Types: what the merge of two well-formed residuals is.                  *)
(***************************************************************************)
LEMMA TighterOfDomain ==
  ASSUME NEW a \in Ends, NEW b \in Ends, NEW lower \in BOOLEAN, NEW D,
         a.on => DomainOf(a.at) = D, b.on => DomainOf(b.at) = D
  PROVE  /\ Tighter(a, b, lower) \in Ends
         /\ Tighter(a, b, lower).on => DomainOf(Tighter(a, b, lower).at) = D
  BY TighterEnds

LEMMA MeetCountType ==
  ASSUME NEW a \in CountType, NEW b \in CountType, OfDomain(a, "number"), OfDomain(b, "number")
  PROVE  MeetCount(a, b) \in CountType /\ OfDomain(MeetCount(a, b), "number")
  <1> DEFINE c == MeetCount(a, b)
  <1>1. c = [on |-> TRUE, kind |-> a.kind, lo |-> c.lo, hi |-> c.hi, neqs |-> c.neqs,
             mults |-> c.mults, clash |-> c.clash]
    BY DEF MeetCount
  <1>2. c.lo = Tighter(a.lo, b.lo, TRUE) /\ c.hi = Tighter(a.hi, b.hi, FALSE)
    BY DEF MeetCount
  <1>3. c.neqs = a.neqs \union b.neqs /\ c.mults = MergedMults(a.mults \union b.mults)
    BY DEF MeetCount
  <1>4. c.mults \subseteq a.mults \union b.mults BY <1>3, MergedMultsSubset
  <1>5. c.clash = FALSE /\ c.kind = a.kind BY DEF MeetCount, CountType
  <1>6. /\ a.lo \in Ends /\ b.lo \in Ends /\ a.hi \in Ends /\ b.hi \in Ends
        /\ a.neqs \subseteq Point /\ b.neqs \subseteq Point
        /\ a.mults \subseteq Point /\ b.mults \subseteq Point /\ a.kind = "integer"
    BY DEF CountType
  <1>7. c.lo \in Ends /\ (c.lo.on => DomainOf(c.lo.at) = "number")
    <2>1. /\ a.lo.on => DomainOf(a.lo.at) = "number"
          /\ b.lo.on => DomainOf(b.lo.at) = "number"
      BY DEF OfDomain
    <2> HIDE DEF c
    <2> QED BY <1>2, <1>6, <2>1, TighterOfDomain
  <1>8. c.hi \in Ends /\ (c.hi.on => DomainOf(c.hi.at) = "number")
    <2>1. /\ a.hi.on => DomainOf(a.hi.at) = "number"
          /\ b.hi.on => DomainOf(b.hi.at) = "number"
      BY DEF OfDomain
    <2> HIDE DEF c
    <2> QED BY <1>2, <1>6, <2>1, TighterOfDomain
  <1> SUFFICES c \in CountType /\ OfDomain(c, "number") OBVIOUS
  <1> HIDE DEF c
  <1>9. c \in CountType
    <2>1. c.neqs \in SUBSET Point /\ c.mults \in SUBSET Point BY <1>3, <1>4, <1>6
    <2>2. c.lo \in Ends /\ c.hi \in Ends BY <1>7, <1>8
    <2>3. c = [on |-> TRUE, kind |-> "integer", lo |-> c.lo, hi |-> c.hi, neqs |-> c.neqs,
               mults |-> c.mults, clash |-> FALSE]
      BY <1>1, <1>5, <1>6
    <2>4. [on |-> TRUE, kind |-> "integer", lo |-> c.lo, hi |-> c.hi, neqs |-> c.neqs,
           mults |-> c.mults, clash |-> FALSE] \in CountType
      BY <2>1, <2>2, Zenon DEF CountType
    <2> QED BY <2>3, <2>4
  <1>10. OfDomain(c, "number") BY <1>3, <1>4, <1>7, <1>8 DEF OfDomain
  <1> QED BY <1>9, <1>10

LEMMA OfDomainWidens ==
  ASSUME NEW r \in ResidualType, WellFormed(r), NEW D, r.domain = "none" \/ r.domain = D
  PROVE  OfDomain(r, D)
  BY NoDomain DEF OfDomain, WellFormed

LEMMA MergedType ==
  ASSUME NEW a \in ResidualType, NEW b \in ResidualType, WellFormed(a), WellFormed(b),
         Agree(a, b),
         a.pathKind => ~b.nonEmpty /\ ~b.emptyOk, b.pathKind => ~a.nonEmpty /\ ~a.emptyOk
  PROVE  Merged(a, b) \in ResidualType /\ WellFormed(Merged(a, b))
  <1> DEFINE c == Merged(a, b)
             D == Given(a.domain, b.domain)
  <1>1. c = [is |-> "residual", domain |-> c.domain, kind |-> c.kind, lo |-> c.lo, hi |-> c.hi,
             neqs |-> c.neqs, mults |-> c.mults, tests |-> c.tests, count |-> c.count,
             uniq |-> c.uniq, keys |-> c.keys, contains |-> c.contains, rests |-> c.rests,
             checks |-> c.checks, nonEmpty |-> c.nonEmpty, emptyOk |-> c.emptyOk,
             pathKind |-> c.pathKind]
    BY DEF Merged
  <1>2. c.domain = D /\ c.kind = Given(a.kind, b.kind) BY DEF Merged
  <1>3. c.lo = Tighter(a.lo, b.lo, TRUE) /\ c.hi = Tighter(a.hi, b.hi, FALSE) BY DEF Merged
  <1>4. c.neqs = a.neqs \union b.neqs /\ c.mults = MergedMults(a.mults \union b.mults)
    BY DEF Merged
  <1>5. c.mults \subseteq a.mults \union b.mults BY <1>4, MergedMultsSubset
  <1>6. /\ c.tests = a.tests \union b.tests /\ c.uniq = (a.uniq \/ b.uniq)
        /\ c.keys = a.keys \union b.keys /\ c.contains = a.contains \union b.contains
        /\ c.rests = a.rests \union b.rests /\ c.checks = a.checks \union b.checks
        /\ c.nonEmpty = (a.nonEmpty \/ b.nonEmpty) /\ c.emptyOk = (a.emptyOk \/ b.emptyOk)
        /\ c.pathKind = (a.pathKind \/ b.pathKind)
    BY DEF Merged
  <1>7. OfDomain(a, D) /\ OfDomain(b, D) BY OfDomainWidens DEF Given, Agree
  <1>8. /\ a.lo \in Ends /\ b.lo \in Ends /\ a.hi \in Ends /\ b.hi \in Ends
        /\ a.neqs \subseteq Point /\ b.neqs \subseteq Point
        /\ a.mults \subseteq Point /\ b.mults \subseteq Point
        /\ a.count \in CountType /\ b.count \in CountType
    BY DEF ResidualType
  <1>9. c.count \in CountType /\ OfDomain(c.count, "number")
    <2>1. c.count = IF ~a.count.on THEN b.count
                    ELSE IF ~b.count.on THEN a.count ELSE MeetCount(a.count, b.count)
      BY DEF Merged
    <2>2. OfDomain(a.count, "number") /\ OfDomain(b.count, "number") BY DEF WellFormed
    <2>3. MeetCount(a.count, b.count) \in CountType /\ OfDomain(MeetCount(a.count, b.count), "number")
      BY <1>8, <2>2, MeetCountType
    <2> QED BY <1>8, <2>1, <2>2, <2>3
  <1>10. c.lo \in Ends /\ (c.lo.on => DomainOf(c.lo.at) = D)
    BY <1>3, <1>7, <1>8, TighterOfDomain DEF OfDomain
  <1>11. c.hi \in Ends /\ (c.hi.on => DomainOf(c.hi.at) = D)
    BY <1>3, <1>7, <1>8, TighterOfDomain DEF OfDomain
  <1>12. OfDomain(c, D)
    <2> HIDE DEF c, D
    <2>1. \A m \in c.mults : D = "number" /\ DomainOf(m) = "number" /\ m.v > 0
      BY <1>5, <1>7 DEF OfDomain
    <2>2. \A n \in c.neqs : DomainOf(n) = D BY <1>4, <1>7 DEF OfDomain
    <2> QED BY <1>10, <1>11, <2>1, <2>2 DEF OfDomain
  <1>13. c.domain \in {"none", "number", "string"} /\ c.kind \in NumLeaf \union {"none"}
    BY <1>2 DEF ResidualType, Given
  <1>14. /\ c.neqs \in SUBSET Point /\ c.mults \in SUBSET Point
    BY <1>4, <1>5, <1>8
  <1>15. /\ c.tests \in SUBSET Opaque /\ c.keys \in SUBSET Opaque /\ c.contains \in SUBSET Opaque
         /\ c.rests \in SUBSET Opaque /\ c.checks \in SUBSET Opaque
         /\ c.uniq \in BOOLEAN /\ c.nonEmpty \in BOOLEAN /\ c.emptyOk \in BOOLEAN
         /\ c.pathKind \in BOOLEAN
    <2> HIDE DEF c
    <2> QED BY <1>6 DEF ResidualType
  <1>16. /\ c.kind # "none" => D = "number"
         /\ c.tests # {} \/ c.nonEmpty \/ c.emptyOk \/ c.pathKind => D = "string"
         /\ c.pathKind => ~c.nonEmpty /\ ~c.emptyOk
    <2> HIDE DEF c
    <2> QED BY <1>2, <1>6 DEF WellFormed, Given, Agree
  <1> SUFFICES c \in ResidualType /\ WellFormed(c) OBVIOUS
  <1> HIDE DEF c, D
  <1>17. c \in ResidualType
    BY <1>1, <1>9, <1>10, <1>11, <1>13, <1>14, <1>15 DEF ResidualType
  <1>18. WellFormed(c) BY <1>2, <1>9, <1>12, <1>16 DEF WellFormed
  <1> QED BY <1>17, <1>18

(***************************************************************************)
(* Subsumption.                                                            *)
(***************************************************************************)
LEMMA InsideCovered ==
  ASSUME NEW g, NEW s, Ranged(g), Ranged(s), NEW x \in Instance, Inside(s, x),
         g.kind # "none" => g.kind = s.kind,
         LowerCovers(g.lo, s.lo), UpperCovers(g.hi, s.hi), g.neqs \subseteq s.neqs,
         MultsCover(g, s)
  PROVE  Inside(g, x)
  <1>1. x.v \in Int BY InstanceShape
  <1>2. AboveLo(g.lo, x.v) BY <1>1, EndsShape DEF Ranged, LowerCovers, Inside, AboveLo
  <1>3. BelowHi(g.hi, x.v) BY <1>1, EndsShape DEF Ranged, UpperCovers, Inside, BelowHi
  <1>4. ASSUME NEW m \in g.mults PROVE IsMultiple(x.v, m.v)
    <2>1. m.v \in Nat \ {0} BY DEF Ranged
    <2>2. CASE \E b \in s.mults : IsMultiple(b.v, m.v)
      <3>1. PICK b \in s.mults : b.v % m.v = 0 BY <2>2 DEF IsMultiple
      <3>2. b.v \in Nat \ {0} /\ x.v % b.v = 0 BY <3>1 DEF Ranged, Inside, IsMultiple
      <3> QED BY <1>1, <2>1, <3>1, <3>2, Divides DEF IsMultiple
    <2>3. CASE Integral(s) /\ IsMultiple(2, m.v)
      <3>1. x.v % 2 = 0 BY <2>3, IntegralIsWhole
      <3>2. 2 % m.v = 0 BY <2>3 DEF IsMultiple
      <3> QED BY <1>1, <2>1, <3>1, <3>2, Divides DEF IsMultiple
    <2> QED BY <2>2, <2>3 DEF MultsCover
  <1>5. g.kind # "none" => x.leaf = g.kind BY DEF Inside
  <1>6. [leaf |-> x.leaf, v |-> x.v] \notin g.neqs BY DEF Inside
  <1> QED BY <1>2, <1>3, <1>4, <1>5, <1>6 DEF Inside

LEMMA CountCovered ==
  ASSUME NEW g, NEW s, Ranged(g), Ranged(s), s.on, CountCovers(g, s), NEW n \in Nat,
         CountAdmits(s, n)
  PROVE  CountAdmits(g, n)
  <1>1. CountVal(n) \in Instance BY CountPoint, PointIsInstance
  <1>2. Inside(s, CountVal(n)) BY DEF CountAdmits
  <1>3. Inside(g, CountVal(n)) BY <1>1, <1>2, InsideCovered DEF CountCovers
  <1> QED BY <1>3 DEF CountAdmits

\* A residual that covers another admits what it does, a path beside
\* empty() apart.
THEOREM CoversAdmits ==
  ASSUME NEW g \in ResidualType, NEW s \in ResidualType, WellFormed(g), WellFormed(s),
         ResidualCovers(g, s), NEW x \in Instance, x.leaf = "path" => ~g.emptyOk,
         ResidualAdmits(s, x)
  PROVE  ResidualAdmits(g, x)
  <1>1. Ranged(g) /\ Ranged(s) /\ Ranged(g.count) /\ Ranged(s.count) BY ResidualRanged
  <1>2. /\ g.checks = {} /\ g.contains = {} /\ g.rests = {}
        /\ g.keys \subseteq s.keys /\ g.tests \subseteq s.tests
        /\ g.uniq => s.uniq
        /\ g.domain # "none" => g.domain = s.domain
    BY DEF ResidualCovers, OpaqueAtoms
  <1>3. Inside(s, x) => Inside(g, x) BY <1>1, InsideCovered DEF ResidualCovers
  <1>4. \A n \in Nat : g.count.on /\ CountAdmits(s.count, n) => CountAdmits(g.count, n)
    BY <1>1, CountCovered DEF ResidualCovers
  <1>5. g.count.on => s.count.on BY DEF ResidualCovers
  <1>6. CASE x.leaf = "bag"
    <2>1. x.v \in Nat BY <1>6, InstanceShape
    <2>2. AdmitsContainer(s, x) BY <1>6 DEF ResidualAdmits
    <2>3. CountAdmits(g.count, x.v) BY <1>4, <2>1, <2>2 DEF AdmitsContainer, CountAdmits
    <2>4. AdmitsContainer(g, x) BY <1>2, <2>2, <2>3 DEF AdmitsContainer, Passes
    <2> QED BY <1>6, <2>4 DEF ResidualAdmits
  <1>7. CASE x.leaf # "bag"
    <2>1. AdmitsScalar(s, x) BY <1>7 DEF ResidualAdmits
    <2>2. StateAdmits(s, x) /\ ~s.uniq /\ s.keys = {} BY <2>1 DEF AdmitsScalar
    <2>3. StateAdmits(g, x)
      <3>1. CASE g.domain = "none"
        <4>1. CASE DomainOf(x) # "none" BY <3>1, <4>1 DEF StateAdmits
        <4>2. CASE DomainOf(x) = "none"
          <5>1. s.domain = "none" /\ ~s.count.on
            BY <2>2, <4>2 DEF StateAdmits, ResidualType
          <5> QED BY <1>2, <1>5, <2>2, <3>1, <5>1 DEF StateAdmits
        <4> QED BY <4>1, <4>2
      <3>2. CASE g.domain # "none" BY <1>2, <1>3, <2>2, <3>2 DEF StateAdmits, Passes
      <3> QED BY <3>1, <3>2
    <2>4. g.nonEmpty => x.leaf # "path" BY <2>1 DEF ResidualCovers, AdmitsScalar
    <2>5. g.pathKind => x.leaf = "path" BY <2>1 DEF ResidualCovers, AdmitsScalar
    <2>6. g.count.on => x.leaf \in TextLeaf /\ CountAdmits(g.count, Length[x.v])
      BY <1>4, <1>5, <2>1, LengthIsNat DEF AdmitsScalar
    <2>7. Passes(g.checks, x) BY <1>2 DEF Passes
    <2>8. AdmitsScalar(g, x)
      BY <1>2, <2>2, <2>3, <2>4, <2>5, <2>6, <2>7 DEF AdmitsScalar
    <2> QED BY <1>7, <2>8 DEF ResidualAdmits
  <1> QED BY <1>6, <1>7

(***************************************************************************)
(* The order of the residuals.  What a residual says - its bounds,         *)
(* exclusions, divisors and tests - is kept by a narrower one: of two      *)
(* lower ends the higher, of two at one point the open one, and then the   *)
(* lower leaf of the tower.  A merge keeps both residuals, is kept by what *)
(* keeps both, and in normal form two that keep each other are one.        *)
(***************************************************************************)
LowKept(e, f) ==
  e.on => /\ f.on
          /\ \/ e.at.v < f.at.v
             \/ e.at.v = f.at.v /\ ~e.open /\ f.open
             \/ /\ e.at.v = f.at.v /\ e.open = f.open
                /\ TowerRank(f.at.leaf) <= TowerRank(e.at.leaf)

HighKept(e, f) ==
  e.on => /\ f.on
          /\ \/ e.at.v > f.at.v
             \/ e.at.v = f.at.v /\ ~e.open /\ f.open
             \/ /\ e.at.v = f.at.v /\ e.open = f.open
                /\ TowerRank(f.at.leaf) <= TowerRank(e.at.leaf)

MultsKept(ms, ns) ==
  \A m \in ms : \E n \in ns : n.v = m.v /\ TowerRank(n.leaf) <= TowerRank(m.leaf)

CountKept(c, d) ==
  c.on => /\ d.on
          /\ LowKept(c.lo, d.lo) /\ HighKept(c.hi, d.hi)
          /\ c.neqs \subseteq d.neqs /\ MultsKept(c.mults, d.mults)

StateKept(r, u) ==
  /\ r.domain # "none" => u.domain = r.domain
  /\ r.kind # "none" => u.kind = r.kind
  /\ LowKept(r.lo, u.lo) /\ HighKept(r.hi, u.hi)
  /\ r.neqs \subseteq u.neqs /\ MultsKept(r.mults, u.mults)
  /\ CountKept(r.count, u.count)
  /\ r.tests \subseteq u.tests /\ r.keys \subseteq u.keys /\ r.contains \subseteq u.contains
  /\ r.rests \subseteq u.rests /\ r.checks \subseteq u.checks
  /\ r.uniq => u.uniq
  /\ r.nonEmpty => u.nonEmpty
  /\ r.emptyOk => u.emptyOk
  /\ r.pathKind => u.pathKind

(***************************************************************************)
(* Ends.                                                                   *)
(***************************************************************************)
LEMMA RankIsInt == \A leaf : TowerRank(leaf) \in Int
  BY DEF TowerRank

LEMMA LowTransitive ==
  ASSUME NEW e \in Ends, NEW f \in Ends, NEW g \in Ends, LowKept(e, f), LowKept(f, g)
  PROVE  LowKept(e, g)
  BY EndsShape, RankIsInt DEF LowKept

LEMMA HighTransitive ==
  ASSUME NEW e \in Ends, NEW f \in Ends, NEW g \in Ends, HighKept(e, f), HighKept(f, g)
  PROVE  HighKept(e, g)
  BY EndsShape, RankIsInt DEF HighKept

LEMMA EndsKeptSelf ==
  ASSUME NEW e \in Ends
  PROVE  LowKept(e, e) /\ HighKept(e, e)
  BY EndsShape, RankIsInt DEF LowKept, HighKept

\* The tighter of two ends keeps both, and is kept by what keeps both.
LEMMA TighterLowKept ==
  ASSUME NEW a \in Ends, NEW b \in Ends
  PROVE  LowKept(a, Tighter(a, b, TRUE)) /\ LowKept(b, Tighter(a, b, TRUE))
  <1> USE EndsShape, RankIsInt
  <1>1. CASE ~a.on \/ ~b.on BY <1>1 DEF Tighter, LowKept
  <1>2. CASE a.on /\ b.on /\ a.at.v # b.at.v BY <1>2 DEF Tighter, LowKept
  <1>3. CASE a.on /\ b.on /\ a.at.v = b.at.v /\ a.open # b.open BY <1>3 DEF Tighter, LowKept
  <1>4. CASE a.on /\ b.on /\ a.at.v = b.at.v /\ a.open = b.open BY <1>4 DEF Tighter, LowKept
  <1> QED BY <1>1, <1>2, <1>3, <1>4

LEMMA TighterHighKept ==
  ASSUME NEW a \in Ends, NEW b \in Ends
  PROVE  HighKept(a, Tighter(a, b, FALSE)) /\ HighKept(b, Tighter(a, b, FALSE))
  <1> USE EndsShape, RankIsInt
  <1>1. CASE ~a.on \/ ~b.on BY <1>1 DEF Tighter, HighKept
  <1>2. CASE a.on /\ b.on /\ a.at.v # b.at.v BY <1>2 DEF Tighter, HighKept
  <1>3. CASE a.on /\ b.on /\ a.at.v = b.at.v /\ a.open # b.open BY <1>3 DEF Tighter, HighKept
  <1>4. CASE a.on /\ b.on /\ a.at.v = b.at.v /\ a.open = b.open BY <1>4 DEF Tighter, HighKept
  <1> QED BY <1>1, <1>2, <1>3, <1>4

LEMMA TighterLeast ==
  ASSUME NEW a \in Ends, NEW b \in Ends, NEW f
  PROVE  /\ LowKept(a, f) /\ LowKept(b, f) => LowKept(Tighter(a, b, TRUE), f)
         /\ HighKept(a, f) /\ HighKept(b, f) => HighKept(Tighter(a, b, FALSE), f)
  <1>1. Tighter(a, b, TRUE) \in {a, b} /\ Tighter(a, b, FALSE) \in {a, b} BY TighterEnds
  <1> QED BY <1>1

\* The numeric leaves have different ranks.
LEMMA RankTells ==
  ASSUME NEW x \in Point, NEW y \in Point, x.v = y.v, TowerRank(x.leaf) = TowerRank(y.leaf),
         DomainOf(x) = DomainOf(y), {x.leaf, y.leaf} # TextLeaf
  PROVE  x = y
  <1>1. /\ x.leaf \in NumLeaf \union TextLeaf /\ x = [leaf |-> x.leaf, v |-> x.v]
        /\ y.leaf \in NumLeaf \union TextLeaf /\ y = [leaf |-> y.leaf, v |-> y.v]
    BY PointShape
  <1>2. CASE x.leaf \in NumLeaf
    <2>1. y.leaf \in NumLeaf BY <1>1, <1>2 DEF DomainOf, NumLeaf, TextLeaf
    <2>2. x.leaf = y.leaf BY <1>2, <2>1 DEF NumLeaf, TowerRank
    <2> QED BY <1>1, <2>2
  <1>3. CASE x.leaf \notin NumLeaf
    <2>1. x.leaf \in TextLeaf /\ y.leaf \in TextLeaf
      BY <1>1, <1>3 DEF DomainOf, NumLeaf, TextLeaf
    <2>2. x.leaf = y.leaf BY <2>1 DEF TextLeaf
    <2> QED BY <1>1, <2>2
  <1> QED BY <1>2, <1>3

LEMMA SameEnd ==
  ASSUME NEW e \in Ends, NEW f \in Ends, NEW D, e.on => DomainOf(e.at) = D,
         f.on => DomainOf(f.at) = D, ~Mixed(e, f),
         (LowKept(e, f) /\ LowKept(f, e)) \/ (HighKept(e, f) /\ HighKept(f, e))
  PROVE  e = f
  <1>1. CASE ~e.on
    <2>1. ~f.on BY <1>1 DEF LowKept, HighKept
    <2> QED BY <1>1, <2>1 DEF Ends, Bound
  <1>2. CASE e.on
    <2>1. f.on BY <1>2 DEF LowKept, HighKept
    <2>2. /\ e.at \in Point /\ f.at \in Point /\ e.at.v \in Int /\ f.at.v \in Int
          /\ e.open \in BOOLEAN /\ f.open \in BOOLEAN
          /\ e \in Bound /\ f \in Bound
      BY <1>2, <2>1, EndsShape
    <2>3. e.at.v = f.at.v /\ e.open = f.open /\ TowerRank(e.at.leaf) = TowerRank(f.at.leaf)
      BY <1>2, <2>1, <2>2, RankIsInt DEF LowKept, HighKept
    <2>4. {e.at.leaf, f.at.leaf} # TextLeaf BY <1>2, <2>1, <2>3 DEF Mixed
    <2>5. e.at = f.at BY <1>2, <2>1, <2>2, <2>3, <2>4, RankTells
    <2>6. /\ e = [on |-> TRUE, at |-> e.at, open |-> e.open]
          /\ f = [on |-> TRUE, at |-> f.at, open |-> f.open]
      BY <2>2 DEF Bound
    <2> QED BY <2>3, <2>5, <2>6
  <1> QED BY <1>1, <1>2

(***************************************************************************)
(* Divisors.                                                               *)
(***************************************************************************)
LEMMA MultsTransitive ==
  ASSUME NEW ms, NEW ns, NEW os, MultsKept(ms, ns), MultsKept(ns, os)
  PROVE  MultsKept(ms, os)
  <1> SUFFICES ASSUME NEW m \in ms
               PROVE  \E o \in os : o.v = m.v /\ TowerRank(o.leaf) <= TowerRank(m.leaf)
    BY DEF MultsKept
  <1>1. PICK n \in ns : n.v = m.v /\ TowerRank(n.leaf) <= TowerRank(m.leaf) BY DEF MultsKept
  <1>2. PICK o \in os : o.v = n.v /\ TowerRank(o.leaf) <= TowerRank(n.leaf) BY DEF MultsKept
  <1>3. TowerRank(o.leaf) <= TowerRank(m.leaf) BY <1>1, <1>2, RankIsInt
  <1> QED BY <1>1, <1>2, <1>3

LEMMA MultsKeptSelf == ASSUME NEW ms PROVE MultsKept(ms, ms)
  BY RankIsInt DEF MultsKept

LEMMA MergedMultsKept ==
  ASSUME NEW ms, NEW ns, ms \subseteq ns
  PROVE  MultsKept(ms, MergedMults(ns))
  <1> SUFFICES ASSUME NEW m \in ms
               PROVE  \E n \in MergedMults(ns) : n.v = m.v /\ TowerRank(n.leaf) <= TowerRank(m.leaf)
    BY DEF MultsKept
  <1>1. m \in ns OBVIOUS
  <1>2. PICK n \in MergedMults(ns) : n.v = m.v BY <1>1, MergedMultsKeep
  <1>3. TowerRank(n.leaf) <= TowerRank(m.leaf) BY <1>1, <1>2 DEF MergedMults
  <1> QED BY <1>2, <1>3

LEMMA MergedMultsLeast ==
  ASSUME NEW ms, NEW ns, NEW os, MultsKept(ms, os), MultsKept(ns, os)
  PROVE  MultsKept(MergedMults(ms \union ns), os)
  BY MergedMultsSubset DEF MultsKept

\* Numbers, each shown once.
Divisors(ms) ==
  /\ \A m \in ms : m \in Point /\ DomainOf(m) = "number"
  /\ \A m, n \in ms : m.v = n.v => m = n

LEMMA NumberRank ==
  ASSUME NEW x \in Point, NEW y \in Point, DomainOf(x) = "number", DomainOf(y) = "number",
         x.v = y.v, TowerRank(x.leaf) = TowerRank(y.leaf)
  PROVE  x = y
  <1>1. {x.leaf, y.leaf} # TextLeaf
    <2>1. x.leaf \in NumLeaf BY DEF DomainOf
    <2> QED BY <2>1 DEF NumLeaf, TextLeaf
  <1> QED BY <1>1, RankTells

LEMMA SameMults ==
  ASSUME NEW ms, NEW ns, Divisors(ms), Divisors(ns), MultsKept(ms, ns), MultsKept(ns, ms)
  PROVE  ms = ns
  <1>1. ASSUME NEW A, NEW B, Divisors(A), Divisors(B), MultsKept(A, B), MultsKept(B, A), NEW m \in A
        PROVE  m \in B
    <2>1. PICK n \in B : n.v = m.v /\ TowerRank(n.leaf) <= TowerRank(m.leaf)
      BY <1>1 DEF MultsKept
    <2>2. PICK o \in A : o.v = n.v /\ TowerRank(o.leaf) <= TowerRank(n.leaf)
      BY <1>1 DEF MultsKept
    <2>3. o = m BY <1>1, <2>1, <2>2 DEF Divisors
    <2>4. TowerRank(n.leaf) = TowerRank(m.leaf) BY <2>1, <2>2, <2>3, RankIsInt
    <2>5. n = m BY <1>1, <2>1, <2>4, NumberRank DEF Divisors
    <2> QED BY <2>5
  <1>2. \A m \in ms : m \in ns BY <1>1
  <1>3. \A m \in ns : m \in ms BY <1>1
  <1> QED BY <1>2, <1>3

LEMMA MergedMultsDivisors ==
  ASSUME NEW ms, \A m \in ms : m \in Point /\ DomainOf(m) = "number"
  PROVE  Divisors(MergedMults(ms))
  <1>1. \A m \in MergedMults(ms) : m \in Point /\ DomainOf(m) = "number" BY MergedMultsSubset
  <1>2. ASSUME NEW m \in MergedMults(ms), NEW n \in MergedMults(ms), m.v = n.v PROVE m = n
    <2>1. m \in ms /\ n \in ms BY MergedMultsSubset
    <2>2. TowerRank(m.leaf) <= TowerRank(n.leaf) /\ TowerRank(n.leaf) <= TowerRank(m.leaf)
      BY <1>2, <2>1 DEF MergedMults
    <2>3. TowerRank(m.leaf) = TowerRank(n.leaf) BY <2>2, RankIsInt
    <2> QED BY <1>2, <2>1, <2>3, NumberRank
  <1> QED BY <1>1, <1>2 DEF Divisors

(***************************************************************************)
(* Counts.                                                                 *)
(***************************************************************************)
BothCounts(c, d) == IF ~c.on THEN d ELSE IF ~d.on THEN c ELSE MeetCount(c, d)

LEMMA CountParts ==
  ASSUME NEW c \in CountType
  PROVE  /\ c.on \in BOOLEAN /\ c.kind = "integer" /\ c.clash = FALSE
         /\ c.lo \in Ends /\ c.hi \in Ends /\ c.neqs \subseteq Point /\ c.mults \subseteq Point
         /\ c = [on |-> c.on, kind |-> c.kind, lo |-> c.lo, hi |-> c.hi, neqs |-> c.neqs,
                 mults |-> c.mults, clash |-> c.clash]
  BY DEF CountType

LEMMA CountKeptSelf == ASSUME NEW c \in CountType PROVE CountKept(c, c)
  BY CountParts, EndsKeptSelf, MultsKeptSelf DEF CountKept

LEMMA CountTransitive ==
  ASSUME NEW c \in CountType, NEW d \in CountType, NEW e \in CountType, CountKept(c, d),
         CountKept(d, e)
  PROVE  CountKept(c, e)
  <1> SUFFICES ASSUME c.on PROVE CountKept(c, e) BY DEF CountKept
  <1>1. d.on /\ e.on BY DEF CountKept
  <1>2. LowKept(c.lo, e.lo) BY <1>1, CountParts, LowTransitive DEF CountKept
  <1>3. HighKept(c.hi, e.hi) BY <1>1, CountParts, HighTransitive DEF CountKept
  <1>4. MultsKept(c.mults, e.mults) BY <1>1, MultsTransitive DEF CountKept
  <1>5. c.neqs \subseteq e.neqs BY <1>1 DEF CountKept
  <1> QED BY <1>1, <1>2, <1>3, <1>4, <1>5 DEF CountKept

LEMMA CountsKept ==
  ASSUME NEW c \in CountType, NEW d \in CountType
  PROVE  CountKept(c, BothCounts(c, d)) /\ CountKept(d, BothCounts(c, d))
  <1>1. CASE ~c.on \/ ~d.on BY <1>1, CountKeptSelf DEF BothCounts, CountKept
  <1>2. CASE c.on /\ d.on
    <2> DEFINE b == MeetCount(c, d)
    <2>1. /\ b.on /\ b.lo = Tighter(c.lo, d.lo, TRUE) /\ b.hi = Tighter(c.hi, d.hi, FALSE)
          /\ b.neqs = c.neqs \union d.neqs /\ b.mults = MergedMults(c.mults \union d.mults)
      BY DEF MeetCount
    <2>2. BothCounts(c, d) = b BY <1>2 DEF BothCounts
    <2> HIDE DEF b
    <2>3. c.lo \in Ends /\ d.lo \in Ends /\ c.hi \in Ends /\ d.hi \in Ends BY CountParts
    <2>4. LowKept(c.lo, b.lo) /\ LowKept(d.lo, b.lo) BY <2>1, <2>3, TighterLowKept
    <2>5. HighKept(c.hi, b.hi) /\ HighKept(d.hi, b.hi) BY <2>1, <2>3, TighterHighKept
    <2>6. MultsKept(c.mults, b.mults) /\ MultsKept(d.mults, b.mults) BY <2>1, MergedMultsKept
    <2> QED BY <2>1, <2>2, <2>4, <2>5, <2>6 DEF CountKept
  <1> QED BY <1>1, <1>2

LEMMA CountsLeast ==
  ASSUME NEW c \in CountType, NEW d \in CountType, NEW e, CountKept(c, e), CountKept(d, e)
  PROVE  CountKept(BothCounts(c, d), e)
  <1>1. CASE ~c.on \/ ~d.on BY <1>1 DEF BothCounts
  <1>2. CASE c.on /\ d.on
    <2> DEFINE b == MeetCount(c, d)
    <2>1. /\ b.on /\ b.lo = Tighter(c.lo, d.lo, TRUE) /\ b.hi = Tighter(c.hi, d.hi, FALSE)
          /\ b.neqs = c.neqs \union d.neqs /\ b.mults = MergedMults(c.mults \union d.mults)
      BY DEF MeetCount
    <2>2. BothCounts(c, d) = b BY <1>2 DEF BothCounts
    <2> HIDE DEF b
    <2>3. c.lo \in Ends /\ d.lo \in Ends /\ c.hi \in Ends /\ d.hi \in Ends BY CountParts
    <2>4. /\ LowKept(c.lo, e.lo) /\ LowKept(d.lo, e.lo)
          /\ HighKept(c.hi, e.hi) /\ HighKept(d.hi, e.hi)
      BY <1>2 DEF CountKept
    <2>5. LowKept(b.lo, e.lo) BY <2>1, <2>3, <2>4, TighterLeast
    <2>6. HighKept(b.hi, e.hi) BY <2>1, <2>3, <2>4, TighterLeast
    <2>7. MultsKept(b.mults, e.mults) BY <1>2, <2>1, MergedMultsLeast DEF CountKept
    <2> QED BY <1>2, <2>1, <2>2, <2>5, <2>6, <2>7 DEF CountKept
  <1> QED BY <1>1, <1>2

NormalCount(c) == (c.on \/ c = NoCount) /\ \A m, n \in c.mults : m.v = n.v => m = n

LEMMA NumberEnds ==
  ASSUME NEW e \in Ends, NEW f \in Ends, e.on => DomainOf(e.at) = "number"
  PROVE  ~Mixed(e, f)
  <1> SUFFICES ASSUME e.on, {e.at.leaf, f.at.leaf} = TextLeaf PROVE FALSE BY DEF Mixed
  <1>1. e.at.leaf \in NumLeaf BY DEF DomainOf
  <1> QED BY <1>1 DEF NumLeaf, TextLeaf

LEMMA CountDivisors ==
  ASSUME NEW c \in CountType, OfDomain(c, "number"), NormalCount(c)
  PROVE  Divisors(c.mults)
  BY CountParts DEF OfDomain, NormalCount, Divisors

LEMMA SameCount ==
  ASSUME NEW c \in CountType, NEW d \in CountType, OfDomain(c, "number"), OfDomain(d, "number"),
         NormalCount(c), NormalCount(d), CountKept(c, d), CountKept(d, c)
  PROVE  c = d
  <1>1. CASE ~c.on
    <2>1. ~d.on BY <1>1 DEF CountKept
    <2> QED BY <1>1, <2>1 DEF NormalCount
  <1>2. CASE c.on
    <2>1. d.on BY <1>2 DEF CountKept
    <2>2. /\ c.lo \in Ends /\ d.lo \in Ends /\ c.hi \in Ends /\ d.hi \in Ends
          /\ c.lo.on => DomainOf(c.lo.at) = "number"
          /\ d.lo.on => DomainOf(d.lo.at) = "number"
          /\ c.hi.on => DomainOf(c.hi.at) = "number"
          /\ d.hi.on => DomainOf(d.hi.at) = "number"
      BY CountParts DEF OfDomain
    <2>3. ~Mixed(c.lo, d.lo) /\ ~Mixed(c.hi, d.hi) BY <2>2, NumberEnds
    <2>4. c.lo = d.lo BY <1>2, <2>1, <2>2, <2>3, SameEnd DEF CountKept
    <2>5. c.hi = d.hi BY <1>2, <2>1, <2>2, <2>3, SameEnd DEF CountKept
    <2>6. c.mults = d.mults BY <1>2, <2>1, CountDivisors, SameMults DEF CountKept
    <2>7. c.neqs = d.neqs BY <1>2, <2>1 DEF CountKept
    <2>8. c.on = d.on BY <1>2, <2>1, CountParts
    <2> QED BY <2>4, <2>5, <2>6, <2>7, <2>8, CountParts
  <1> QED BY <1>1, <1>2

LEMMA CountsNormal ==
  ASSUME NEW c \in CountType, NEW d \in CountType, OfDomain(c, "number"), OfDomain(d, "number"),
         NormalCount(c), NormalCount(d)
  PROVE  NormalCount(BothCounts(c, d))
  <1>1. CASE ~c.on \/ ~d.on BY <1>1 DEF BothCounts
  <1>2. CASE c.on /\ d.on
    <2> DEFINE b == MeetCount(c, d)
    <2>1. b.on /\ b.mults = MergedMults(c.mults \union d.mults) BY DEF MeetCount
    <2>2. BothCounts(c, d) = b BY <1>2 DEF BothCounts
    <2> HIDE DEF b
    <2>3. \A m \in c.mults \union d.mults : m \in Point /\ DomainOf(m) = "number"
      BY CountParts DEF OfDomain
    <2>4. Divisors(b.mults) BY <2>1, <2>3, MergedMultsDivisors
    <2> QED BY <2>1, <2>2, <2>4 DEF NormalCount, Divisors
  <1> QED BY <1>1, <1>2

(***************************************************************************)
(* Residuals: the merge keeps both, and is kept by what keeps both.        *)
(***************************************************************************)
LEMMA StateParts ==
  ASSUME NEW r \in ResidualType
  PROVE  /\ r.is = "residual" /\ r.domain \in {"none", "number", "string"}
         /\ r.kind \in NumLeaf \union {"none"}
         /\ r.lo \in Ends /\ r.hi \in Ends /\ r.neqs \subseteq Point /\ r.mults \subseteq Point
         /\ r.count \in CountType
         /\ r.uniq \in BOOLEAN /\ r.nonEmpty \in BOOLEAN /\ r.emptyOk \in BOOLEAN
         /\ r.pathKind \in BOOLEAN
         /\ r = [is |-> "residual", domain |-> r.domain, kind |-> r.kind, lo |-> r.lo, hi |-> r.hi,
                 neqs |-> r.neqs, mults |-> r.mults, tests |-> r.tests, count |-> r.count,
                 uniq |-> r.uniq, keys |-> r.keys, contains |-> r.contains, rests |-> r.rests,
                 checks |-> r.checks, nonEmpty |-> r.nonEmpty, emptyOk |-> r.emptyOk,
                 pathKind |-> r.pathKind]
  BY DEF ResidualType

LEMMA StateKeptSelf == ASSUME NEW r \in ResidualType PROVE StateKept(r, r)
  BY StateParts, EndsKeptSelf, MultsKeptSelf, CountKeptSelf DEF StateKept

LEMMA StateTransitive ==
  ASSUME NEW q \in ResidualType, NEW r \in ResidualType, NEW s \in ResidualType, StateKept(q, r),
         StateKept(r, s)
  PROVE  StateKept(q, s)
  <1>1. LowKept(q.lo, s.lo) BY StateParts, LowTransitive DEF StateKept
  <1>2. HighKept(q.hi, s.hi) BY StateParts, HighTransitive DEF StateKept
  <1>3. MultsKept(q.mults, s.mults) BY MultsTransitive DEF StateKept
  <1>4. CountKept(q.count, s.count) BY StateParts, CountTransitive DEF StateKept
  <1>5. /\ q.domain # "none" => s.domain = q.domain
        /\ q.kind # "none" => s.kind = q.kind
    BY DEF StateKept
  <1>6. /\ q.neqs \subseteq s.neqs
        /\ q.tests \subseteq s.tests /\ q.keys \subseteq s.keys /\ q.contains \subseteq s.contains
        /\ q.rests \subseteq s.rests /\ q.checks \subseteq s.checks
    BY DEF StateKept
  <1>7. /\ q.uniq => s.uniq
        /\ q.nonEmpty => s.nonEmpty
        /\ q.emptyOk => s.emptyOk
        /\ q.pathKind => s.pathKind
    BY DEF StateKept
  <1> QED BY <1>1, <1>2, <1>3, <1>4, <1>5, <1>6, <1>7 DEF StateKept

\* The parts of a merged residual.
MergedForm(w, a, b) ==
  /\ w.domain = Given(a.domain, b.domain) /\ w.kind = Given(a.kind, b.kind)
  /\ w.lo = Tighter(a.lo, b.lo, TRUE) /\ w.hi = Tighter(a.hi, b.hi, FALSE)
  /\ w.neqs = a.neqs \union b.neqs /\ w.mults = MergedMults(a.mults \union b.mults)
  /\ w.count = BothCounts(a.count, b.count)
  /\ w.tests = a.tests \union b.tests /\ w.keys = a.keys \union b.keys
  /\ w.contains = a.contains \union b.contains /\ w.rests = a.rests \union b.rests
  /\ w.checks = a.checks \union b.checks
  /\ w.uniq = (a.uniq \/ b.uniq) /\ w.nonEmpty = (a.nonEmpty \/ b.nonEmpty)
  /\ w.emptyOk = (a.emptyOk \/ b.emptyOk) /\ w.pathKind = (a.pathKind \/ b.pathKind)

LEMMA MergedParts == ASSUME NEW a, NEW b PROVE MergedForm(Merged(a, b), a, b)
  BY DEF MergedForm, Merged, BothCounts

LEMMA MergedKept ==
  ASSUME NEW a \in ResidualType, NEW b \in ResidualType, Agree(a, b)
  PROVE  StateKept(a, Merged(a, b)) /\ StateKept(b, Merged(a, b))
  <1> DEFINE w == Merged(a, b)
  <1>1. MergedForm(w, a, b) BY MergedParts
  <1> HIDE DEF w
  <1>2. a.lo \in Ends /\ b.lo \in Ends /\ a.hi \in Ends /\ b.hi \in Ends BY StateParts
  <1>3. w.lo = Tighter(a.lo, b.lo, TRUE) /\ w.hi = Tighter(a.hi, b.hi, FALSE)
    BY <1>1 DEF MergedForm
  <1>4. LowKept(a.lo, w.lo) /\ LowKept(b.lo, w.lo) BY <1>2, <1>3, TighterLowKept
  <1>5. HighKept(a.hi, w.hi) /\ HighKept(b.hi, w.hi) BY <1>2, <1>3, TighterHighKept
  <1>6. MultsKept(a.mults, w.mults) /\ MultsKept(b.mults, w.mults)
    BY <1>1, MergedMultsKept DEF MergedForm
  <1>7. CountKept(a.count, w.count) /\ CountKept(b.count, w.count)
    BY <1>1, StateParts, CountsKept DEF MergedForm
  <1>8. w.domain = Given(a.domain, b.domain) /\ w.kind = Given(a.kind, b.kind) BY <1>1 DEF MergedForm
  <1>9. /\ a.neqs \subseteq w.neqs /\ b.neqs \subseteq w.neqs
        /\ a.tests \subseteq w.tests /\ b.tests \subseteq w.tests
        /\ a.keys \subseteq w.keys /\ b.keys \subseteq w.keys
        /\ a.contains \subseteq w.contains /\ b.contains \subseteq w.contains
        /\ a.rests \subseteq w.rests /\ b.rests \subseteq w.rests
        /\ a.checks \subseteq w.checks /\ b.checks \subseteq w.checks
    BY <1>1 DEF MergedForm
  <1>10. /\ a.uniq \/ b.uniq => w.uniq
         /\ a.nonEmpty \/ b.nonEmpty => w.nonEmpty
         /\ a.emptyOk \/ b.emptyOk => w.emptyOk
         /\ a.pathKind \/ b.pathKind => w.pathKind
    BY <1>1 DEF MergedForm
  <1>11. /\ a.domain # "none" => w.domain = a.domain
         /\ b.domain # "none" => w.domain = b.domain
         /\ a.kind # "none" => w.kind = a.kind
         /\ b.kind # "none" => w.kind = b.kind
    BY <1>8 DEF Given, Agree
  <1>12. StateKept(a, w) /\ StateKept(b, w)
    BY <1>4, <1>5, <1>6, <1>7, <1>9, <1>10, <1>11 DEF StateKept
  <1> QED BY <1>12 DEF w

LEMMA MergedLeast ==
  ASSUME NEW a \in ResidualType, NEW b \in ResidualType, NEW u, StateKept(a, u), StateKept(b, u)
  PROVE  StateKept(Merged(a, b), u)
  <1> DEFINE w == Merged(a, b)
  <1>1. MergedForm(w, a, b) BY MergedParts
  <1> HIDE DEF w
  <1>2. a.lo \in Ends /\ b.lo \in Ends /\ a.hi \in Ends /\ b.hi \in Ends BY StateParts
  <1>3. w.lo = Tighter(a.lo, b.lo, TRUE) /\ w.hi = Tighter(a.hi, b.hi, FALSE)
    BY <1>1 DEF MergedForm
  <1>4. /\ LowKept(a.lo, u.lo) /\ LowKept(b.lo, u.lo)
        /\ HighKept(a.hi, u.hi) /\ HighKept(b.hi, u.hi)
    BY DEF StateKept
  <1>5. LowKept(w.lo, u.lo) /\ HighKept(w.hi, u.hi) BY <1>2, <1>3, <1>4, TighterLeast
  <1>6. MultsKept(w.mults, u.mults) BY <1>1, MergedMultsLeast DEF MergedForm, StateKept
  <1>7. CountKept(w.count, u.count) BY <1>1, StateParts, CountsLeast DEF MergedForm, StateKept
  <1>8. w.domain = Given(a.domain, b.domain) /\ w.kind = Given(a.kind, b.kind) BY <1>1 DEF MergedForm
  <1>9. /\ w.neqs \subseteq u.neqs /\ w.tests \subseteq u.tests /\ w.keys \subseteq u.keys
        /\ w.contains \subseteq u.contains /\ w.rests \subseteq u.rests
        /\ w.checks \subseteq u.checks
    BY <1>1 DEF MergedForm, StateKept
  <1>10. /\ w.uniq => u.uniq
         /\ w.nonEmpty => u.nonEmpty
         /\ w.emptyOk => u.emptyOk
         /\ w.pathKind => u.pathKind
    BY <1>1 DEF MergedForm, StateKept
  <1>11. /\ w.domain # "none" => u.domain = w.domain
         /\ w.kind # "none" => u.kind = w.kind
    BY <1>8 DEF Given, StateKept
  <1>12. StateKept(w, u) BY <1>5, <1>6, <1>7, <1>9, <1>10, <1>11 DEF StateKept
  <1> QED BY <1>12 DEF w

(***************************************************************************)
(* Two residuals that keep each other are one.                             *)
(***************************************************************************)
LEMMA NormalParts ==
  ASSUME NEW r \in ResidualType, WellFormed(r), Normalised(r)
  PROVE  Divisors(r.mults) /\ NormalCount(r.count) /\ OfDomain(r.count, "number")
  <1>1. \A m \in r.mults : m \in Point /\ DomainOf(m) = "number"
    BY StateParts DEF WellFormed, OfDomain
  <1> QED BY <1>1 DEF Normalised, NormalCount, Divisors, WellFormed

LEMMA SameState ==
  ASSUME NEW r \in ResidualType, NEW s \in ResidualType, WellFormed(r), WellFormed(s), Normalised(r),
         Normalised(s), StateKept(r, s), StateKept(s, r), ~Mixed(r.lo, s.lo), ~Mixed(r.hi, s.hi)
  PROVE  r = s
  <1>1. r.domain = s.domain /\ r.kind = s.kind BY DEF StateKept
  <1>2. OfDomain(r, r.domain) /\ OfDomain(s, r.domain) BY <1>1 DEF WellFormed
  <1>3. /\ r.lo \in Ends /\ s.lo \in Ends /\ r.hi \in Ends /\ s.hi \in Ends
        /\ r.lo.on => DomainOf(r.lo.at) = r.domain
        /\ s.lo.on => DomainOf(s.lo.at) = r.domain
        /\ r.hi.on => DomainOf(r.hi.at) = r.domain
        /\ s.hi.on => DomainOf(s.hi.at) = r.domain
    BY <1>2, StateParts DEF OfDomain
  <1>4. r.lo = s.lo BY <1>3, SameEnd DEF StateKept
  <1>5. r.hi = s.hi BY <1>3, SameEnd DEF StateKept
  <1>6. r.mults = s.mults BY NormalParts, SameMults DEF StateKept
  <1>7. r.count = s.count
    <2>1. CountKept(r.count, s.count) /\ CountKept(s.count, r.count) BY DEF StateKept
    <2> QED BY <2>1, NormalParts, StateParts, SameCount
  <1>8. /\ r.neqs = s.neqs /\ r.tests = s.tests /\ r.keys = s.keys /\ r.contains = s.contains
        /\ r.rests = s.rests /\ r.checks = s.checks
    BY DEF StateKept
  <1>9. /\ r.uniq = s.uniq /\ r.nonEmpty = s.nonEmpty /\ r.emptyOk = s.emptyOk
        /\ r.pathKind = s.pathKind
    BY StateParts DEF StateKept
  <1> QED BY <1>1, <1>4, <1>5, <1>6, <1>7, <1>8, <1>9, StateParts

LEMMA MergedNormal ==
  ASSUME NEW a \in ResidualType, NEW b \in ResidualType, WellFormed(a), WellFormed(b), Normalised(a),
         Normalised(b)
  PROVE  Normalised(Merged(a, b))
  <1> DEFINE w == Merged(a, b)
  <1>1. MergedForm(w, a, b) BY MergedParts
  <1> HIDE DEF w
  <1>2. NormalCount(w.count) BY <1>1, NormalParts, StateParts, CountsNormal DEF MergedForm
  <1>3. \A m \in a.mults \union b.mults : m \in Point /\ DomainOf(m) = "number"
    BY NormalParts DEF Divisors
  <1>4. Divisors(w.mults) BY <1>1, <1>3, MergedMultsDivisors DEF MergedForm
  <1>5. Normalised(w) BY <1>2, <1>4 DEF Normalised, NormalCount, Divisors
  <1> QED BY <1>5 DEF w

(***************************************************************************)
(* Emptiness: nothing that keeps an empty residual is less than empty.     *)
(***************************************************************************)
LEMMA IntervalKept ==
  ASSUME NEW r, NEW u, r.lo \in Ends, r.hi \in Ends, u.lo \in Ends, u.hi \in Ends,
         LowKept(r.lo, u.lo), HighKept(r.hi, u.hi), EmptyInterval(r)
  PROVE  EmptyInterval(u)
  BY EndsShape DEF LowKept, HighKept, EmptyInterval

LEMMA FirstKept ==
  ASSUME NEW e \in Ends, NEW f \in Ends, e.on, LowKept(e, f)
  PROVE  /\ FirstWhole(e) \in Int /\ FirstWhole(f) \in Int
         /\ FirstWhole(e) <= FirstWhole(f)
  <1>1. /\ f.on /\ e.at.v \in Int /\ f.at.v \in Int /\ e.open \in BOOLEAN /\ f.open \in BOOLEAN
        /\ e.at.v < f.at.v \/ (e.at.v = f.at.v /\ (e.open => f.open))
    BY EndsShape DEF LowKept
  <1> QED BY <1>1, Halves DEF FirstWhole, Whole

LEMMA LastKept ==
  ASSUME NEW e \in Ends, NEW f \in Ends, e.on, HighKept(e, f)
  PROVE  /\ LastWhole(e) \in Int /\ LastWhole(f) \in Int
         /\ LastWhole(f) <= LastWhole(e)
  <1>1. /\ f.on /\ e.at.v \in Int /\ f.at.v \in Int /\ e.open \in BOOLEAN /\ f.open \in BOOLEAN
        /\ e.at.v > f.at.v \/ (e.at.v = f.at.v /\ (e.open => f.open))
    BY EndsShape DEF HighKept
  <1> QED BY <1>1, Halves DEF LastWhole, Whole

LEMMA GapKept ==
  ASSUME NEW r, NEW u, r.lo \in Ends, r.hi \in Ends, u.lo \in Ends, u.hi \in Ends,
         LowKept(r.lo, u.lo), HighKept(r.hi, u.hi), r.kind # "none" => u.kind = r.kind,
         MultsKept(r.mults, u.mults), IntegralGap(r)
  PROVE  IntegralGap(u)
  <1>1. Integral(u)
    <2>1. CASE r.kind \in {"integer", "biginteger"} BY <2>1 DEF Integral
    <2>2. CASE r.kind \notin {"integer", "biginteger"}
      <3>1. PICK m \in r.mults : Whole(m.v) BY <2>2 DEF IntegralGap, Integral
      <3>2. PICK n \in u.mults : n.v = m.v BY DEF MultsKept
      <3> QED BY <3>1, <3>2 DEF Integral
    <2> QED BY <2>1, <2>2
  <1>2. r.lo.on /\ r.hi.on /\ LastWhole(r.hi) < FirstWhole(r.lo) BY DEF IntegralGap
  <1>3. u.lo.on /\ u.hi.on BY <1>2 DEF LowKept, HighKept
  <1>4. LastWhole(u.hi) < FirstWhole(u.lo) BY <1>2, FirstKept, LastKept
  <1> QED BY <1>1, <1>3, <1>4 DEF IntegralGap

LEMMA ExcludedKept ==
  ASSUME NEW r, NEW u, r.lo \in Ends, r.hi \in Ends, u.lo \in Ends, u.hi \in Ends,
         LowKept(r.lo, u.lo), HighKept(r.hi, u.hi), r.kind # "none" => u.kind = r.kind,
         r.neqs \subseteq u.neqs, PointExcluded(r)
  PROVE  EmptyInterval(u) \/ PointExcluded(u)
  <1>1. /\ r.kind # "none" /\ r.lo.on /\ r.hi.on /\ ~r.lo.open /\ ~r.hi.open
        /\ r.lo.at.v = r.hi.at.v
    BY DEF PointExcluded
  <1>2. PICK n \in r.neqs : n.leaf = r.kind /\ n.v = r.lo.at.v BY DEF PointExcluded
  <1>3. /\ u.lo.on /\ u.hi.on /\ u.lo.at.v \in Int /\ u.hi.at.v \in Int /\ r.lo.at.v \in Int
        /\ u.lo.open \in BOOLEAN /\ u.hi.open \in BOOLEAN
    BY <1>1, EndsShape DEF LowKept, HighKept
  <1>4. r.lo.at.v <= u.lo.at.v /\ u.hi.at.v <= r.lo.at.v
    BY <1>1, <1>3 DEF LowKept, HighKept
  <1>5. CASE u.hi.at.v < u.lo.at.v \/ u.lo.open \/ u.hi.open
    BY <1>3, <1>4, <1>5 DEF EmptyInterval
  <1>6. CASE ~(u.hi.at.v < u.lo.at.v) /\ ~u.lo.open /\ ~u.hi.open
    <2>1. u.lo.at.v = r.lo.at.v /\ u.hi.at.v = r.lo.at.v BY <1>3, <1>4, <1>6
    <2> QED BY <1>1, <1>2, <1>3, <1>6, <2>1 DEF PointExcluded
  <1> QED BY <1>5, <1>6

LEMMA StateEmptyKept ==
  ASSUME NEW r \in ResidualType, NEW u \in ResidualType, StateKept(r, u), StateEmpty(r)
  PROVE  StateEmpty(u)
  <1>1. /\ r.lo \in Ends /\ r.hi \in Ends /\ u.lo \in Ends /\ u.hi \in Ends
        /\ LowKept(r.lo, u.lo) /\ HighKept(r.hi, u.hi)
        /\ r.kind # "none" => u.kind = r.kind
        /\ MultsKept(r.mults, u.mults) /\ r.neqs \subseteq u.neqs
    BY StateParts DEF StateKept
  <1>2. CASE EmptyInterval(r) BY <1>1, <1>2, IntervalKept DEF StateEmpty
  <1>3. CASE IntegralGap(r) BY <1>1, <1>3, GapKept DEF StateEmpty
  <1>4. CASE PointExcluded(r) BY <1>1, <1>4, ExcludedKept DEF StateEmpty
  <1>5. CASE r.domain = "number" /\ (r.count.on \/ r.uniq \/ r.keys # {})
    <2>1. u.domain = "number" BY <1>5 DEF StateKept
    <2>2. u.count.on \/ u.uniq \/ u.keys # {} BY <1>5 DEF StateKept, CountKept
    <2> QED BY <2>1, <2>2 DEF StateEmpty
  <1>6. CASE r.domain = "string" /\ r.uniq
    <2>1. u.domain = "string" /\ u.uniq BY <1>6 DEF StateKept
    <2> QED BY <2>1 DEF StateEmpty
  <1>7. CASE r.count.on /\ CountEmpty(r.count)
    <2> DEFINE c == r.count
               d == u.count
    <2>1. CountKept(c, d) /\ c \in CountType /\ d \in CountType BY StateParts DEF StateKept
    <2>2. c.on /\ CountEmpty(c) BY <1>7
    <2> HIDE DEF c, d
    <2>3. /\ c.lo \in Ends /\ c.hi \in Ends /\ d.lo \in Ends /\ d.hi \in Ends
          /\ c.clash = FALSE /\ c.kind = "integer" /\ d.kind = "integer"
      BY <2>1, CountParts
    <2>4. /\ d.on /\ LowKept(c.lo, d.lo) /\ HighKept(c.hi, d.hi)
          /\ c.neqs \subseteq d.neqs /\ MultsKept(c.mults, d.mults)
      BY <2>1, <2>2 DEF CountKept
    <2>5. EmptyInterval(c) \/ IntegralGap(c) \/ PointExcluded(c) BY <2>2, <2>3 DEF CountEmpty
    <2>6. c.kind # "none" => d.kind = c.kind BY <2>3
    <2>7. EmptyInterval(d) \/ IntegralGap(d) \/ PointExcluded(d)
      BY <2>3, <2>4, <2>5, <2>6, IntervalKept, GapKept, ExcludedKept
    <2>8. CountEmpty(d) BY <2>7 DEF CountEmpty
    <2> QED BY <2>4, <2>8 DEF StateEmpty, d
  <1> QED BY <1>2, <1>3, <1>4, <1>5, <1>6, <1>7 DEF StateEmpty
=============================================================================
