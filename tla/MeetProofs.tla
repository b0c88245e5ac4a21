----------------------------- MODULE MeetProofs -----------------------------
(***************************************************************************)
(* The meet of a document's terms, for every vocabulary and every set of   *)
(* terms: what it computes is a value of the model, it admits exactly what *)
(* every term admits, what subsume says of it is so, and subsume finds it  *)
(* below every term.                                                       *)
(***************************************************************************)
EXTENDS Meet, ResidualProofs, FiniteSetTheorems

PathScalar(v) == v.is = "scalar" /\ v.leaf = "path"

(***************************************************************************)
(* The shape of a value, by what it is.                                    *)
(***************************************************************************)
Kinds == {k \in [is : {"kind"}, kind : KindName, ok : BOOLEAN] : k.ok => k.kind = "string"}
Scalars ==
  {s \in [is : {"scalar"}, leaf : Leaf \ {"bag"}, v : Int, needs : BOOLEAN, ok : BOOLEAN] :
     /\ [leaf |-> s.leaf, v |-> s.v] \in Instance
     /\ s.needs \/ s.ok => s.leaf = "string"}
Residuals == {r \in ResidualType : WellFormed(r) /\ ~StateEmpty(r)}

LEMMA LeafShape ==
  ASSUME NEW a \in LeafType
  PROVE  /\ a.is \in {"top", "nil", "empty", "kind", "scalar", "residual"}
         /\ a.is = "top" => a = Top
         /\ a.is = "nil" => a = Nil
         /\ a.is = "empty" => a = Empty
         /\ a.is = "kind" => a \in Kinds
         /\ a.is = "scalar" => a \in Scalars
         /\ a.is = "residual" => a \in Residuals
  <1>1. CASE a \in {Top, Nil, Empty} BY <1>1 DEF Top, Nil, Empty
  <1>2. CASE a \in Kinds BY <1>2 DEF Kinds
  <1>3. CASE a \in Scalars BY <1>3 DEF Scalars
  <1>4. CASE a \in Residuals
    <2>1. a.is = "residual" BY <1>4 DEF Residuals, ResidualType
    <2> QED BY <1>4, <2>1
  <1> QED BY <1>1, <1>2, <1>3, <1>4 DEF LeafType, Kinds, Scalars, Residuals

LEMMA LeafParts ==
  /\ Top \in LeafType /\ Nil \in LeafType /\ Empty \in LeafType
  /\ Kinds \subseteq LeafType /\ Scalars \subseteq LeafType /\ Residuals \subseteq LeafType
  BY DEF LeafType, Kinds, Scalars, Residuals

LEMMA FinishType ==
  ASSUME NEW r \in ResidualType, WellFormed(r)
  PROVE  Finish(r) \in LeafType /\ Finish(r).is \in {"nil", "residual"}
  <1>1. CASE StateEmpty(r) BY <1>1, LeafParts DEF Finish, Nil
  <1>2. CASE ~StateEmpty(r)
    <2>1. r \in Residuals /\ Finish(r) = r BY <1>2 DEF Residuals, Finish
    <2> QED BY <2>1, LeafParts, LeafShape DEF Residuals, ResidualType
  <1> QED BY <1>1, <1>2

LEMMA FinishAdmits ==
  ASSUME NEW r \in ResidualType, WellFormed(r), NEW x \in Instance
  PROVE  Admits(Finish(r), x) <=> ResidualAdmits(r, x)
  <1>1. CASE StateEmpty(r)
    <2>1. ~ResidualAdmits(r, x) BY <1>1, EmptyAdmitsNothing
    <2> QED BY <1>1, <2>1 DEF Finish, Nil, Admits
  <1>2. CASE ~StateEmpty(r)
    <2>1. Finish(r) = r /\ r.is = "residual" BY <1>2 DEF Finish, ResidualType
    <2> QED BY <2>1 DEF Admits
  <1> QED BY <1>1, <1>2

(***************************************************************************)
(* Narrowing one residual: a kind and empty() settle its domain and flags  *)
(* and leave the rest of it alone.                                         *)
(***************************************************************************)
Aside(r, domain, kind, nonEmpty, emptyOk, pathKind) ==
  [r EXCEPT !.domain = domain, !.kind = kind, !.nonEmpty = nonEmpty, !.emptyOk = emptyOk,
            !.pathKind = pathKind]

\* What a residual asks of a scalar beside its domain, kind and flags.
Core(r, x) ==
  /\ ~r.uniq /\ r.keys = {} /\ r.contains = {}
  /\ AboveLo(r.lo, x.v) /\ BelowHi(r.hi, x.v)
  /\ [leaf |-> x.leaf, v |-> x.v] \notin r.neqs
  /\ \A m \in r.mults : IsMultiple(x.v, m.v)
  /\ Passes(r.tests, x) /\ Passes(r.checks, x)
  /\ r.count.on => x.leaf \in TextLeaf /\ CountAdmits(r.count, Length[x.v])

LEMMA AdmitsCore ==
  ASSUME NEW r \in ResidualType, WellFormed(r), NEW x \in Instance, DomainOf(x) # "none"
  PROVE  AdmitsScalar(r, x)
           <=> /\ Core(r, x)
               /\ r.domain # "none" => DomainOf(x) = r.domain
               /\ r.kind # "none" => x.leaf = r.kind
               /\ r.nonEmpty => x.leaf # "path"
               /\ r.pathKind => x.leaf = "path"
  <1>1. CASE r.domain = "none"
    <2>1. Inside(r, x) /\ Passes(r.tests, x) /\ r.kind = "none" BY <1>1, NoDomainInside, NoDomain
    <2> QED BY <1>1, <2>1 DEF AdmitsScalar, StateAdmits, Core, Inside
  <1>2. CASE r.domain # "none" BY <1>2 DEF AdmitsScalar, StateAdmits, Core, Inside
  <1> QED BY <1>1, <1>2

LEMMA AsideFields ==
  ASSUME NEW r \in ResidualType, NEW D, NEW K, NEW n, NEW e, NEW p
  PROVE  LET c == Aside(r, D, K, n, e, p) IN
         /\ c.domain = D /\ c.kind = K /\ c.nonEmpty = n /\ c.emptyOk = e /\ c.pathKind = p
         /\ c.is = r.is /\ c.lo = r.lo /\ c.hi = r.hi /\ c.neqs = r.neqs /\ c.mults = r.mults
         /\ c.tests = r.tests /\ c.count = r.count /\ c.uniq = r.uniq /\ c.keys = r.keys
         /\ c.contains = r.contains /\ c.rests = r.rests /\ c.checks = r.checks
  BY DEF Aside, ResidualType

LEMMA AsideType ==
  ASSUME NEW r \in ResidualType, WellFormed(r), NEW D \in {"number", "string"},
         r.domain = "none" \/ r.domain = D,
         NEW K \in NumLeaf \union {"none"}, K # "none" => D = "number",
         NEW n \in BOOLEAN, NEW e \in BOOLEAN, NEW p \in BOOLEAN,
         n \/ e \/ p => D = "string", p => ~n /\ ~e
  PROVE  Aside(r, D, K, n, e, p) \in ResidualType /\ WellFormed(Aside(r, D, K, n, e, p))
  <1> DEFINE c == Aside(r, D, K, n, e, p)
  <1>1. c \in ResidualType BY DEF Aside, ResidualType
  <1>2. /\ c.domain = D /\ c.kind = K /\ c.nonEmpty = n /\ c.emptyOk = e /\ c.pathKind = p
        /\ c.lo = r.lo /\ c.hi = r.hi /\ c.neqs = r.neqs /\ c.mults = r.mults
        /\ c.tests = r.tests /\ c.count = r.count
    BY AsideFields
  <1>3. OfDomain(r, D) BY OfDomainWidens
  <1>4. r.tests # {} => D = "string" BY DEF WellFormed
  <1>5. OfDomain(r.count, "number") BY DEF WellFormed
  <1> SUFFICES c \in ResidualType /\ WellFormed(c) OBVIOUS
  <1> HIDE DEF c
  <1>6. OfDomain(c, D) BY <1>2, <1>3 DEF OfDomain
  <1>7. WellFormed(c) BY <1>2, <1>4, <1>5, <1>6 DEF WellFormed
  <1> QED BY <1>1, <1>7

LEMMA AsideAdmits ==
  ASSUME NEW r \in ResidualType, WellFormed(r), NEW D \in {"number", "string"},
         r.domain = "none" \/ r.domain = D,
         NEW K \in NumLeaf \union {"none"}, K # "none" => D = "number",
         r.kind = "none" \/ r.kind = K,
         NEW n \in BOOLEAN, NEW e \in BOOLEAN, NEW p \in BOOLEAN,
         n \/ e \/ p => D = "string", p => ~n /\ ~e,
         r.nonEmpty => n, r.pathKind => p, NEW x \in Instance
  PROVE  ResidualAdmits(Aside(r, D, K, n, e, p), x)
           <=> /\ ResidualAdmits(r, x)
               /\ DomainOf(x) = D
               /\ K # "none" => x.leaf = K
               /\ n => x.leaf # "path"
               /\ p => x.leaf = "path"
  <1> DEFINE c == Aside(r, D, K, n, e, p)
  <1>1. c \in ResidualType /\ WellFormed(c) BY AsideType
  <1>2. /\ c.domain = D /\ c.kind = K /\ c.nonEmpty = n /\ c.emptyOk = e /\ c.pathKind = p
        /\ c.lo = r.lo /\ c.hi = r.hi /\ c.neqs = r.neqs /\ c.mults = r.mults
        /\ c.tests = r.tests /\ c.count = r.count /\ c.uniq = r.uniq /\ c.keys = r.keys
        /\ c.contains = r.contains /\ c.rests = r.rests /\ c.checks = r.checks
    BY AsideFields
  <1> SUFFICES ResidualAdmits(c, x)
                 <=> /\ ResidualAdmits(r, x)
                     /\ DomainOf(x) = D
                     /\ K # "none" => x.leaf = K
                     /\ n => x.leaf # "path"
                     /\ p => x.leaf = "path"
    OBVIOUS
  <1> HIDE DEF c
  <1>3. Core(c, x) <=> Core(r, x) BY <1>2 DEF Core
  <1>4. CASE x.leaf = "bag"
    <2>1. DomainOf(x) = "none" BY <1>4 DEF DomainOf, NumLeaf, TextLeaf
    <2> QED BY <1>2, <1>4, <2>1 DEF ResidualAdmits, AdmitsContainer
  <1>5. CASE x.leaf # "bag" /\ DomainOf(x) = "none"
    BY <1>2, <1>5 DEF ResidualAdmits, AdmitsScalar, StateAdmits
  <1>6. CASE x.leaf # "bag" /\ DomainOf(x) # "none"
    <2>1. AdmitsScalar(c, x)
            <=> /\ Core(c, x)
                /\ c.domain # "none" => DomainOf(x) = c.domain
                /\ c.kind # "none" => x.leaf = c.kind
                /\ c.nonEmpty => x.leaf # "path"
                /\ c.pathKind => x.leaf = "path"
      BY <1>1, <1>6, AdmitsCore
    <2>2. AdmitsScalar(r, x)
            <=> /\ Core(r, x)
                /\ r.domain # "none" => DomainOf(x) = r.domain
                /\ r.kind # "none" => x.leaf = r.kind
                /\ r.nonEmpty => x.leaf # "path"
                /\ r.pathKind => x.leaf = "path"
      BY <1>6, AdmitsCore
    <2> QED BY <1>2, <1>3, <1>6, <2>1, <2>2 DEF ResidualAdmits
  <1> QED BY <1>4, <1>5, <1>6

(***************************************************************************)
(* The meet, one pair of values at a time.  Each lemma says that the       *)
(* answer is a value, that it waives "" only where one of the two did, and *)
(* that it is a path only where one of the two was.                        *)
(***************************************************************************)
Fine(u, a, b) ==
  /\ u \in LeafType
  /\ Waives(u) => Waives(a) \/ Waives(b)
  /\ PathScalar(u) => PathScalar(a) \/ PathScalar(b)

\* What a waiver lets through is not asked of the paths.
Heard(a, b, x) == x \in Instance /\ (x.leaf = "path" => ~Waives(a) /\ ~Waives(b))

Exact(u, a, b) == \A x : Heard(a, b, x) => (Admits(u, x) <=> Admits(a, x) /\ Admits(b, x))

LEMMA NilFine == ASSUME NEW a, NEW b PROVE Fine(Nil, a, b)
  BY LeafParts DEF Fine, Nil, Waives, PathScalar

LEMMA NilAdmits == ASSUME NEW x PROVE ~Admits(Nil, x)
  BY DEF Nil, Admits

LEMMA FinishFine ==
  ASSUME NEW r \in ResidualType, WellFormed(r), NEW a, NEW b, r.emptyOk => Waives(a) \/ Waives(b)
  PROVE  Fine(Finish(r), a, b)
  <1>1. Finish(r) \in LeafType /\ Finish(r).is \in {"nil", "residual"} BY FinishType
  <1>2. ~PathScalar(Finish(r)) BY <1>1 DEF PathScalar
  <1>3. CASE StateEmpty(r) BY <1>3, NilFine DEF Finish
  <1>4. CASE ~StateEmpty(r)
    <2>1. Finish(r) = r /\ r.is = "residual" BY <1>4 DEF Finish, ResidualType
    <2>2. Waives(r) => r.emptyOk BY <2>1 DEF Waives
    <2> QED BY <1>1, <1>2, <2>1, <2>2 DEF Fine
  <1> QED BY <1>3, <1>4

LEMMA ResidualIs == ASSUME NEW r \in Residuals PROVE r.is = "residual" /\ r \in ResidualType /\ WellFormed(r)
  BY DEF Residuals, ResidualType

(***************************************************************************)
(* Two residuals.                                                          *)
(***************************************************************************)
LEMMA ConstraintFine ==
  ASSUME NEW a \in Residuals, NEW b \in Residuals
  PROVE  Fine(MeetConstraint(a, b), a, b)
  <1>1. /\ a.is = "residual" /\ a \in ResidualType /\ WellFormed(a)
        /\ b.is = "residual" /\ b \in ResidualType /\ WellFormed(b)
    BY ResidualIs
  <1>2. CASE \/ a.domain # "none" /\ b.domain # "none" /\ a.domain # b.domain
             \/ a.kind # "none" /\ b.kind # "none" /\ a.kind # b.kind
             \/ a.pathKind /\ (b.nonEmpty \/ b.emptyOk)
             \/ b.pathKind /\ (a.nonEmpty \/ a.emptyOk)
    BY <1>2, NilFine DEF MeetConstraint
  <1>3. CASE ~(\/ a.domain # "none" /\ b.domain # "none" /\ a.domain # b.domain
               \/ a.kind # "none" /\ b.kind # "none" /\ a.kind # b.kind
               \/ a.pathKind /\ (b.nonEmpty \/ b.emptyOk)
               \/ b.pathKind /\ (a.nonEmpty \/ a.emptyOk))
    <2>1. MeetConstraint(a, b) = Finish(Merged(a, b)) BY <1>3 DEF MeetConstraint
    <2>2. Agree(a, b) BY <1>3 DEF Agree
    <2>3. Merged(a, b) \in ResidualType /\ WellFormed(Merged(a, b))
      BY <1>1, <1>3, <2>2, MergedType
    <2>4. Merged(a, b).emptyOk => Waives(a) \/ Waives(b) BY <1>1 DEF Merged, Waives
    <2> QED BY <2>1, <2>3, <2>4, FinishFine
  <1> QED BY <1>2, <1>3

LEMMA ConstraintExact ==
  ASSUME NEW a \in Residuals, NEW b \in Residuals
  PROVE  Exact(MeetConstraint(a, b), a, b)
  <1>1. /\ a.is = "residual" /\ a \in ResidualType /\ WellFormed(a)
        /\ b.is = "residual" /\ b \in ResidualType /\ WellFormed(b)
    BY ResidualIs
  <1>2. \A x : Admits(a, x) <=> ResidualAdmits(a, x) BY <1>1 DEF Admits
  <1>3. \A x : Admits(b, x) <=> ResidualAdmits(b, x) BY <1>1 DEF Admits
  <1> SUFFICES ASSUME NEW x, Heard(a, b, x)
               PROVE  Admits(MeetConstraint(a, b), x) <=> ResidualAdmits(a, x) /\ ResidualAdmits(b, x)
    BY <1>2, <1>3 DEF Exact
  <1>4. x \in Instance /\ (x.leaf = "path" => ~a.emptyOk /\ ~b.emptyOk) BY <1>1 DEF Heard, Waives
  <1>5. CASE \/ a.domain # "none" /\ b.domain # "none" /\ a.domain # b.domain
             \/ a.kind # "none" /\ b.kind # "none" /\ a.kind # b.kind
             \/ a.pathKind /\ (b.nonEmpty \/ b.emptyOk)
             \/ b.pathKind /\ (a.nonEmpty \/ a.emptyOk)
    <2>1. MeetConstraint(a, b) = Nil BY <1>5 DEF MeetConstraint
    <2>2. ~Admits(MeetConstraint(a, b), x) BY <2>1 DEF Nil, Admits
    <2>3. CASE x.leaf = "bag"
      <3>1. a.domain # "none" \/ b.domain # "none" BY <1>1, <1>5 DEF WellFormed
      <3> QED BY <2>2, <2>3, <3>1 DEF ResidualAdmits, AdmitsContainer
    <2>4. CASE x.leaf # "bag"
      <3>1. ~(AdmitsScalar(a, x) /\ AdmitsScalar(b, x))
        BY <1>1, <1>4, <1>5 DEF AdmitsScalar, StateAdmits, Inside, WellFormed
      <3> QED BY <2>2, <2>4, <3>1 DEF ResidualAdmits
    <2> QED BY <2>3, <2>4
  <1>6. CASE ~(\/ a.domain # "none" /\ b.domain # "none" /\ a.domain # b.domain
               \/ a.kind # "none" /\ b.kind # "none" /\ a.kind # b.kind
               \/ a.pathKind /\ (b.nonEmpty \/ b.emptyOk)
               \/ b.pathKind /\ (a.nonEmpty \/ a.emptyOk))
    <2>1. MeetConstraint(a, b) = Finish(Merged(a, b)) BY <1>6 DEF MeetConstraint
    <2>2. Agree(a, b) BY <1>6 DEF Agree
    <2>3. Merged(a, b) \in ResidualType /\ WellFormed(Merged(a, b))
      BY <1>1, <1>6, <2>2, MergedType
    <2>4. Admits(Finish(Merged(a, b)), x) <=> ResidualAdmits(Merged(a, b), x)
      BY <1>4, <2>3, FinishAdmits
    <2>5. ResidualAdmits(Merged(a, b), x) <=> ResidualAdmits(a, x) /\ ResidualAdmits(b, x)
      BY <1>1, <1>4, <2>2, MergedIsIntersection
    <2> QED BY <2>1, <2>4, <2>5
  <1> QED BY <1>5, <1>6

(***************************************************************************)
(* A residual and a kind.                                                  *)
(***************************************************************************)
KindDomain(k) == IF k.kind \in TextLeaf THEN "string" ELSE "number"
KindKept(r, k) == IF k.kind \in NumLeaf THEN k.kind ELSE r.kind

LEMMA KindShape ==
  ASSUME NEW k \in Kinds
  PROVE  /\ k.is = "kind" /\ k.ok \in BOOLEAN /\ (k.ok => k.kind = "string")
         /\ k.kind \in {"path", "string", "number"} \union NumLeaf
         /\ k.kind \in NumLeaf => k.kind \notin {"path", "string", "number"}
  BY DEF Kinds, KindName, TextLeaf, NumLeaf

LEMMA NarrowedForm ==
  ASSUME NEW r \in ResidualType, NEW k
  PROVE  Narrowed(r, k) = Aside(r, KindDomain(k), KindKept(r, k), r.nonEmpty \/ k.kind = "string",
                                r.emptyOk \/ k.ok, r.pathKind \/ k.kind = "path")
  BY DEF Narrowed, Aside, KindDomain, KindKept

\* Where a kind is not refused, it and the residual can be narrowed together.
LEMMA NarrowedFits ==
  ASSUME NEW r \in Residuals, NEW k \in Kinds, ~KindRefused(r, k)
  PROVE  /\ KindDomain(k) \in {"number", "string"}
         /\ r.domain = "none" \/ r.domain = KindDomain(k)
         /\ KindKept(r, k) \in NumLeaf \union {"none"}
         /\ KindKept(r, k) # "none" => KindDomain(k) = "number"
         /\ r.kind = "none" \/ r.kind = KindKept(r, k)
         /\ (r.nonEmpty \/ k.kind = "string") \in BOOLEAN
         /\ (r.emptyOk \/ k.ok) \in BOOLEAN
         /\ (r.pathKind \/ k.kind = "path") \in BOOLEAN
         /\ (r.nonEmpty \/ k.kind = "string") \/ (r.emptyOk \/ k.ok) \/ (r.pathKind \/ k.kind = "path")
              => KindDomain(k) = "string"
         /\ (r.pathKind \/ k.kind = "path")
              => ~(r.nonEmpty \/ k.kind = "string") /\ ~(r.emptyOk \/ k.ok)
  <1>1. r \in ResidualType /\ WellFormed(r) BY ResidualIs
  <1>2. /\ r.kind \in NumLeaf \union {"none"} /\ r.domain \in {"none", "number", "string"}
        /\ r.kind # "none" => r.domain = "number"
        /\ r.nonEmpty \/ r.emptyOk \/ r.pathKind => r.domain = "string"
        /\ r.pathKind => ~r.nonEmpty /\ ~r.emptyOk
    BY <1>1 DEF ResidualType, WellFormed
  <1>3. CASE k.kind = "path"
    BY <1>2, <1>3, KindShape DEF KindRefused, KindDomain, KindKept, TextLeaf, NumLeaf
  <1>4. CASE k.kind = "string"
    BY <1>2, <1>4, KindShape DEF KindRefused, KindDomain, KindKept, TextLeaf, NumLeaf
  <1>5. CASE k.kind = "number"
    BY <1>2, <1>5, KindShape DEF KindRefused, KindDomain, KindKept, TextLeaf, NumLeaf
  <1>6. CASE k.kind \in NumLeaf
    BY <1>2, <1>6, KindShape DEF KindRefused, KindDomain, KindKept, TextLeaf, NumLeaf
  <1> QED BY <1>3, <1>4, <1>5, <1>6, KindShape

LEMMA NarrowedRight ==
  ASSUME NEW r \in Residuals, NEW k \in Kinds, ~KindRefused(r, k)
  PROVE  /\ Narrowed(r, k) \in ResidualType /\ WellFormed(Narrowed(r, k))
         /\ \A x \in Instance :
              ResidualAdmits(Narrowed(r, k), x)
                <=> /\ ResidualAdmits(r, x)
                    /\ DomainOf(x) = KindDomain(k)
                    /\ KindKept(r, k) # "none" => x.leaf = KindKept(r, k)
                    /\ r.nonEmpty \/ k.kind = "string" => x.leaf # "path"
                    /\ r.pathKind \/ k.kind = "path" => x.leaf = "path"
  <1> DEFINE D == KindDomain(k)
             K == KindKept(r, k)
             n == r.nonEmpty \/ k.kind = "string"
             e == r.emptyOk \/ k.ok
             p == r.pathKind \/ k.kind = "path"
  <1>1. r \in ResidualType /\ WellFormed(r) BY ResidualIs
  <1>2. Narrowed(r, k) = Aside(r, D, K, n, e, p) BY <1>1, NarrowedForm
  <1>3. /\ D \in {"number", "string"} /\ (r.domain = "none" \/ r.domain = D)
        /\ K \in NumLeaf \union {"none"} /\ (K # "none" => D = "number")
        /\ r.kind = "none" \/ r.kind = K
        /\ n \in BOOLEAN /\ e \in BOOLEAN /\ p \in BOOLEAN
        /\ (n \/ e \/ p => D = "string") /\ (p => ~n /\ ~e)
    BY NarrowedFits
  <1>4. (r.nonEmpty => n) /\ (r.pathKind => p) OBVIOUS
  <1> SUFFICES /\ Aside(r, D, K, n, e, p) \in ResidualType /\ WellFormed(Aside(r, D, K, n, e, p))
               /\ \A x \in Instance :
                    ResidualAdmits(Aside(r, D, K, n, e, p), x)
                      <=> /\ ResidualAdmits(r, x)
                          /\ DomainOf(x) = D
                          /\ K # "none" => x.leaf = K
                          /\ n => x.leaf # "path"
                          /\ p => x.leaf = "path"
    BY <1>2
  <1> HIDE DEF D, K, n, e, p
  <1>5. Aside(r, D, K, n, e, p) \in ResidualType /\ WellFormed(Aside(r, D, K, n, e, p))
    BY <1>1, <1>3, AsideType
  <1>6. \A x \in Instance :
          ResidualAdmits(Aside(r, D, K, n, e, p), x)
            <=> /\ ResidualAdmits(r, x)
                /\ DomainOf(x) = D
                /\ K # "none" => x.leaf = K
                /\ n => x.leaf # "path"
                /\ p => x.leaf = "path"
    BY <1>1, <1>3, <1>4, AsideAdmits
  <1> QED BY <1>5, <1>6

LEMMA MeetKindFine ==
  ASSUME NEW r \in Residuals, NEW k \in Kinds
  PROVE  Fine(MeetKind(r, k), r, k) /\ Fine(MeetKind(r, k), k, r)
  <1>1. CASE KindRefused(r, k) BY <1>1, NilFine DEF MeetKind
  <1>2. CASE ~KindRefused(r, k)
    <2>1. r \in ResidualType /\ WellFormed(r) /\ r.is = "residual" BY ResidualIs
    <2>2. Narrowed(r, k) \in ResidualType /\ WellFormed(Narrowed(r, k))
      BY <1>2, NarrowedRight
    <2>3. Narrowed(r, k).emptyOk => Waives(r) \/ Waives(k)
      BY <2>1, KindShape DEF Narrowed, Waives, ResidualType
    <2> QED BY <1>2, <2>2, <2>3, FinishFine DEF MeetKind
  <1> QED BY <1>1, <1>2

LEMMA KindAdmits ==
  ASSUME NEW k \in Kinds, NEW x \in Instance
  PROVE  Admits(k, x) <=> \/ k.kind \in NumLeaf /\ x.leaf = k.kind
                          \/ k.kind = "number" /\ DomainOf(x) = "number"
                          \/ k.kind = "string" /\ DomainOf(x) = "string" /\ x.leaf # "path"
                          \/ k.kind = "path" /\ x.leaf = "path"
  BY KindShape, InstanceShape DEF Admits, KindSubsumes, DomainOf, NumLeaf, TextLeaf, Leaf

LEMMA RefusedKindExact ==
  ASSUME NEW r \in Residuals, NEW k \in Kinds, KindRefused(r, k), NEW x, Heard(r, k, x)
  PROVE  ~(ResidualAdmits(r, x) /\ Admits(k, x))
  <1>1. r \in ResidualType /\ WellFormed(r) /\ r.is = "residual" BY ResidualIs
  <1>2. x \in Instance /\ (x.leaf = "path" => ~r.emptyOk) BY <1>1 DEF Heard, Waives
  <1>3. SUFFICES ASSUME ResidualAdmits(r, x), Admits(k, x) PROVE FALSE OBVIOUS
  <1>4. DomainOf(x) # "none" /\ x.leaf # "bag"
    BY <1>2, <1>3, KindAdmits DEF DomainOf, NumLeaf, TextLeaf
  <1>5. /\ r.domain # "none" => DomainOf(x) = r.domain
        /\ r.kind # "none" => x.leaf = r.kind
        /\ r.nonEmpty => x.leaf # "path"
        /\ r.pathKind => x.leaf = "path"
    BY <1>1, <1>2, <1>3, <1>4, AdmitsCore DEF ResidualAdmits
  <1>6. DomainOf(x) = "string" => x.leaf \notin NumLeaf BY DEF DomainOf
  <1>7. x.leaf \in NumLeaf => DomainOf(x) = "number" BY DEF DomainOf
  <1>8. x.leaf = "path" => DomainOf(x) = "string" BY DEF DomainOf, NumLeaf, TextLeaf
  <1> QED BY <1>2, <1>3, <1>4, <1>5, <1>6, <1>7, <1>8, KindAdmits, KindShape DEF KindRefused

LEMMA MeetKindExact ==
  ASSUME NEW r \in Residuals, NEW k \in Kinds
  PROVE  Exact(MeetKind(r, k), r, k) /\ Exact(MeetKind(r, k), k, r)
  <1>1. r \in ResidualType /\ WellFormed(r) /\ r.is = "residual" BY ResidualIs
  <1>2. \A x : Admits(r, x) <=> ResidualAdmits(r, x) BY <1>1 DEF Admits
  <1>3. \A x : Heard(k, r, x) => Heard(r, k, x) BY DEF Heard
  <1> SUFFICES ASSUME NEW x, Heard(r, k, x)
               PROVE  Admits(MeetKind(r, k), x) <=> ResidualAdmits(r, x) /\ Admits(k, x)
    BY <1>2, <1>3 DEF Exact
  <1>4. x \in Instance BY DEF Heard
  <1>5. CASE KindRefused(r, k)
    <2>1. ~Admits(MeetKind(r, k), x) BY <1>5 DEF MeetKind, Nil, Admits
    <2> QED BY <1>5, <2>1, RefusedKindExact
  <1>6. CASE ~KindRefused(r, k)
    <2>1. Narrowed(r, k) \in ResidualType /\ WellFormed(Narrowed(r, k))
      BY <1>6, NarrowedRight
    <2>2. Admits(MeetKind(r, k), x) <=> ResidualAdmits(Narrowed(r, k), x)
      BY <1>4, <1>6, <2>1, FinishAdmits DEF MeetKind
    <2>3. ResidualAdmits(Narrowed(r, k), x)
            <=> /\ ResidualAdmits(r, x)
                /\ DomainOf(x) = KindDomain(k)
                /\ KindKept(r, k) # "none" => x.leaf = KindKept(r, k)
                /\ r.nonEmpty \/ k.kind = "string" => x.leaf # "path"
                /\ r.pathKind \/ k.kind = "path" => x.leaf = "path"
      BY <1>4, <1>6, NarrowedRight
    <2>4. ResidualAdmits(r, x) /\ DomainOf(x) # "none"
            => /\ r.kind # "none" => x.leaf = r.kind
               /\ r.nonEmpty => x.leaf # "path"
               /\ r.pathKind => x.leaf = "path"
      <3>1. x.leaf = "bag" => DomainOf(x) = "none" BY DEF DomainOf, NumLeaf, TextLeaf
      <3> QED BY <1>1, <1>4, <3>1, AdmitsCore DEF ResidualAdmits
    <2>5. KindDomain(k) # "none" BY DEF KindDomain
    <2> QED BY <1>4, <2>2, <2>3, <2>4, <2>5, KindAdmits, KindShape
            DEF KindDomain, KindKept, DomainOf, NumLeaf, TextLeaf
  <1> QED BY <1>5, <1>6

(***************************************************************************)
(* A residual and a scalar.                                                *)
(***************************************************************************)
Shape(s) == [leaf |-> s.leaf, v |-> s.v]

LEMMA ScalarShape ==
  ASSUME NEW s \in Scalars
  PROVE  /\ s.is = "scalar" /\ s.leaf \in Leaf \ {"bag"} /\ s.v \in Int
         /\ s.needs \in BOOLEAN /\ s.ok \in BOOLEAN /\ Shape(s) \in Instance
         /\ s.needs \/ s.ok => s.leaf = "string"
         /\ s = [is |-> "scalar", leaf |-> s.leaf, v |-> s.v, needs |-> s.needs, ok |-> s.ok]
  BY DEF Scalars, Shape

LEMMA ReflaggedScalar ==
  ASSUME NEW s \in Scalars, NEW n \in BOOLEAN, NEW o \in BOOLEAN, n \/ o => s.leaf = "string"
  PROVE  [s EXCEPT !.needs = n, !.ok = o] \in Scalars
  BY DEF Scalars

\* A scalar whose flags a meet has set.
LEMMA FlaggedScalar ==
  ASSUME NEW s \in Scalars
  PROVE  /\ WithEmpty(s) \in Scalars /\ WithNonEmpty(s) \in Scalars
         /\ Shape(WithEmpty(s)) = Shape(s) /\ Shape(WithNonEmpty(s)) = Shape(s)
         /\ WithNonEmpty(s).ok = s.ok
  BY DEF Scalars, WithEmpty, WithNonEmpty, Shape

LEMMA ScalarAdmits ==
  ASSUME NEW s \in Scalars, ~PathScalar(s), NEW x \in Instance
  PROVE  Admits(s, x) <=> x = Shape(s)
  <1>1. s.is = "scalar" /\ s.leaf # "path" BY ScalarShape DEF PathScalar
  <1>2. x = [leaf |-> x.leaf, v |-> x.v] BY InstanceShape
  <1> QED BY <1>1, <1>2 DEF Admits, SameScalar, Shape

LEMMA SameVerdict ==
  ASSUME NEW r, NEW s
  PROVE  AdmitsScalar(r, s) <=> AdmitsScalar(r, Shape(s))
  <1>1. Shape(s).leaf = s.leaf /\ Shape(s).v = s.v BY DEF Shape
  <1>2. DomainOf(s) = DomainOf(Shape(s)) BY <1>1 DEF DomainOf
  <1>3. Inside(r, s) <=> Inside(r, Shape(s)) BY <1>1 DEF Inside
  <1>4. \A A : Passes(A, s) <=> Passes(A, Shape(s)) BY <1>1 DEF Passes
  <1>5. StateAdmits(r, s) <=> StateAdmits(r, Shape(s)) BY <1>2, <1>3, <1>4 DEF StateAdmits
  <1> QED BY <1>1, <1>4, <1>5 DEF AdmitsScalar

LEMMA AdmitForm ==
  ASSUME NEW r \in Residuals, NEW s \in Scalars
  PROVE  /\ ~AdmitsScalar(r, s) => Admit(r, s) = Nil
         /\ AdmitsScalar(r, s)
              => /\ Admit(r, s) \in Scalars /\ Shape(Admit(r, s)) = Shape(s)
                 /\ Admit(r, s).ok => r.emptyOk \/ s.ok
  <1> DEFINE t == IF r.nonEmpty THEN WithNonEmpty(s) ELSE s
  <1>1. t \in Scalars /\ Shape(t) = Shape(s) /\ t.ok = s.ok BY FlaggedScalar
  <1>2. AdmitsScalar(r, s) => Admit(r, s) = IF r.emptyOk THEN WithEmpty(t) ELSE t BY DEF Admit
  <1> HIDE DEF t
  <1>3. WithEmpty(t) \in Scalars /\ Shape(WithEmpty(t)) = Shape(t) BY <1>1, FlaggedScalar
  <1> QED BY <1>1, <1>2, <1>3 DEF Admit

LEMMA ShapePath == ASSUME NEW s \in Scalars, NEW t \in Scalars, Shape(s) = Shape(t)
                   PROVE  PathScalar(s) <=> PathScalar(t)
  <1>1. Shape(s).leaf = s.leaf /\ Shape(t).leaf = t.leaf BY DEF Shape
  <1> QED BY <1>1, ScalarShape DEF PathScalar

LEMMA ScalarsAreLeaf == Scalars \subseteq LeafType /\ Kinds \subseteq LeafType
  BY LeafParts

LEMMA AdmitFine ==
  ASSUME NEW r \in Residuals, NEW s \in Scalars
  PROVE  Fine(Admit(r, s), r, s) /\ Fine(Admit(r, s), s, r)
  <1>1. CASE ~AdmitsScalar(r, s) BY <1>1, AdmitForm, NilFine
  <1>2. CASE AdmitsScalar(r, s)
    <2> DEFINE u == Admit(r, s)
    <2>1. u \in Scalars /\ Shape(u) = Shape(s) /\ (u.ok => r.emptyOk \/ s.ok) BY <1>2, AdmitForm
    <2>2. u \in LeafType BY <2>1, ScalarsAreLeaf
    <2>3. PathScalar(u) => PathScalar(s) BY <2>1, ShapePath
    <2>4. Waives(u) => Waives(r) \/ Waives(s)
      <3>1. u.is = "scalar" /\ s.is = "scalar" /\ r.is = "residual" BY <2>1, ScalarShape, ResidualIs
      <3> HIDE DEF u
      <3> QED BY <2>1, <3>1 DEF Waives
    <2> QED BY <2>2, <2>3, <2>4 DEF Fine
  <1> QED BY <1>1, <1>2

LEMMA AdmitExact ==
  ASSUME NEW r \in Residuals, NEW s \in Scalars, ~PathScalar(s)
  PROVE  Exact(Admit(r, s), r, s) /\ Exact(Admit(r, s), s, r)
  <1>1. r.is = "residual" BY ResidualIs
  <1> SUFFICES ASSUME NEW x \in Instance
               PROVE  Admits(Admit(r, s), x) <=> ResidualAdmits(r, x) /\ Admits(s, x)
    BY <1>1 DEF Exact, Heard, Admits
  <1>2. Admits(s, x) <=> x = Shape(s) BY ScalarAdmits
  <1>3. AdmitsScalar(r, s) <=> AdmitsScalar(r, Shape(s)) BY SameVerdict
  <1>4. Shape(s).leaf # "bag" BY ScalarShape DEF Shape
  <1>5. x = Shape(s) => (ResidualAdmits(r, x) <=> AdmitsScalar(r, s))
    BY <1>3, <1>4 DEF ResidualAdmits
  <1>6. CASE ~AdmitsScalar(r, s)
    <2>1. Admit(r, s) = Nil BY <1>6, AdmitForm
    <2> QED BY <1>2, <1>5, <1>6, <2>1, NilAdmits
  <1>7. CASE AdmitsScalar(r, s)
    <2>1. Admit(r, s) \in Scalars /\ Shape(Admit(r, s)) = Shape(s) BY <1>7, AdmitForm
    <2>2. ~PathScalar(Admit(r, s)) BY <2>1, ShapePath
    <2>3. Admits(Admit(r, s), x) <=> x = Shape(Admit(r, s)) BY <2>1, <2>2, ScalarAdmits
    <2> QED BY <1>2, <1>5, <1>7, <2>1, <2>3
  <1> QED BY <1>6, <1>7

(***************************************************************************)
(* Kinds and scalars among themselves.                                     *)
(***************************************************************************)
LEMMA KindKindFine ==
  ASSUME NEW a \in Kinds, NEW b \in Kinds
  PROVE  Fine(KindKind(a, b), a, b)
  <1>1. KindKind(a, b) = Nil \/ KindKind(a, b) = a \/ KindKind(a, b) = b
          \/ (a.kind = b.kind /\ KindKind(a, b) = [a EXCEPT !.ok = a.ok \/ b.ok])
    BY DEF KindKind
  <1>2. CASE KindKind(a, b) = Nil BY <1>2, NilFine
  <1>3. CASE KindKind(a, b) = a \/ KindKind(a, b) = b
    BY <1>3, ScalarsAreLeaf DEF Fine
  <1>4. CASE a.kind = b.kind /\ KindKind(a, b) = [a EXCEPT !.ok = a.ok \/ b.ok]
    <2> DEFINE u == [a EXCEPT !.ok = a.ok \/ b.ok]
    <2>1. u \in Kinds BY <1>4 DEF Kinds
    <2>2. u.is = "kind" /\ a.is = "kind" /\ b.is = "kind" BY <2>1, KindShape
    <2>3. u.ok => a.ok \/ b.ok BY DEF Kinds
    <2>4. u \in LeafType BY <2>1, ScalarsAreLeaf
    <2> HIDE DEF u
    <2>5. Fine(u, a, b) BY <2>2, <2>3, <2>4 DEF Fine, Waives, PathScalar
    <2> QED BY <1>4, <2>5 DEF u
  <1> QED BY <1>1, <1>2, <1>3, <1>4

LEMMA KindKindExact ==
  ASSUME NEW a \in Kinds, NEW b \in Kinds
  PROVE  Exact(KindKind(a, b), a, b)
  <1> SUFFICES ASSUME NEW x \in Instance
               PROVE  Admits(KindKind(a, b), x) <=> Admits(a, x) /\ Admits(b, x)
    BY DEF Exact, Heard
  <1>1. a.is = "kind" /\ b.is = "kind" BY KindShape
  <1>2. (Admits(a, x) <=> KindSubsumes(a.kind, x.leaf)) /\ (Admits(b, x) <=> KindSubsumes(b.kind, x.leaf))
    BY <1>1 DEF Admits
  <1>3. CASE a.kind = b.kind
    <2>1. KindKind(a, b).is = "kind" /\ KindKind(a, b).kind = a.kind
      BY <1>3 DEF KindKind, Kinds
    <2>2. Admits(KindKind(a, b), x) <=> KindSubsumes(a.kind, x.leaf) BY <2>1 DEF Admits
    <2> QED BY <1>2, <1>3, <2>2
  <1>4. CASE a.kind # b.kind /\ KindSubsumes(a.kind, b.kind)
    BY <1>2, <1>4 DEF KindKind, KindSubsumes, NumLeaf
  <1>5. CASE a.kind # b.kind /\ ~KindSubsumes(a.kind, b.kind) /\ KindSubsumes(b.kind, a.kind)
    BY <1>2, <1>5 DEF KindKind, KindSubsumes, NumLeaf
  <1>6. CASE a.kind # b.kind /\ ~KindSubsumes(a.kind, b.kind) /\ ~KindSubsumes(b.kind, a.kind)
    <2>1. ~Admits(KindKind(a, b), x) BY <1>6 DEF KindKind, Nil, Admits
    <2> QED BY <1>2, <1>6, <2>1 DEF KindSubsumes
  <1> QED BY <1>3, <1>4, <1>5, <1>6

LEMMA KindScalarForm ==
  ASSUME NEW k \in Kinds, NEW s \in Scalars
  PROVE  \/ ~KindSubsumes(k.kind, s.leaf) /\ KindScalar(k, s) = Nil
         \/ /\ KindSubsumes(k.kind, s.leaf)
            /\ KindScalar(k, s) \in Scalars /\ Shape(KindScalar(k, s)) = Shape(s)
            /\ KindScalar(k, s).ok => k.ok \/ s.ok
  BY FlaggedScalar DEF KindScalar

LEMMA KindScalarFine ==
  ASSUME NEW k \in Kinds, NEW s \in Scalars
  PROVE  Fine(KindScalar(k, s), k, s) /\ Fine(KindScalar(k, s), s, k)
  <1>1. CASE KindScalar(k, s) = Nil BY <1>1, NilFine
  <1>2. CASE /\ KindScalar(k, s) \in Scalars /\ Shape(KindScalar(k, s)) = Shape(s)
             /\ KindScalar(k, s).ok => k.ok \/ s.ok
    <2> DEFINE u == KindScalar(k, s)
    <2>1. PathScalar(u) => PathScalar(s) BY <1>2, ShapePath
    <2>2. u.is = "scalar" /\ s.is = "scalar" /\ k.is = "kind" BY <1>2, ScalarShape, KindShape
    <2>3. u \in LeafType BY <1>2, ScalarsAreLeaf
    <2>4. u.ok => k.ok \/ s.ok BY <1>2
    <2> HIDE DEF u
    <2>5. Waives(u) => Waives(k) \/ Waives(s) BY <2>2, <2>4 DEF Waives
    <2>6. Fine(u, k, s) /\ Fine(u, s, k) BY <2>1, <2>3, <2>5 DEF Fine
    <2> QED BY <2>6 DEF u
  <1> QED BY <1>1, <1>2, KindScalarForm

LEMMA KindScalarExact ==
  ASSUME NEW k \in Kinds, NEW s \in Scalars, ~PathScalar(s)
  PROVE  Exact(KindScalar(k, s), k, s) /\ Exact(KindScalar(k, s), s, k)
  <1> SUFFICES ASSUME NEW x \in Instance
               PROVE  Admits(KindScalar(k, s), x) <=> Admits(k, x) /\ Admits(s, x)
    BY DEF Exact, Heard
  <1>1. Admits(s, x) <=> x = Shape(s) BY ScalarAdmits
  <1>2. Admits(k, x) <=> KindSubsumes(k.kind, x.leaf) BY KindShape DEF Admits
  <1>3. Shape(s).leaf = s.leaf BY DEF Shape
  <1>4. CASE ~KindSubsumes(k.kind, s.leaf)
    <2>1. ~Admits(KindScalar(k, s), x) BY <1>4 DEF KindScalar, Nil, Admits
    <2> QED BY <1>1, <1>2, <1>3, <1>4, <2>1
  <1>5. CASE KindSubsumes(k.kind, s.leaf)
    <2>1. KindScalar(k, s) \in Scalars /\ Shape(KindScalar(k, s)) = Shape(s)
      BY <1>5, KindScalarForm
    <2>2. ~PathScalar(KindScalar(k, s)) BY <2>1, ShapePath
    <2>3. Admits(KindScalar(k, s), x) <=> x = Shape(KindScalar(k, s)) BY <2>1, <2>2, ScalarAdmits
    <2> QED BY <1>1, <1>2, <1>3, <1>5, <2>1, <2>3
  <1> QED BY <1>4, <1>5

LEMMA ScalarScalarForm ==
  ASSUME NEW a \in Scalars, NEW b \in Scalars
  PROVE  /\ ScalarScalar(a, b) = Nil \/ ScalarScalar(a, b) = a \/ ScalarScalar(a, b) = b
              \/ /\ SameScalar(a, b)
                 /\ ScalarScalar(a, b) = [a EXCEPT !.needs = a.needs \/ b.needs, !.ok = a.ok \/ b.ok]
         /\ ~PathScalar(a) \/ ~PathScalar(b) =>
              ScalarScalar(a, b) = IF SameScalar(a, b)
                                     THEN [a EXCEPT !.needs = a.needs \/ b.needs, !.ok = a.ok \/ b.ok]
                                     ELSE Nil
  BY ScalarShape DEF ScalarScalar, PrefixMeet, PathScalar

LEMMA SharedScalar ==
  ASSUME NEW a \in Scalars, NEW b \in Scalars, SameScalar(a, b)
  PROVE  LET u == [a EXCEPT !.needs = a.needs \/ b.needs, !.ok = a.ok \/ b.ok] IN
         u \in Scalars /\ Shape(u) = Shape(a) /\ (u.ok => a.ok \/ b.ok)
  BY DEF Scalars, Shape, SameScalar

LEMMA ScalarScalarFine ==
  ASSUME NEW a \in Scalars, NEW b \in Scalars
  PROVE  Fine(ScalarScalar(a, b), a, b)
  <1>1. CASE ScalarScalar(a, b) = Nil BY <1>1, NilFine
  <1>2. CASE ScalarScalar(a, b) = a \/ ScalarScalar(a, b) = b
    BY <1>2, ScalarsAreLeaf DEF Fine
  <1>3. CASE /\ SameScalar(a, b)
             /\ ScalarScalar(a, b) = [a EXCEPT !.needs = a.needs \/ b.needs, !.ok = a.ok \/ b.ok]
    <2> DEFINE u == [a EXCEPT !.needs = a.needs \/ b.needs, !.ok = a.ok \/ b.ok]
    <2>1. u \in Scalars /\ Shape(u) = Shape(a) /\ (u.ok => a.ok \/ b.ok) BY <1>3, SharedScalar
    <2> HIDE DEF u
    <2>2. PathScalar(u) => PathScalar(a) BY <2>1, ShapePath
    <2>3. Waives(u) => Waives(a) \/ Waives(b) BY <2>1, ScalarShape DEF Waives
    <2>4. u \in LeafType BY <2>1, ScalarsAreLeaf
    <2>5. Fine(u, a, b) BY <2>2, <2>3, <2>4 DEF Fine
    <2> QED BY <1>3, <2>5 DEF u
  <1> QED BY <1>1, <1>2, <1>3, ScalarScalarForm

LEMMA ScalarScalarExact ==
  ASSUME NEW a \in Scalars, NEW b \in Scalars, ~PathScalar(a), ~PathScalar(b)
  PROVE  Exact(ScalarScalar(a, b), a, b)
  <1> SUFFICES ASSUME NEW x \in Instance
               PROVE  Admits(ScalarScalar(a, b), x) <=> Admits(a, x) /\ Admits(b, x)
    BY DEF Exact, Heard
  <1>1. (Admits(a, x) <=> x = Shape(a)) /\ (Admits(b, x) <=> x = Shape(b)) BY ScalarAdmits
  <1>2. SameScalar(a, b) <=> Shape(a) = Shape(b) BY DEF SameScalar, Shape
  <1>3. CASE ~SameScalar(a, b)
    <2>1. ScalarScalar(a, b) = Nil BY <1>3, ScalarScalarForm
    <2> QED BY <1>1, <1>2, <1>3, <2>1, NilAdmits
  <1>4. CASE SameScalar(a, b)
    <2> DEFINE u == [a EXCEPT !.needs = a.needs \/ b.needs, !.ok = a.ok \/ b.ok]
    <2>1. ScalarScalar(a, b) = u BY <1>4, ScalarScalarForm
    <2>2. u \in Scalars /\ Shape(u) = Shape(a) BY <1>4, SharedScalar
    <2> HIDE DEF u
    <2>3. ~PathScalar(u) BY <2>2, ShapePath
    <2>4. Admits(u, x) <=> x = Shape(u) BY <2>2, <2>3, ScalarAdmits
    <2> QED BY <1>1, <1>2, <1>4, <2>1, <2>2, <2>4
  <1> QED BY <1>3, <1>4

(***************************************************************************)
(* empty() and any value.                                                  *)
(***************************************************************************)
LEMMA AllowEmptyForm ==
  ASSUME NEW r \in Residuals
  PROVE  AllowEmpty(r) = IF r.domain = "number" \/ r.kind # "none" \/ r.pathKind THEN Nil
                         ELSE Finish(Aside(r, "string", r.kind, r.nonEmpty, TRUE, r.pathKind))
  <1>1. r \in ResidualType BY ResidualIs
  <1>2. [r EXCEPT !.domain = "string", !.emptyOk = TRUE]
          = Aside(r, "string", r.kind, r.nonEmpty, TRUE, r.pathKind)
    BY <1>1 DEF Aside, ResidualType
  <1> QED BY <1>2 DEF AllowEmpty

LEMMA AllowEmptyRight ==
  ASSUME NEW r \in Residuals, ~(r.domain = "number" \/ r.kind # "none" \/ r.pathKind)
  PROVE  LET c == Aside(r, "string", r.kind, r.nonEmpty, TRUE, r.pathKind) IN
         /\ c \in ResidualType /\ WellFormed(c)
         /\ \A x \in Instance : ResidualAdmits(c, x)
              <=> /\ ResidualAdmits(r, x) /\ DomainOf(x) = "string"
                  /\ r.nonEmpty => x.leaf # "path"
  <1> DEFINE c == Aside(r, "string", "none", r.nonEmpty, TRUE, FALSE)
  <1>1. r \in ResidualType /\ WellFormed(r) BY ResidualIs
  <1>2. r.kind = "none" /\ r.pathKind = FALSE /\ r.nonEmpty \in BOOLEAN /\ (r.domain = "none" \/ r.domain = "string")
    BY <1>1 DEF ResidualType
  <1>3. TRUE \in BOOLEAN /\ FALSE \in BOOLEAN OBVIOUS
  <1>4. c \in ResidualType /\ WellFormed(c) BY <1>1, <1>2, <1>3, AsideType
  <1>5. \A x \in Instance : ResidualAdmits(c, x)
          <=> /\ ResidualAdmits(r, x) /\ DomainOf(x) = "string"
              /\ r.nonEmpty => x.leaf # "path"
    <2> DEFINE D == "string"
               K == "none"
               e == TRUE
               p == FALSE
    <2>1. /\ D \in {"number", "string"} /\ (r.domain = "none" \/ r.domain = D)
          /\ K \in NumLeaf \union {"none"} /\ K = "none" /\ (r.kind = "none" \/ r.kind = K)
          /\ e \in BOOLEAN /\ p \in BOOLEAN /\ ~p
          /\ (r.nonEmpty \/ e \/ p => D = "string") /\ (r.pathKind => p)
      BY <1>2
    <2>2. \A x \in Instance : ResidualAdmits(Aside(r, D, K, r.nonEmpty, e, p), x)
            <=> /\ ResidualAdmits(r, x) /\ DomainOf(x) = D
                /\ r.nonEmpty => x.leaf # "path"
      <3> HIDE DEF D, K, e, p
      <3> QED BY <1>1, <1>2, <2>1, AsideAdmits
    <2> QED BY <2>2
  <1>6. c = Aside(r, "string", r.kind, r.nonEmpty, TRUE, r.pathKind) BY <1>2
  <1> HIDE DEF c
  <1> QED BY <1>4, <1>5, <1>6

LEMMA MeetEmptyFine ==
  ASSUME NEW v \in LeafType
  PROVE  Fine(MeetEmpty(v), v, Empty) /\ Fine(MeetEmpty(v), Empty, v)
  <1>1. Waives(Empty) /\ ~PathScalar(Empty) BY DEF Waives, Empty, PathScalar
  <1> SUFFICES MeetEmpty(v) \in LeafType /\ (PathScalar(MeetEmpty(v)) => PathScalar(v))
    BY <1>1 DEF Fine
  <1>2. CASE v.is \in {"top", "nil", "empty"}
    <2>1. MeetEmpty(v) = v \/ MeetEmpty(v) = Empty BY <1>2 DEF MeetEmpty
    <2> QED BY <1>1, <2>1, LeafParts
  <1>3. CASE v.is = "kind"
    <2>1. v \in Kinds BY <1>3, LeafShape
    <2>2. CASE v.kind = "string"
      <3>1. MeetEmpty(v) = [v EXCEPT !.ok = TRUE] BY <1>3, <2>2 DEF MeetEmpty
      <3>2. [v EXCEPT !.ok = TRUE] \in Kinds BY <2>1, <2>2 DEF Kinds
      <3> QED BY <3>1, <3>2, KindShape, ScalarsAreLeaf DEF PathScalar
    <2>3. CASE v.kind # "string"
      <3>1. MeetEmpty(v) = Nil BY <1>3, <2>3 DEF MeetEmpty
      <3> QED BY <3>1, NilFine DEF Fine, PathScalar, Nil
    <2> QED BY <2>2, <2>3
  <1>4. CASE v.is = "scalar"
    <2>1. v \in Scalars BY <1>4, LeafShape
    <2>2. CASE v.leaf = "string"
      <3>1. MeetEmpty(v) = WithEmpty(v) BY <1>4, <2>2 DEF MeetEmpty
      <3>2. WithEmpty(v) \in Scalars /\ Shape(WithEmpty(v)) = Shape(v) BY <2>1, FlaggedScalar
      <3> QED BY <2>1, <3>1, <3>2, ShapePath, ScalarsAreLeaf
    <2>3. CASE v.leaf # "string"
      <3>1. MeetEmpty(v) = Nil BY <1>4, <2>3 DEF MeetEmpty
      <3> QED BY <3>1, NilFine DEF Fine, PathScalar, Nil
    <2> QED BY <2>2, <2>3
  <1>5. CASE v.is = "residual"
    <2>1. v \in Residuals BY <1>5, LeafShape
    <2>2. MeetEmpty(v) = AllowEmpty(v) BY <1>5 DEF MeetEmpty
    <2>3. CASE v.domain = "number" \/ v.kind # "none" \/ v.pathKind
      <3>1. AllowEmpty(v) = Nil BY <2>1, <2>3, AllowEmptyForm
      <3> QED BY <2>2, <3>1, NilFine DEF Fine, PathScalar, Nil
    <2>4. CASE ~(v.domain = "number" \/ v.kind # "none" \/ v.pathKind)
      <3> DEFINE c == Aside(v, "string", v.kind, v.nonEmpty, TRUE, v.pathKind)
      <3>1. AllowEmpty(v) = Finish(c) BY <2>1, <2>4, AllowEmptyForm
      <3>2. c \in ResidualType /\ WellFormed(c) BY <2>1, <2>4, AllowEmptyRight
      <3> HIDE DEF c
      <3>3. Finish(c) \in LeafType /\ ~PathScalar(Finish(c)) BY <3>2, FinishType DEF PathScalar
      <3> QED BY <2>2, <3>1, <3>3
    <2> QED BY <2>3, <2>4
  <1> QED BY <1>2, <1>3, <1>4, <1>5, LeafShape

LEMMA MeetEmptyExact ==
  ASSUME NEW v \in LeafType, v.is # "top", ~PathScalar(v)
  PROVE  Exact(MeetEmpty(v), v, Empty) /\ Exact(MeetEmpty(v), Empty, v)
  <1>1. Waives(Empty) /\ Empty.is = "empty" BY DEF Waives, Empty
  <1>2. \A x : Admits(Empty, x) <=> x.leaf = "string" BY <1>1 DEF Admits
  <1> SUFFICES ASSUME NEW x \in Instance, x.leaf # "path"
               PROVE  Admits(MeetEmpty(v), x) <=> Admits(v, x) /\ x.leaf = "string"
    BY <1>1, <1>2 DEF Exact, Heard
  <1>3. CASE v.is = "nil" BY <1>3, LeafShape DEF MeetEmpty, Nil, Admits
  <1>4. CASE v.is = "empty" BY <1>2, <1>4, LeafShape DEF MeetEmpty
  <1>5. CASE v.is = "kind"
    <2>1. v \in Kinds BY <1>5, LeafShape
    <2>2. Admits(v, x) <=> KindSubsumes(v.kind, x.leaf) BY <1>5 DEF Admits
    <2>3. CASE v.kind = "string"
      <3>1. MeetEmpty(v).is = "kind" /\ MeetEmpty(v).kind = "string"
        BY <1>5, <2>1, <2>3 DEF MeetEmpty, Kinds
      <3>2. Admits(MeetEmpty(v), x) <=> KindSubsumes("string", x.leaf) BY <3>1 DEF Admits
      <3> QED BY <2>2, <2>3, <3>2 DEF KindSubsumes
    <2>4. CASE v.kind # "string"
      <3>1. MeetEmpty(v) = Nil BY <1>5, <2>4 DEF MeetEmpty
      <3>2. ~(KindSubsumes(v.kind, x.leaf) /\ x.leaf = "string") BY <2>4 DEF KindSubsumes, NumLeaf
      <3> QED BY <2>2, <3>1, <3>2, NilAdmits
    <2> QED BY <2>3, <2>4
  <1>6. CASE v.is = "scalar"
    <2>1. v \in Scalars BY <1>6, LeafShape
    <2>2. Admits(v, x) <=> x = Shape(v) BY <2>1, ScalarAdmits
    <2>3. Shape(v).leaf = v.leaf BY DEF Shape
    <2>4. CASE v.leaf = "string"
      <3>1. MeetEmpty(v) = WithEmpty(v) BY <1>6, <2>4 DEF MeetEmpty
      <3>2. WithEmpty(v) \in Scalars /\ Shape(WithEmpty(v)) = Shape(v) BY <2>1, FlaggedScalar
      <3>3. ~PathScalar(WithEmpty(v)) BY <2>1, <3>2, ShapePath
      <3>4. Admits(WithEmpty(v), x) <=> x = Shape(v) BY <3>2, <3>3, ScalarAdmits
      <3> QED BY <2>2, <2>3, <2>4, <3>1, <3>4
    <2>5. CASE v.leaf # "string"
      <3>1. MeetEmpty(v) = Nil BY <1>6, <2>5 DEF MeetEmpty
      <3> QED BY <2>2, <2>3, <2>5, <3>1, NilAdmits
    <2> QED BY <2>4, <2>5
  <1>7. CASE v.is = "residual"
    <2>1. v \in Residuals /\ v \in ResidualType /\ WellFormed(v) BY <1>7, LeafShape, ResidualIs
    <2>2. MeetEmpty(v) = AllowEmpty(v) BY <1>7 DEF MeetEmpty
    <2>3. Admits(v, x) <=> ResidualAdmits(v, x) BY <1>7 DEF Admits
    <2>4. (x.leaf = "string" <=> DomainOf(x) = "string")
      BY DEF DomainOf, NumLeaf, TextLeaf
    <2>5. CASE v.domain = "number" \/ v.kind # "none" \/ v.pathKind
      <3>1. AllowEmpty(v) = Nil BY <2>1, <2>5, AllowEmptyForm
      <3>2. ASSUME ResidualAdmits(v, x), x.leaf = "string" PROVE FALSE
        <4>1. AdmitsScalar(v, x) BY <3>2 DEF ResidualAdmits
        <4>2. DomainOf(x) = "string" BY <2>4, <3>2
        <4>3. /\ v.domain # "none" => DomainOf(x) = v.domain
              /\ v.kind # "none" => x.leaf = v.kind
              /\ v.pathKind => x.leaf = "path"
          BY <2>1, <4>1, <4>2, AdmitsCore
        <4>4. v.kind # "none" => v.domain = "number" BY <2>1 DEF WellFormed
        <4> QED BY <2>5, <4>2, <4>3, <4>4
      <3> QED BY <2>2, <2>3, <3>1, <3>2, NilAdmits
    <2>6. CASE ~(v.domain = "number" \/ v.kind # "none" \/ v.pathKind)
      <3> DEFINE c == Aside(v, "string", v.kind, v.nonEmpty, TRUE, v.pathKind)
      <3>1. AllowEmpty(v) = Finish(c) BY <2>1, <2>6, AllowEmptyForm
      <3>2. /\ c \in ResidualType /\ WellFormed(c)
            /\ ResidualAdmits(c, x) <=> /\ ResidualAdmits(v, x) /\ DomainOf(x) = "string"
                                        /\ v.nonEmpty => x.leaf # "path"
        BY <2>1, <2>6, AllowEmptyRight
      <3> HIDE DEF c
      <3>3. Admits(Finish(c), x) <=> ResidualAdmits(c, x) BY <3>2, FinishAdmits
      <3> QED BY <2>2, <2>3, <2>4, <3>1, <3>2, <3>3
    <2> QED BY <2>5, <2>6
  <1> QED BY <1>3, <1>4, <1>5, <1>6, <1>7, LeafShape

(***************************************************************************)
(* unite: whichever rule it dispatches to.                                 *)
(***************************************************************************)
LEMMA UniteCases ==
  ASSUME NEW a \in LeafType, NEW b \in LeafType
  PROVE  \/ b = Top /\ Unite(a, b) = a
         \/ a = Top /\ Unite(a, b) = b
         \/ a = Nil /\ Unite(a, b) = Nil
         \/ b = Nil /\ Unite(a, b) = Nil
         \/ b = Empty /\ a # Top /\ a.is # "top" /\ Unite(a, b) = MeetEmpty(a)
         \/ a = Empty /\ b # Top /\ b.is # "top" /\ Unite(a, b) = MeetEmpty(b)
         \/ a \in Residuals /\ b \in Residuals /\ Unite(a, b) = MeetConstraint(a, b)
         \/ a \in Residuals /\ b \in Kinds /\ Unite(a, b) = MeetKind(a, b)
         \/ a \in Kinds /\ b \in Residuals /\ Unite(a, b) = MeetKind(b, a)
         \/ a \in Residuals /\ b \in Scalars /\ Unite(a, b) = Admit(a, b)
         \/ a \in Scalars /\ b \in Residuals /\ Unite(a, b) = Admit(b, a)
         \/ a \in Kinds /\ b \in Kinds /\ Unite(a, b) = KindKind(a, b)
         \/ a \in Kinds /\ b \in Scalars /\ Unite(a, b) = KindScalar(a, b)
         \/ a \in Scalars /\ b \in Kinds /\ Unite(a, b) = KindScalar(b, a)
         \/ a \in Scalars /\ b \in Scalars /\ Unite(a, b) = ScalarScalar(a, b)
  <1>1. CASE b.is = "top" BY <1>1, LeafShape DEF Unite
  <1>2. CASE b.is # "top" /\ a.is = "top" BY <1>2, LeafShape DEF Unite
  <1>3. CASE b.is # "top" /\ a.is = "nil" BY <1>3, LeafShape DEF Unite
  <1>4. CASE a.is \notin {"top", "nil"} /\ b.is = "nil" BY <1>4, LeafShape DEF Unite
  <1>5. CASE a.is \notin {"top", "nil"} /\ b.is = "empty"
    <2>1. a # Top BY <1>5 DEF Top
    <2> QED BY <1>5, <2>1, LeafShape DEF Unite
  <1>6. CASE a.is = "empty" /\ b.is \notin {"top", "nil", "empty"}
    <2>1. b # Top BY <1>6 DEF Top
    <2> QED BY <1>6, <2>1, LeafShape DEF Unite
  <1>7. CASE a.is = "residual" /\ b.is \in {"residual", "kind", "scalar"}
    BY <1>7, LeafShape DEF Unite
  <1>8. CASE a.is = "kind" /\ b.is \in {"residual", "kind", "scalar"}
    BY <1>8, LeafShape DEF Unite
  <1>9. CASE a.is = "scalar" /\ b.is \in {"residual", "kind", "scalar"}
    BY <1>9, LeafShape DEF Unite
  <1> QED BY <1>1, <1>2, <1>3, <1>4, <1>5, <1>6, <1>7, <1>8, <1>9, LeafShape

LEMMA UniteFine ==
  ASSUME NEW a \in LeafType, NEW b \in LeafType
  PROVE  Fine(Unite(a, b), a, b)
  <1>1. Fine(a, a, b) /\ Fine(b, a, b) BY DEF Fine
  <1>2. \A u : Fine(u, b, a) => Fine(u, a, b) BY DEF Fine
  <1>3. CASE Unite(a, b) \in {a, b, Nil} BY <1>1, <1>3, NilFine
  <1>4. CASE b = Empty /\ Unite(a, b) = MeetEmpty(a) BY <1>4, MeetEmptyFine
  <1>5. CASE a = Empty /\ Unite(a, b) = MeetEmpty(b) BY <1>5, MeetEmptyFine
  <1>6. CASE a \in Residuals /\ b \in Residuals /\ Unite(a, b) = MeetConstraint(a, b)
    BY <1>6, ConstraintFine
  <1>7. CASE a \in Residuals /\ b \in Kinds /\ Unite(a, b) = MeetKind(a, b) BY <1>7, MeetKindFine
  <1>8. CASE a \in Kinds /\ b \in Residuals /\ Unite(a, b) = MeetKind(b, a) BY <1>8, MeetKindFine
  <1>9. CASE a \in Residuals /\ b \in Scalars /\ Unite(a, b) = Admit(a, b) BY <1>9, AdmitFine
  <1>10. CASE a \in Scalars /\ b \in Residuals /\ Unite(a, b) = Admit(b, a) BY <1>10, AdmitFine
  <1>11. CASE a \in Kinds /\ b \in Kinds /\ Unite(a, b) = KindKind(a, b) BY <1>11, KindKindFine
  <1>12. CASE a \in Kinds /\ b \in Scalars /\ Unite(a, b) = KindScalar(a, b)
    BY <1>12, KindScalarFine
  <1>13. CASE a \in Scalars /\ b \in Kinds /\ Unite(a, b) = KindScalar(b, a)
    BY <1>13, KindScalarFine
  <1>14. CASE a \in Scalars /\ b \in Scalars /\ Unite(a, b) = ScalarScalar(a, b)
    BY <1>14, ScalarScalarFine
  <1> QED
    BY <1>3, <1>4, <1>5, <1>6, <1>7, <1>8, <1>9, <1>10, <1>11, <1>12, <1>13, <1>14, UniteCases

\* The meet of two values admits exactly what both admit.
THEOREM UniteExact ==
  ASSUME NEW a \in LeafType, NEW b \in LeafType, ~PathScalar(a), ~PathScalar(b)
  PROVE  Exact(Unite(a, b), a, b)
  <1>1. \A u : Exact(u, b, a) => Exact(u, a, b) BY DEF Exact, Heard
  <1>2. \A x : Admits(Top, x) BY DEF Top, Admits
  <1>3. CASE b = Top /\ Unite(a, b) = a BY <1>2, <1>3 DEF Exact
  <1>4. CASE a = Top /\ Unite(a, b) = b BY <1>2, <1>4 DEF Exact
  <1>5. CASE (a = Nil \/ b = Nil) /\ Unite(a, b) = Nil BY <1>5, NilAdmits DEF Exact
  <1>6. CASE b = Empty /\ a.is # "top" /\ Unite(a, b) = MeetEmpty(a) BY <1>6, MeetEmptyExact
  <1>7. CASE a = Empty /\ b.is # "top" /\ Unite(a, b) = MeetEmpty(b) BY <1>7, MeetEmptyExact
  <1>8. CASE a \in Residuals /\ b \in Residuals /\ Unite(a, b) = MeetConstraint(a, b)
    BY <1>8, ConstraintExact
  <1>9. CASE a \in Residuals /\ b \in Kinds /\ Unite(a, b) = MeetKind(a, b) BY <1>9, MeetKindExact
  <1>10. CASE a \in Kinds /\ b \in Residuals /\ Unite(a, b) = MeetKind(b, a)
    BY <1>10, MeetKindExact
  <1>11. CASE a \in Residuals /\ b \in Scalars /\ Unite(a, b) = Admit(a, b) BY <1>11, AdmitExact
  <1>12. CASE a \in Scalars /\ b \in Residuals /\ Unite(a, b) = Admit(b, a) BY <1>12, AdmitExact
  <1>13. CASE a \in Kinds /\ b \in Kinds /\ Unite(a, b) = KindKind(a, b) BY <1>13, KindKindExact
  <1>14. CASE a \in Kinds /\ b \in Scalars /\ Unite(a, b) = KindScalar(a, b)
    BY <1>14, KindScalarExact
  <1>15. CASE a \in Scalars /\ b \in Kinds /\ Unite(a, b) = KindScalar(b, a)
    BY <1>15, KindScalarExact
  <1>16. CASE a \in Scalars /\ b \in Scalars /\ Unite(a, b) = ScalarScalar(a, b)
    BY <1>16, ScalarScalarExact
  <1> QED
    BY <1>3, <1>4, <1>5, <1>6, <1>7, <1>8, <1>9, <1>10, <1>11, <1>12, <1>13, <1>14, <1>15, <1>16,
       UniteCases

(***************************************************************************)
(* The document's parts.                                                   *)
(***************************************************************************)
\* A part waives only what an empty() it met waived, and is a path only
\* where it met one.
PartInv ==
  \A p \in Part :
    /\ Waives(val[p]) => Empty \in met[p]
    /\ Lawful(met[p]) => ~PathScalar(val[p])

IInv == TypeOK /\ PartInv /\ MeetIsExact

LEMMA LawfulUnion ==
  ASSUME NEW A, NEW B
  PROVE  Lawful(A \union B) <=> Lawful(A) /\ Lawful(B)
  BY DEF Lawful, PathValues

LEMMA LawfulTerm == ASSUME NEW t PROVE Lawful({t}) <=> ~PathScalar(t)
  BY DEF Lawful, PathValues, PathScalar

\* What a value that has met the terms A says of them.
Means(a, A) ==
  /\ a \in LeafType
  /\ Waives(a) => Empty \in A
  /\ Lawful(A) => ~PathScalar(a)
  /\ Lawful(A) =>
       \A x \in Sample : Settled(A, x) => (Admits(a, x) <=> \A t \in A : Admits(t, x))

LEMMA UniteMeans ==
  ASSUME NEW a, NEW A, Means(a, A), NEW b, NEW B, Means(b, B),
         NEW v, v = Unite(a, b) \/ v = Unite(b, a)
  PROVE  Means(v, A \union B)
  <1>1. a \in LeafType /\ b \in LeafType BY DEF Means
  <1>2. Fine(v, a, b)
    <2>1. Fine(Unite(a, b), a, b) /\ Fine(Unite(b, a), b, a) BY <1>1, UniteFine
    <2> QED BY <2>1 DEF Fine
  <1>3. v \in LeafType /\ (Waives(v) => Empty \in A \union B) BY <1>2 DEF Fine, Means
  <1>4. Lawful(A \union B) => ~PathScalar(v) BY <1>2, LawfulUnion DEF Fine, Means
  <1>5. ASSUME Lawful(A \union B), NEW x \in Sample, Settled(A \union B, x)
        PROVE  Admits(v, x) <=> \A t \in A \union B : Admits(t, x)
    <2>1. Lawful(A) /\ Lawful(B) BY <1>5, LawfulUnion
    <2>2. ~PathScalar(a) /\ ~PathScalar(b) BY <2>1 DEF Means
    <2>3. Exact(v, a, b)
      <3>1. Exact(Unite(a, b), a, b) /\ Exact(Unite(b, a), b, a) BY <1>1, <2>2, UniteExact
      <3> QED BY <3>1 DEF Exact, Heard
    <2>4. Settled(A, x) /\ Settled(B, x) BY <1>5 DEF Settled
    <2>5. x \in Instance BY TermsAssumption
    <2>6. Heard(a, b, x) BY <1>5, <2>5 DEF Heard, Settled, Means
    <2>7. Admits(v, x) <=> Admits(a, x) /\ Admits(b, x) BY <2>3, <2>6 DEF Exact
    <2>8. Admits(a, x) <=> \A t \in A : Admits(t, x) BY <2>1, <2>4 DEF Means
    <2>9. Admits(b, x) <=> \A t \in B : Admits(t, x) BY <2>1, <2>4 DEF Means
    <2> QED BY <2>7, <2>8, <2>9
  <1> QED BY <1>3, <1>4, <1>5 DEF Means

LEMMA PartMeans ==
  ASSUME TypeOK, PartInv, MeetIsExact, NEW p \in Part
  PROVE  Means(val[p], met[p])
  BY DEF TypeOK, PartInv, MeetIsExact, Means

LEMMA InitIInv == Init => IInv
  <1> SUFFICES ASSUME Init PROVE IInv OBVIOUS
  <1>1. \A p \in Part : val[p] = Top /\ met[p] = {} BY DEF Init
  <1>2. TypeOK BY LeafParts DEF Init, TypeOK
  <1>3. ~Waives(Top) /\ ~PathScalar(Top) BY DEF Waives, Top, PathScalar
  <1>4. PartInv BY <1>1, <1>3 DEF PartInv
  <1>5. \A x : Admits(Top, x) BY DEF Top, Admits
  <1>6. MeetIsExact BY <1>1, <1>5 DEF MeetIsExact
  <1> QED BY <1>2, <1>4, <1>6 DEF IInv

\* A term has met itself alone, and any nothing.
LEMMA TermMeans == ASSUME NEW t \in Terms PROVE Means(t, {t})
  BY TermsAssumption, LawfulTerm DEF Means

LEMMA TopMeans == Means(Top, {})
  <1>1. \A x : Admits(Top, x) BY DEF Top, Admits
  <1>2. ~Waives(Top) /\ ~PathScalar(Top) BY DEF Waives, Top, PathScalar
  <1> QED BY <1>1, <1>2, LeafParts DEF Means

LEMMA PartsMean ==
  ASSUME TypeOK', \A p \in Part : Means(val'[p], met'[p])
  PROVE  IInv'
  BY DEF IInv, PartInv, MeetIsExact, Means

LEMMA WriteIInv ==
  ASSUME IInv, NEW q \in Part, NEW t \in Terms, Write(q, t)
  PROVE  IInv'
  <1>1. TypeOK /\ PartInv /\ MeetIsExact BY DEF IInv
  <1>2. PICK v \in {Unite(val[q], t), Unite(t, val[q])} : val' = [val EXCEPT ![q] = v] BY DEF Write
  <1>3. met' = [met EXCEPT ![q] = met[q] \union {t}] BY DEF Write
  <1>4. Means(val[q], met[q]) /\ Means(t, {t}) BY <1>1, PartMeans, TermMeans
  <1>5. Means(v, met[q] \union {t}) BY <1>2, <1>4, UniteMeans
  <1>6. \A p \in Part : val'[p] = (IF p = q THEN v ELSE val[p])
                        /\ met'[p] = (IF p = q THEN met[q] \union {t} ELSE met[p])
    BY <1>1, <1>2, <1>3 DEF TypeOK
  <1>7. TypeOK'
    <2>1. met[q] \union {t} \in SUBSET Terms BY <1>1 DEF TypeOK
    <2>2. v \in LeafType BY <1>5 DEF Means
    <2> QED BY <1>1, <1>2, <1>3, <2>1, <2>2 DEF TypeOK
  <1>8. ASSUME NEW p \in Part PROVE Means(val'[p], met'[p])
    <2>1. Means(val[p], met[p]) BY <1>1, PartMeans
    <2> QED BY <1>5, <1>6, <2>1
  <1> QED BY <1>7, <1>8, PartsMean

LEMMA JoinIInv == ASSUME IInv, Join PROVE IInv'
  <1>1. TypeOK /\ PartInv /\ MeetIsExact BY DEF IInv
  <1> DEFINE v == Unite(val["left"], val["right"])
             A == met["left"] \union met["right"]
  <1>2. "left" \in Part /\ "right" \in Part BY DEF Part
  <1>3. Means(val["left"], met["left"]) /\ Means(val["right"], met["right"])
    BY <1>1, <1>2, PartMeans
  <1>4. Means(v, A) BY <1>3, UniteMeans
  <1>5. /\ val' = [val EXCEPT !["left"] = v, !["right"] = Top]
        /\ met' = [met EXCEPT !["left"] = A, !["right"] = {}]
    BY DEF Join
  <1>6. A \in SUBSET Terms BY <1>1, <1>2 DEF TypeOK
  <1> HIDE DEF v, A
  <1>7. /\ val'["left"] = v /\ val'["right"] = Top
        /\ met'["left"] = A /\ met'["right"] = {}
    BY <1>1, <1>2, <1>5 DEF TypeOK
  <1>8. TypeOK'
    <2>1. v \in LeafType BY <1>4 DEF Means
    <2> QED BY <1>1, <1>5, <1>6, <2>1, LeafParts DEF TypeOK
  <1>9. ASSUME NEW p \in Part PROVE Means(val'[p], met'[p])
    BY <1>4, <1>7, TopMeans DEF Part
  <1> QED BY <1>8, <1>9, PartsMean

LEMMA StutterIInv == ASSUME IInv, UNCHANGED vars PROVE IInv'
  BY DEF vars, IInv, TypeOK, PartInv, MeetIsExact

\* IInv is inductive.
THEOREM Invariance == Spec => []IInv
  <1>1. Init => IInv BY InitIInv
  <1>2. IInv /\ [Next]_vars => IInv'
    <2> SUFFICES ASSUME IInv, [Next]_vars PROVE IInv' OBVIOUS
    <2>1. CASE Next BY <2>1, WriteIInv, JoinIInv DEF Next
    <2>2. CASE UNCHANGED vars BY <2>2, StutterIInv
    <2> QED BY <2>1, <2>2
  <1> QED BY <1>1, <1>2, PTL DEF Spec

(***************************************************************************)
(* Every meet of values is a value: no residual that is empty, none with   *)
(* an end, an exclusion or a divisor outside its domain.                   *)
(***************************************************************************)
THEOREM MeetTypes == Spec => []TypeOK
  <1>1. IInv => TypeOK BY DEF IInv
  <1> QED BY <1>1, Invariance, PTL

(***************************************************************************)
(* Whatever the terms of a document and however they are ordered and       *)
(* grouped, the meet admits exactly the values every term admits.          *)
(***************************************************************************)
THEOREM MeetExactness == Spec => []MeetIsExact
  <1>1. IInv => MeetIsExact BY DEF IInv
  <1> QED BY <1>1, Invariance, PTL

(***************************************************************************)
(* Subsumption.  Blank is the string "", the one value whose refusal is    *)
(* decided by the flags.                                                   *)
(***************************************************************************)
Blank == [leaf |-> "string", v |-> 0]

LEMMA TakesForm ==
  ASSUME NEW a, NEW x
  PROVE  Takes(a, x) <=> Admits(a, x) /\ ~(x = Blank /\ RefusesEmpty(a))
  BY DEF Takes, Blank

LEMMA RefusesForm ==
  /\ \A k \in Kinds : RefusesEmpty(k) <=> k.kind = "string" /\ ~k.ok
  /\ \A s \in Scalars : RefusesEmpty(s) <=> s.needs /\ ~s.ok
  /\ \A r \in Residuals : RefusesEmpty(r) <=> r.nonEmpty /\ ~r.emptyOk
  <1>1. ASSUME NEW k \in Kinds PROVE RefusesEmpty(k) <=> k.kind = "string" /\ ~k.ok
    <2>1. k.is = "kind" BY KindShape
    <2> QED BY <2>1 DEF RefusesEmpty, Needs, Waives
  <1>2. ASSUME NEW s \in Scalars PROVE RefusesEmpty(s) <=> s.needs /\ ~s.ok
    <2>1. s.is = "scalar" BY ScalarShape
    <2> QED BY <2>1 DEF RefusesEmpty, Needs, Waives
  <1>3. ASSUME NEW r \in Residuals PROVE RefusesEmpty(r) <=> r.nonEmpty /\ ~r.emptyOk
    <2>1. r.is = "residual" BY ResidualIs
    <2> QED BY <2>1 DEF RefusesEmpty, Needs, Waives
  <1> QED BY <1>1, <1>2, <1>3

LEMMA KindCoversKind ==
  ASSUME NEW g \in Kinds, NEW s \in Kinds, KindCovers(g, s), NEW x \in Instance, Takes(s, x)
  PROVE  Takes(g, x)
  <1>1. g.is = "kind" /\ s.is = "kind" BY KindShape
  <1>2. KindSubsumes(g.kind, s.kind) /\ ~(g.kind = "string" /\ ~g.ok /\ s.ok)
    BY <1>1 DEF KindCovers
  <1>3. KindSubsumes(s.kind, x.leaf) BY <1>1, TakesForm DEF Admits
  <1>4. KindSubsumes(g.kind, x.leaf) BY <1>2, <1>3 DEF KindSubsumes, NumLeaf
  <1>5. Admits(g, x) BY <1>1, <1>4 DEF Admits
  <1>6. RefusesEmpty(g) => RefusesEmpty(s)
    BY <1>2, RefusesForm, KindShape DEF KindSubsumes, NumLeaf
  <1> QED BY <1>5, <1>6, TakesForm

LEMMA KindCoversScalar ==
  ASSUME NEW g \in Kinds, NEW s \in Scalars, ~PathScalar(s), KindCovers(g, s),
         NEW x \in Instance, Takes(s, x)
  PROVE  Takes(g, x)
  <1>1. g.is = "kind" /\ s.is = "scalar" BY KindShape, ScalarShape
  <1>2. /\ KindSubsumes(g.kind, s.leaf)
        /\ ~(g.kind = "string" /\ ~g.ok /\ (s.ok \/ (s.leaf = "string" /\ s.v = 0)))
    BY <1>1 DEF KindCovers
  <1>3. x = Shape(s) BY ScalarAdmits, TakesForm
  <1>4. x.leaf = s.leaf /\ x.v = s.v BY <1>3 DEF Shape
  <1>5. Admits(g, x) BY <1>1, <1>2, <1>4 DEF Admits
  <1>6. x = Blank => s.leaf = "string" /\ s.v = 0 BY <1>4 DEF Blank
  <1>7. ~(x = Blank /\ RefusesEmpty(g)) BY <1>2, <1>6, RefusesForm
  <1> QED BY <1>5, <1>7, TakesForm

\* Strings under a residual the code calls inside the string kind.
LEMMA InsideStringAdmits ==
  ASSUME NEW s \in Residuals, s.domain = "string", InsideString(s), NEW x \in Instance, Takes(s, x)
  PROVE  x.leaf = "string" /\ x # Blank
  <1>1. s \in ResidualType /\ WellFormed(s) /\ s.is = "residual" BY ResidualIs
  <1>2. ResidualAdmits(s, x) BY <1>1, TakesForm DEF Admits
  <1>3. AdmitsScalar(s, x) /\ DomainOf(x) = "string"
    BY <1>2 DEF ResidualAdmits, AdmitsContainer, AdmitsScalar, StateAdmits
  <1>4. x.leaf \in TextLeaf BY <1>3 DEF DomainOf
  <1>5. CASE s.nonEmpty /\ ~s.emptyOk
    <2>1. x.leaf # "path" BY <1>3, <1>5 DEF AdmitsScalar
    <2>2. x # Blank BY <1>5, TakesForm, RefusesForm
    <2> QED BY <1>4, <2>1, <2>2 DEF TextLeaf
  <1>6. CASE /\ ~(AdmitsScalar(s, Blank) /\ ~(s.nonEmpty /\ ~s.emptyOk))
             /\ s.lo.on /\ s.lo.at.v >= AfterDot
    <2>1. x # Blank BY <1>3, <1>6, TakesForm, RefusesForm
    <2>2. s.lo.at.v \in Int BY <1>1, EndsShape DEF ResidualType
    <2>3. x.v \in Int /\ (x.v > s.lo.at.v \/ x.v = s.lo.at.v)
      BY <1>3, <1>6, InstanceShape DEF AdmitsScalar, StateAdmits, Inside, AboveLo
    <2>4. x.leaf # "path"
      <3>1. SUFFICES ASSUME x.leaf = "path" PROVE FALSE OBVIOUS
      <3>2. x \in Point BY <1>4, InstanceShape
      <3>3. x.v \in Address BY <3>1, <3>2, PointShape
      <3>4. x.v < AfterDot /\ AfterDot \in Int BY <3>3, AddressAssumption
      <3> QED BY <1>6, <2>2, <2>3, <3>4
    <2> QED BY <1>4, <2>1, <2>4 DEF TextLeaf
  <1> QED BY <1>5, <1>6 DEF InsideString, Blank

LEMMA KindCoversResidual ==
  ASSUME NEW g \in Kinds, NEW s \in Residuals, KindCovers(g, s), NEW x \in Instance, Takes(s, x),
         ~(x.leaf = "path" /\ Waives(g))
  PROVE  Takes(g, x)
  <1>1. s \in ResidualType /\ WellFormed(s) /\ s.is = "residual" /\ g.is = "kind"
    BY ResidualIs, KindShape
  <1>2. ResidualAdmits(s, x) BY <1>1, TakesForm DEF Admits
  <1>3. RefusesEmpty(g) => g.kind = "string" /\ ~g.ok BY RefusesForm
  <1>4. CASE s.domain = "number" /\ (g.kind = "number" \/ g.kind = s.kind)
    <2>1. DomainOf(x) = "number" /\ (s.kind # "none" => x.leaf = s.kind)
      BY <1>2, <1>4 DEF ResidualAdmits, AdmitsContainer, AdmitsScalar, StateAdmits, Inside
    <2>2. g.kind # "string" /\ (g.kind = s.kind => g.kind \in NumLeaf)
      BY <1>1, <1>4, KindShape DEF ResidualType, NumLeaf
    <2>3. g.kind = "number" \/ (g.kind \in NumLeaf /\ x.leaf = g.kind)
      BY <1>4, <2>1, <2>2 DEF NumLeaf
    <2>4. Admits(g, x) BY <2>1, <2>3, KindAdmits
    <2> QED BY <1>3, <2>2, <2>4, TakesForm
  <1>5. CASE /\ s.domain = "string" /\ g.kind = "string" /\ ~s.pathKind
             /\ IF g.kind = "string" /\ ~g.ok THEN InsideString(s) ELSE RefusesPaths(s)
    <2>1. DomainOf(x) = "string"
      BY <1>2, <1>5 DEF ResidualAdmits, AdmitsContainer, AdmitsScalar, StateAdmits
    <2>2. CASE ~g.ok
      <3>1. x.leaf = "string" /\ x # Blank BY <1>5, <2>2, InsideStringAdmits
      <3> QED BY <1>5, <2>1, <3>1, KindAdmits, TakesForm
    <2>3. CASE g.ok
      <3>1. x.leaf # "path" BY <1>1, <2>3 DEF Waives
      <3> QED BY <1>3, <1>5, <2>1, <2>3, <3>1, KindAdmits, TakesForm
    <2> QED BY <2>2, <2>3
  <1>6. CASE g.kind = "path" /\ s.pathKind
    <2>1. s.domain = "string" BY <1>1, <1>6 DEF WellFormed
    <2>2. x.leaf = "path"
      BY <1>2, <1>6, <2>1 DEF ResidualAdmits, AdmitsContainer, AdmitsScalar
    <2> QED BY <1>3, <1>6, <2>2, KindAdmits, TakesForm
  <1> QED BY <1>1, <1>4, <1>5, <1>6 DEF KindCovers

LEMMA KindStateAdmits ==
  ASSUME NEW k \in NumLeaf \union {"number"}, NEW x \in Instance, KindSubsumes(k, x.leaf)
  PROVE  KindState(k) \in ResidualType /\ WellFormed(KindState(k)) /\ ResidualAdmits(KindState(k), x)
  <1> DEFINE c == KindState(k)
  <1>1. NoCount \in CountType
    <2>1. CountVal(0) \in Point BY CountPoint
    <2>2. At(CountVal(0), FALSE) \in Ends BY <2>1 DEF At, Ends, Bound
    <2>3. NoBound \in Ends BY DEF Ends
    <2>4. {} \in SUBSET Point OBVIOUS
    <2> HIDE DEF NoBound
    <2> QED BY <2>2, <2>3, <2>4, Zenon DEF CountType, NoCount
  <1>2. OfDomain(NoCount, "number")
    <2>1. DomainOf(CountVal(0)) = "number" BY DEF CountVal, DomainOf, NumLeaf
    <2> QED BY <2>1 DEF OfDomain, NoCount, At, NoBound
  <1>3. /\ c.domain = "number" /\ c.kind = (IF k \in NumLeaf THEN k ELSE "none")
        /\ c.lo = NoBound /\ c.hi = NoBound /\ c.neqs = {} /\ c.mults = {} /\ c.tests = {}
        /\ c.count = NoCount /\ c.uniq = FALSE /\ c.keys = {} /\ c.contains = {} /\ c.rests = {}
        /\ c.checks = {} /\ c.nonEmpty = FALSE /\ c.emptyOk = FALSE /\ c.pathKind = FALSE
    BY DEF KindState, Free
  <1>4. c \in ResidualType
    <2>1. NoBound \in Ends BY DEF Ends
    <2>2. (IF k \in NumLeaf THEN k ELSE "none") \in NumLeaf \union {"none"} OBVIOUS
    <2> HIDE DEF NoBound, NoCount
    <2> QED BY <1>1, <2>1, <2>2 DEF KindState, Free, ResidualType
  <1> HIDE DEF c
  <1>5. WellFormed(c)
    <2>1. OfDomain(c, "number") BY <1>3 DEF OfDomain, NoBound
    <2> QED BY <1>2, <1>3, <2>1 DEF WellFormed
  <1>6. ~NoCount.on /\ ~NoBound.on BY DEF NoCount, NoBound
  <1>7. x.leaf \in NumLeaf /\ (k \in NumLeaf => x.leaf = k)
    BY InstanceShape DEF KindSubsumes, NumLeaf, Leaf, TextLeaf
  <1>8. AdmitsScalar(c, x)
    BY <1>3, <1>6, <1>7 DEF AdmitsScalar, StateAdmits, Inside, AboveLo, BelowHi, Passes, DomainOf,
                            NumLeaf
  <1>9. x.leaf # "bag" BY <1>7 DEF NumLeaf
  <1>10. ResidualAdmits(c, x) BY <1>8, <1>9 DEF ResidualAdmits
  <1> QED BY <1>4, <1>5, <1>10 DEF c

LEMMA AboveStringAdmits ==
  ASSUME NEW g \in Residuals, NEW strict \in BOOLEAN, AboveString(g, strict),
         NEW x \in Instance, x.leaf = "string", strict => x # Blank
  PROVE  ResidualAdmits(g, x) /\ ~(x = Blank /\ RefusesEmpty(g))
  <1>1. g \in ResidualType /\ WellFormed(g) BY ResidualIs
  <1>2. /\ g.domain \in {"none", "string"} /\ g.kind = "none" /\ ~g.pathKind
        /\ ~g.hi.on /\ ~g.count.on /\ ~g.uniq /\ g.keys = {}
        /\ g.tests = {} /\ g.checks = {} /\ g.contains = {} /\ g.rests = {}
        /\ g.lo.on => g.lo.at.v = 0 /\ (strict \/ ~g.lo.open)
        /\ strict \/ ~(g.nonEmpty /\ ~g.emptyOk)
        /\ \A n \in g.neqs : n.leaf = "string" => strict /\ n.v = 0
    BY DEF AboveString, OpaqueAtoms
  <1>3. DomainOf(x) = "string" BY DEF DomainOf, NumLeaf, TextLeaf
  <1>4. x.v \in Nat /\ x = [leaf |-> x.leaf, v |-> x.v]
    <2>1. x \in Point BY InstanceShape DEF TextLeaf
    <2>2. x.v \in Spelling BY <2>1, PointShape
    <2> QED BY <2>2, SpellingAssumption, InstanceShape
  <1>5. strict => x.v # 0 BY <1>4 DEF Blank
  <1>6. AboveLo(g.lo, x.v) BY <1>2, <1>4, <1>5 DEF AboveLo
  <1>7. [leaf |-> x.leaf, v |-> x.v] \notin g.neqs BY <1>2, <1>5
  <1>8. g.mults = {} BY <1>1, <1>2 DEF WellFormed, OfDomain
  <1>9. Core(g, x) BY <1>2, <1>6, <1>7, <1>8 DEF Core, BelowHi, Passes
  <1>10. AdmitsScalar(g, x) BY <1>1, <1>2, <1>3, <1>9, AdmitsCore
  <1>11. ~(x = Blank /\ RefusesEmpty(g)) BY <1>2, RefusesForm
  <1> QED BY <1>10, <1>11 DEF ResidualAdmits

LEMMA ConstraintCoversAll ==
  ASSUME NEW g \in Residuals, NEW s \in LeafType, ~PathScalar(s), ConstraintCovers(g, s),
         NEW x \in Instance, Takes(s, x), ~(x.leaf = "path" /\ Waives(g))
  PROVE  Takes(g, x)
  <1>1. g \in ResidualType /\ WellFormed(g) /\ g.is = "residual" BY ResidualIs
  <1>2. Admits(g, x) <=> ResidualAdmits(g, x) BY <1>1 DEF Admits
  <1>3. x.leaf = "path" => ~g.emptyOk BY <1>1 DEF Waives
  <1>4. CASE s.is = "residual"
    <2>1. s \in Residuals /\ s \in ResidualType /\ WellFormed(s) BY <1>4, LeafShape, ResidualIs
    <2>2. CASE g = s BY <2>2
    <2>3. CASE ResidualCovers(g, s)
      <3>1. ResidualAdmits(s, x) BY <1>4, TakesForm DEF Admits
      <3>2. ResidualAdmits(g, x) BY <1>1, <1>3, <2>1, <2>3, <3>1, CoversAdmits
      <3>3. RefusesEmpty(g) => RefusesEmpty(s) BY <2>1, <2>3, RefusesForm DEF ResidualCovers
      <3> QED BY <1>2, <3>2, <3>3, TakesForm
    <2> QED BY <1>4, <2>2, <2>3 DEF ConstraintCovers
  <1>5. CASE s.is = "scalar"
    <2>1. s \in Scalars BY <1>5, LeafShape
    <2>2. /\ AdmitsScalar(g, s)
          /\ ~(g.nonEmpty /\ ~g.emptyOk /\ s.leaf = "string" /\ s.v = 0)
      BY <1>5 DEF ConstraintCovers
    <2>3. x = Shape(s) BY <2>1, ScalarAdmits, TakesForm
    <2>4. x.leaf = s.leaf /\ x.v = s.v /\ s.leaf # "bag" BY <2>1, <2>3, ScalarShape DEF Shape
    <2>5. AdmitsScalar(g, x) BY <2>2, <2>3, SameVerdict
    <2>6. ResidualAdmits(g, x) BY <2>4, <2>5 DEF ResidualAdmits
    <2>7. ~(x = Blank /\ RefusesEmpty(g)) BY <2>2, <2>4, RefusesForm DEF Blank
    <2> QED BY <1>2, <2>6, <2>7, TakesForm
  <1>6. CASE s.is = "kind"
    <2>1. s \in Kinds BY <1>6, LeafShape
    <2>2. KindSubsumes(s.kind, x.leaf) BY <1>6, TakesForm DEF Admits
    <2>3. CASE s.kind \in NumLeaf \union {"number"} /\ ResidualCovers(g, KindState(s.kind))
      <3>1. /\ KindState(s.kind) \in ResidualType /\ WellFormed(KindState(s.kind))
            /\ ResidualAdmits(KindState(s.kind), x)
        BY <2>2, <2>3, KindStateAdmits
      <3>2. ResidualAdmits(g, x) BY <1>1, <1>3, <2>3, <3>1, CoversAdmits
      <3>3. x # Blank BY <2>2, <2>3 DEF KindSubsumes, NumLeaf, Blank
      <3> QED BY <1>2, <3>2, <3>3, TakesForm
    <2>4. CASE s.kind = "string" /\ AboveString(g, ~s.ok)
      <3> DEFINE strict == ~s.ok
      <3>1. strict \in BOOLEAN BY <2>1, KindShape
      <3>2. x.leaf = "string" BY <2>2, <2>4 DEF KindSubsumes
      <3>3. strict => x # Blank BY <2>1, <2>4, RefusesForm, TakesForm
      <3>4. AboveString(g, strict) BY <2>4
      <3> HIDE DEF strict
      <3>5. ResidualAdmits(g, x) /\ ~(x = Blank /\ RefusesEmpty(g))
        BY <3>1, <3>2, <3>3, <3>4, AboveStringAdmits
      <3> QED BY <1>2, <3>5, TakesForm
    <2> QED BY <1>6, <2>3, <2>4 DEF ConstraintCovers
  <1> QED BY <1>4, <1>5, <1>6, LeafShape DEF ConstraintCovers

\* What subsume answers yes to holds of every value: the whole comparison.
THEOREM CoversTakes ==
  ASSUME NEW g \in LeafType, NEW s \in LeafType, ~PathScalar(s), ~Refused(g), Covers(g, s),
         NEW x \in Instance, Takes(s, x), ~(x.leaf = "path" /\ Waives(g))
  PROVE  Takes(g, x)
  <1>1. s.is # "nil"
    <2>1. s.is = "nil" => ~Admits(s, x) BY DEF Admits
    <2> QED BY <2>1, TakesForm
  <1>2. CASE g.is = "top"
    <2>1. Admits(g, x) /\ ~RefusesEmpty(g) BY <1>2 DEF Admits, RefusesEmpty, Needs
    <2> QED BY <2>1, TakesForm
  <1>3. CASE g.is = "kind"
    <2>1. g \in Kinds BY <1>3, LeafShape
    <2>2. KindCovers(g, s) BY <1>1, <1>3 DEF Covers
    <2>3. s.is \in {"kind", "scalar", "residual"} BY <2>2 DEF KindCovers
    <2> QED BY <2>1, <2>2, <2>3, LeafShape, KindCoversKind, KindCoversScalar, KindCoversResidual
  <1>4. CASE g.is = "residual"
    <2>1. g \in Residuals BY <1>4, LeafShape
    <2>2. ConstraintCovers(g, s) BY <1>1, <1>4 DEF Covers
    <2> QED BY <2>1, <2>2, ConstraintCoversAll
  <1>5. CASE g.is = "scalar"
    <2>1. g \in Scalars BY <1>5, LeafShape
    <2>2. s.is = "scalar" /\ SameScalar(g, s)
      <3>1. s.is = "scalar" /\ (SameScalar(g, s) \/ (g.leaf = "path" /\ s.leaf = "path"))
        BY <1>1, <1>5 DEF Covers
      <3> QED BY <3>1 DEF PathScalar
    <2>3. s \in Scalars BY <2>2, LeafShape
    <2>4. x = Shape(s) /\ Shape(s) = Shape(g)
      BY <2>2, <2>3, ScalarAdmits, TakesForm DEF SameScalar, Shape
    <2>5. ~PathScalar(g) BY <2>1, <2>3, <2>4, ShapePath
    <2>6. Admits(g, x) BY <2>1, <2>4, <2>5, ScalarAdmits
    <2>7. ~RefusesEmpty(g) BY <1>5 DEF Refused
    <2> QED BY <2>6, <2>7, TakesForm
  <1>6. CASE g.is \in {"nil", "empty"}
    <2>1. g = s BY <1>1, <1>6 DEF Covers
    <2> QED BY <2>1
  <1> QED BY <1>2, <1>3, <1>4, <1>5, <1>6, LeafShape

(***************************************************************************)
(* A part that subsume puts under a term, or under the other part, takes   *)
(* no value the other refuses.                                             *)
(***************************************************************************)
THEOREM CoverSoundness == Spec => []CoverIsSound
  <1>1. IInv => CoverIsSound
    <2> SUFFICES ASSUME IInv, NEW p \in Part, NEW g \in Terms \union {val["left"]},
                        Lawful(met[p]), ~Refused(g), Covers(g, val[p]), NEW x \in Sample,
                        Takes(val[p], x), ~(x.leaf = "path" /\ Waives(g))
                 PROVE  Takes(g, x)
      BY DEF CoverIsSound
    <2>1. TypeOK /\ PartInv BY DEF IInv
    <2>2. val[p] \in LeafType /\ ~PathScalar(val[p]) BY <2>1 DEF TypeOK, PartInv
    <2>3. g \in LeafType
      <3>1. "left" \in Part BY DEF Part
      <3> QED BY <2>1, <3>1, TermsAssumption DEF TypeOK
    <2>4. x \in Instance BY TermsAssumption
    <2> QED BY <2>2, <2>3, <2>4, CoversTakes
  <1> QED BY <1>1, Invariance, PTL

(***************************************************************************)
(* Below every term.  What the query answers of a value and a term is not  *)
(* kept by meets as it stands (a text above a bound is inside the string   *)
(* kind until a trial schema joins the bound); what a value that met the   *)
(* term is, is kept, and the query finds it.                               *)
(***************************************************************************)
\* The value a is below the kind k, also once more is met; a text that is ""
\* is owed a refusal.
UnderKind(k, a) ==
  CASE a.is = "kind" -> KindSubsumes(k.kind, a.kind)
    [] a.is = "scalar" -> KindSubsumes(k.kind, a.leaf) /\ (k.kind = "string" /\ a.v = 0 => a.needs)
    [] a.is = "residual" ->
         \/ a.domain = "number" /\ (k.kind = "number" \/ k.kind = a.kind)
         \/ a.domain = "string" /\ k.kind = "string" /\ a.nonEmpty
         \/ k.kind = "path" /\ a.pathKind
    [] OTHER -> FALSE

\* The same of a residual.
UnderResidual(r, a) ==
  CASE a.is = "residual" -> ResidualCovers(r, a)
    [] a.is = "scalar" ->
         AdmitsScalar(r, a) /\ (r.nonEmpty /\ a.leaf = "string" /\ a.v = 0 => a.needs)
    [] OTHER -> FALSE

UnderScalar(s, a) ==
  /\ a.is = "scalar"
  /\ SameScalar(s, a) \/ (s.leaf = "path" /\ a.leaf = "path" /\ <<s.v, a.v>> \in Opens)

\* What a value that met the term t is, whatever it met before and since.
Under(t, a) ==
  \/ t = Top
  \/ a = Nil
  \/ t.is = "kind" /\ UnderKind(t, a)
  \/ t.is = "residual" /\ UnderResidual(t, a)
  \/ t.is = "scalar" /\ UnderScalar(t, a)

(***************************************************************************)
(* Residuals: what is covered stays covered as more is merged in.          *)
(***************************************************************************)
LEMMA LowerUnder ==
  ASSUME NEW g \in Ends, NEW a \in Ends, NEW b \in Ends, LowerCovers(g, a)
  PROVE  LowerCovers(g, Tighter(a, b, TRUE)) /\ LowerCovers(g, Tighter(b, a, TRUE))
  <1> USE EndsShape
  <1>1. CASE ~a.on \/ ~b.on BY <1>1 DEF Tighter, LowerCovers
  <1>2. CASE a.on /\ b.on /\ a.at.v # b.at.v BY <1>2 DEF Tighter, LowerCovers
  <1>3. CASE a.on /\ b.on /\ a.at.v = b.at.v BY <1>3 DEF Tighter, LowerCovers
  <1> QED BY <1>1, <1>2, <1>3

LEMMA UpperUnder ==
  ASSUME NEW g \in Ends, NEW a \in Ends, NEW b \in Ends, UpperCovers(g, a)
  PROVE  UpperCovers(g, Tighter(a, b, FALSE)) /\ UpperCovers(g, Tighter(b, a, FALSE))
  <1> USE EndsShape
  <1>1. CASE ~a.on \/ ~b.on BY <1>1 DEF Tighter, UpperCovers
  <1>2. CASE a.on /\ b.on /\ a.at.v # b.at.v BY <1>2 DEF Tighter, UpperCovers
  <1>3. CASE a.on /\ b.on /\ a.at.v = b.at.v BY <1>3 DEF Tighter, UpperCovers
  <1> QED BY <1>1, <1>2, <1>3

\* Whole numbers stay whole when more divisors come, or a kind.
LEMMA IntegralKept ==
  ASSUME NEW a, NEW w, NEW ms, Integral(a), a.mults \subseteq ms, w.mults = MergedMults(ms),
         a.kind \in {"integer", "biginteger"} => w.kind = a.kind
  PROVE  Integral(w)
  <1>1. CASE a.kind \in {"integer", "biginteger"} BY <1>1 DEF Integral
  <1>2. CASE a.kind \notin {"integer", "biginteger"}
    <2>1. PICK m \in a.mults : Whole(m.v) BY <1>2 DEF Integral
    <2>2. \E n \in MergedMults(ms) : n.v = m.v BY <2>1, MergedMultsKeep
    <2> QED BY <2>1, <2>2 DEF Integral
  <1> QED BY <1>1, <1>2

LEMMA MultsUnder ==
  ASSUME NEW g, NEW a, NEW w, NEW ms, MultsCover(g, a), a.mults \subseteq ms,
         w.mults = MergedMults(ms), Integral(a) => Integral(w)
  PROVE  MultsCover(g, w)
  <1> SUFFICES ASSUME NEW m \in g.mults
               PROVE  \/ \E b \in w.mults : IsMultiple(b.v, m.v)
                      \/ Integral(w) /\ IsMultiple(2, m.v)
    BY DEF MultsCover
  <1>1. CASE \E b \in a.mults : IsMultiple(b.v, m.v)
    <2>1. PICK b \in a.mults : IsMultiple(b.v, m.v) BY <1>1
    <2>2. \E n \in MergedMults(ms) : n.v = b.v BY MergedMultsKeep
    <2> QED BY <2>1, <2>2
  <1>2. CASE Integral(a) /\ IsMultiple(2, m.v) BY <1>2
  <1> QED BY <1>1, <1>2 DEF MultsCover

LEMMA CountUnder ==
  ASSUME NEW g \in CountType, NEW a \in CountType, NEW b \in CountType, CountCovers(g, a)
  PROVE  CountCovers(g, MeetCount(a, b)) /\ CountCovers(g, MeetCount(b, a))
  <1>1. /\ g.lo \in Ends /\ g.hi \in Ends /\ a.lo \in Ends /\ a.hi \in Ends
        /\ b.lo \in Ends /\ b.hi \in Ends /\ a.kind = "integer" /\ b.kind = "integer"
        /\ g.kind = "integer"
    BY DEF CountType
  <1>2. ASSUME NEW w, NEW ms, a.mults \subseteq ms, w.mults = MergedMults(ms), w.kind = "integer"
        PROVE  MultsCover(g, w)
    <2>1. Integral(w) BY <1>2 DEF Integral
    <2> QED BY <1>2, <2>1, MultsUnder DEF CountCovers
  <1>3. ASSUME NEW w, NEW ms, a.mults \subseteq ms, w.mults = MergedMults(ms), w.kind = "integer",
               \/ w.lo = Tighter(a.lo, b.lo, TRUE) /\ w.hi = Tighter(a.hi, b.hi, FALSE)
               \/ w.lo = Tighter(b.lo, a.lo, TRUE) /\ w.hi = Tighter(b.hi, a.hi, FALSE),
               a.neqs \subseteq w.neqs
        PROVE  CountCovers(g, w)
    <2>1. MultsCover(g, w) BY <1>2, <1>3
    <2>2. LowerCovers(g.lo, a.lo) /\ UpperCovers(g.hi, a.hi) /\ g.neqs \subseteq a.neqs
      BY DEF CountCovers
    <2>3. LowerCovers(g.lo, w.lo) /\ UpperCovers(g.hi, w.hi)
      BY <1>1, <1>3, <2>2, LowerUnder, UpperUnder
    <2> QED BY <1>1, <1>3, <2>1, <2>2, <2>3 DEF CountCovers
  <1>4. CountCovers(g, MeetCount(a, b))
    <2> DEFINE w == MeetCount(a, b)
    <2>1. /\ w.mults = MergedMults(a.mults \union b.mults) /\ w.kind = "integer"
          /\ w.lo = Tighter(a.lo, b.lo, TRUE) /\ w.hi = Tighter(a.hi, b.hi, FALSE)
          /\ a.neqs \subseteq w.neqs
      BY <1>1 DEF MeetCount
    <2> HIDE DEF w
    <2>2. a.mults \subseteq a.mults \union b.mults OBVIOUS
    <2>3. CountCovers(g, w) BY <1>3, <2>1, <2>2
    <2> QED BY <2>3 DEF w
  <1>5. CountCovers(g, MeetCount(b, a))
    <2> DEFINE w == MeetCount(b, a)
    <2>1. /\ w.mults = MergedMults(b.mults \union a.mults) /\ w.kind = "integer"
          /\ w.lo = Tighter(b.lo, a.lo, TRUE) /\ w.hi = Tighter(b.hi, a.hi, FALSE)
          /\ a.neqs \subseteq w.neqs
      BY <1>1 DEF MeetCount
    <2> HIDE DEF w
    <2>2. a.mults \subseteq b.mults \union a.mults OBVIOUS
    <2>3. CountCovers(g, w) BY <1>3, <2>1, <2>2
    <2> QED BY <2>3 DEF w
  <1> QED BY <1>4, <1>5

\* What covers a residual covers it merged with another.
LEMMA CoversMerged ==
  ASSUME NEW g \in ResidualType, NEW a \in ResidualType, NEW b \in ResidualType,
         ResidualCovers(g, a), ~a.emptyOk, ~b.emptyOk,
         a.domain # "none" /\ b.domain # "none" => a.domain = b.domain,
         a.kind # "none" /\ b.kind # "none" => a.kind = b.kind
  PROVE  ResidualCovers(g, Merged(a, b)) /\ ResidualCovers(g, Merged(b, a))
  <1>1. /\ g.lo \in Ends /\ g.hi \in Ends /\ a.lo \in Ends /\ a.hi \in Ends
        /\ b.lo \in Ends /\ b.hi \in Ends
        /\ g.count \in CountType /\ a.count \in CountType /\ b.count \in CountType
    BY DEF ResidualType
  <1>2. /\ OpaqueAtoms(g) = {}
        /\ g.domain # "none" => g.domain = a.domain
        /\ g.kind # "none" => g.kind = a.kind
        /\ g.pathKind => a.pathKind
        /\ g.nonEmpty /\ ~g.emptyOk => a.nonEmpty
        /\ LowerCovers(g.lo, a.lo) /\ UpperCovers(g.hi, a.hi)
        /\ g.neqs \subseteq a.neqs /\ MultsCover(g, a) /\ g.tests \subseteq a.tests
        /\ g.keys \subseteq a.keys /\ (g.uniq => a.uniq)
        /\ g.count.on => a.count.on /\ CountCovers(g.count, a.count)
    BY DEF ResidualCovers
  <1>3. ASSUME NEW w,
               a.domain # "none" => w.domain = a.domain, a.kind # "none" => w.kind = a.kind,
               \/ w.lo = Tighter(a.lo, b.lo, TRUE) /\ w.hi = Tighter(a.hi, b.hi, FALSE)
               \/ w.lo = Tighter(b.lo, a.lo, TRUE) /\ w.hi = Tighter(b.hi, a.hi, FALSE),
               a.neqs \subseteq w.neqs, w.mults = MergedMults(a.mults \union b.mults),
               a.tests \subseteq w.tests, a.keys \subseteq w.keys, a.uniq => w.uniq,
               a.nonEmpty => w.nonEmpty, ~w.emptyOk, a.pathKind => w.pathKind,
               a.count.on => \/ ~b.count.on /\ w.count = a.count
                             \/ w.count = MeetCount(a.count, b.count)
                             \/ w.count = MeetCount(b.count, a.count)
        PROVE  ResidualCovers(g, w)
    <2>1. LowerCovers(g.lo, w.lo) /\ UpperCovers(g.hi, w.hi)
      BY <1>1, <1>2, <1>3, LowerUnder, UpperUnder
    <2>2. MultsCover(g, w)
      <3>1. Integral(a) => Integral(w) BY <1>3, IntegralKept
      <3> QED BY <1>2, <1>3, <3>1, MultsUnder
    <2>3. g.count.on => w.count.on /\ CountCovers(g.count, w.count)
      <3> SUFFICES ASSUME g.count.on PROVE w.count.on /\ CountCovers(g.count, w.count) OBVIOUS
      <3>1. a.count.on /\ CountCovers(g.count, a.count) BY <1>2
      <3>2. CountCovers(g.count, w.count) BY <1>1, <1>3, <3>1, CountUnder
      <3>3. w.count.on BY <1>3, <3>1 DEF MeetCount
      <3> QED BY <3>2, <3>3
    <2>4. g.domain # "none" => g.domain = w.domain BY <1>2, <1>3
    <2>5. g.kind # "none" => g.kind = w.kind BY <1>2, <1>3
    <2> QED BY <1>2, <1>3, <2>1, <2>2, <2>3, <2>4, <2>5 DEF ResidualCovers
  <1>4. b.domain \in {"none", a.domain} \/ a.domain = "none" OBVIOUS
  <1>5. ResidualCovers(g, Merged(a, b))
    <2> DEFINE w == Merged(a, b)
    <2>1. /\ a.domain # "none" => w.domain = a.domain
          /\ a.kind # "none" => w.kind = a.kind
          /\ w.lo = Tighter(a.lo, b.lo, TRUE) /\ w.hi = Tighter(a.hi, b.hi, FALSE)
          /\ a.neqs \subseteq w.neqs /\ w.mults = MergedMults(a.mults \union b.mults)
          /\ a.tests \subseteq w.tests /\ a.keys \subseteq w.keys /\ (a.uniq => w.uniq)
          /\ (a.nonEmpty => w.nonEmpty) /\ ~w.emptyOk /\ (a.pathKind => w.pathKind)
          /\ a.count.on => \/ ~b.count.on /\ w.count = a.count
                           \/ w.count = MeetCount(a.count, b.count)
      BY DEF Merged, Given
    <2> HIDE DEF w
    <2>2. ResidualCovers(g, w) BY <1>3, <2>1
    <2> QED BY <2>2 DEF w
  <1>6. ResidualCovers(g, Merged(b, a))
    <2> DEFINE w == Merged(b, a)
    <2>1. b.mults \union a.mults = a.mults \union b.mults OBVIOUS
    <2>2. /\ a.domain # "none" => w.domain = a.domain
          /\ a.kind # "none" => w.kind = a.kind
          /\ w.lo = Tighter(b.lo, a.lo, TRUE) /\ w.hi = Tighter(b.hi, a.hi, FALSE)
          /\ a.neqs \subseteq w.neqs /\ w.mults = MergedMults(a.mults \union b.mults)
          /\ a.tests \subseteq w.tests /\ a.keys \subseteq w.keys /\ (a.uniq => w.uniq)
          /\ (a.nonEmpty => w.nonEmpty) /\ ~w.emptyOk /\ (a.pathKind => w.pathKind)
          /\ a.count.on => \/ ~b.count.on /\ w.count = a.count
                           \/ w.count = MeetCount(b.count, a.count)
      BY <2>1 DEF Merged, Given
    <2> HIDE DEF w
    <2>3. ResidualCovers(g, w) BY <1>3, <2>2
    <2> QED BY <2>3 DEF w
  <1> QED BY <1>5, <1>6

\* And narrowed by a kind.
LEMMA CoversNarrowed ==
  ASSUME NEW g \in ResidualType, NEW a \in Residuals, NEW k \in Kinds, ResidualCovers(g, a),
         ~KindRefused(a, k), ~a.emptyOk, ~k.ok
  PROVE  ResidualCovers(g, Narrowed(a, k))
  <1> DEFINE w == Narrowed(a, k)
  <1>1. /\ a.domain # "none" => w.domain = a.domain
        /\ a.kind # "none" => w.kind = a.kind
        /\ w.lo = a.lo /\ w.hi = a.hi /\ w.neqs = a.neqs /\ w.mults = a.mults
        /\ w.tests = a.tests /\ w.keys = a.keys /\ w.uniq = a.uniq /\ w.count = a.count
        /\ (a.nonEmpty => w.nonEmpty) /\ ~w.emptyOk /\ (a.pathKind => w.pathKind)
    <2>1. a \in ResidualType BY ResidualIs
    <2>2. /\ w.lo = a.lo /\ w.hi = a.hi /\ w.neqs = a.neqs /\ w.mults = a.mults
          /\ w.tests = a.tests /\ w.keys = a.keys /\ w.uniq = a.uniq /\ w.count = a.count
          /\ w.domain = KindDomain(k) /\ w.kind = KindKept(a, k)
          /\ w.nonEmpty = (a.nonEmpty \/ k.kind = "string")
          /\ w.emptyOk = (a.emptyOk \/ k.ok)
          /\ w.pathKind = (a.pathKind \/ k.kind = "path")
      BY <2>1, NarrowedForm, AsideFields
    <2> HIDE DEF w
    <2>3. (a.domain = "none" \/ a.domain = KindDomain(k)) /\ (a.kind = "none" \/ a.kind = KindKept(a, k))
      BY NarrowedFits
    <2> QED BY <2>2, <2>3
  <1> HIDE DEF w
  <1>2. Integral(a) => Integral(w) BY <1>1 DEF Integral
  <1>3. MultsCover(g, w) BY <1>1, <1>2 DEF ResidualCovers, MultsCover
  <1>4. ResidualCovers(g, w) BY <1>1, <1>3 DEF ResidualCovers
  <1> QED BY <1>4 DEF w

\* A residual without trial schemas covers itself.
LEMMA CoversSelf ==
  ASSUME NEW r \in Residuals, OpaqueAtoms(r) = {}
  PROVE  ResidualCovers(r, r)
  <1>1. r \in ResidualType /\ WellFormed(r) BY ResidualIs
  <1>2. Ranged(r) /\ Ranged(r.count) BY <1>1, ResidualRanged
  <1>3. ASSUME NEW c, Ranged(c) PROVE MultsCover(c, c) /\ LowerCovers(c.lo, c.lo) /\ UpperCovers(c.hi, c.hi)
    <2>1. \A m \in c.mults : IsMultiple(m.v, m.v)
      <3>1. \A n \in Nat \ {0} : n % n = 0
        <4>1. \A n \in Nat \ {0} : (1 * n) % n = 0 BY Product
        <4> QED BY <4>1
      <3> QED BY <1>3, <3>1 DEF Ranged, IsMultiple
    <2>2. MultsCover(c, c) BY <2>1 DEF MultsCover
    <2> QED BY <1>3, <2>2, EndsShape DEF Ranged, LowerCovers, UpperCovers
  <1>4. CountCovers(r.count, r.count) BY <1>2, <1>3 DEF CountCovers
  <1> QED BY <1>2, <1>3, <1>4 DEF ResidualCovers

\* A term that the query looks into, and that waives nothing.
Plain(t) == Comparable(t) /\ ~Waives(t)

\* A meet with a scalar keeps the refusal of "" that it is owed.
LEMMA FlagsKept ==
  ASSUME NEW s \in Scalars
  PROVE  /\ s.needs => WithEmpty(s).needs /\ WithNonEmpty(s).needs
         /\ s.leaf = "string" /\ s.v = 0 => WithNonEmpty(s).needs
  BY DEF Scalars, WithEmpty, WithNonEmpty

LEMMA AdmitFlags ==
  ASSUME NEW r \in Residuals, NEW s \in Scalars, AdmitsScalar(r, s)
  PROVE  /\ s.needs => Admit(r, s).needs
         /\ r.nonEmpty /\ s.leaf = "string" /\ s.v = 0 => Admit(r, s).needs
  <1> DEFINE t == IF r.nonEmpty THEN WithNonEmpty(s) ELSE s
  <1>1. t \in Scalars /\ Shape(t) = Shape(s) BY FlaggedScalar
  <1>2. (s.needs => t.needs) /\ (r.nonEmpty /\ s.leaf = "string" /\ s.v = 0 => t.needs)
    BY FlagsKept
  <1>3. Admit(r, s) = IF r.emptyOk THEN WithEmpty(t) ELSE t BY DEF Admit
  <1> HIDE DEF t
  <1>4. t.needs => Admit(r, s).needs BY <1>1, <1>3, FlagsKept
  <1> QED BY <1>2, <1>4

LEMMA KindScalarFlags ==
  ASSUME NEW k \in Kinds, NEW s \in Scalars, KindSubsumes(k.kind, s.leaf)
  PROVE  /\ s.needs => KindScalar(k, s).needs
         /\ k.kind = "string" /\ ~k.ok /\ s.v = 0 => KindScalar(k, s).needs
  <1>1. k.kind = "string" => s.leaf = "string" BY DEF KindSubsumes
  <1> QED BY <1>1, FlagsKept DEF KindScalar

\* A scalar that is another with its refusal of "" kept.
Keeps(w, s) == Shape(w) = Shape(s) /\ w \in Scalars /\ (s.needs => w.needs)

LEMMA ScalarKept ==
  ASSUME NEW t \in LeafType, NEW s \in Scalars, NEW w, Keeps(w, s), Under(t, s)
  PROVE  Under(t, w)
  <1>1. w.is = "scalar" /\ s.is = "scalar" BY ScalarShape DEF Keeps
  <1>2. w.leaf = s.leaf /\ w.v = s.v
    <2>1. Shape(w).leaf = w.leaf /\ Shape(w).v = w.v /\ Shape(s).leaf = s.leaf /\ Shape(s).v = s.v
      BY DEF Shape
    <2> QED BY <2>1 DEF Keeps
  <1>3. s # Nil BY <1>1 DEF Nil
  <1>4. CASE t = Top BY <1>4 DEF Under
  <1>5. CASE t.is = "kind" /\ UnderKind(t, s) BY <1>1, <1>2, <1>5 DEF Under, UnderKind, Keeps
  <1>6. CASE t.is = "residual" /\ UnderResidual(t, s)
    <2>1. AdmitsScalar(t, w) <=> AdmitsScalar(t, s) BY SameVerdict DEF Keeps
    <2> QED BY <1>1, <1>2, <1>6, <2>1 DEF Under, UnderResidual, Keeps
  <1>7. CASE t.is = "scalar" /\ UnderScalar(t, s)
    BY <1>1, <1>2, <1>7 DEF Under, UnderScalar, SameScalar
  <1> QED BY <1>3, <1>4, <1>5, <1>6, <1>7 DEF Under

LEMMA UnderNil == ASSUME NEW t PROVE Under(t, Nil)
  BY DEF Under

\* A scalar is admitted or refused by what it meets, and stays what it is.
LEMMA AdmitKeeps ==
  ASSUME NEW r \in Residuals, NEW s \in Scalars
  PROVE  Admit(r, s) = Nil \/ Keeps(Admit(r, s), s)
  BY AdmitForm, AdmitFlags DEF Keeps

LEMMA KindScalarKeeps ==
  ASSUME NEW k \in Kinds, NEW s \in Scalars
  PROVE  KindScalar(k, s) = Nil \/ Keeps(KindScalar(k, s), s)
  BY KindScalarForm, KindScalarFlags DEF Keeps

LEMMA ScalarScalarKeeps ==
  ASSUME NEW a \in Scalars, NEW b \in Scalars, PathScalar(a) /\ PathScalar(b) => a.v = b.v
  PROVE  \/ ScalarScalar(a, b) = Nil
         \/ Keeps(ScalarScalar(a, b), a) /\ Keeps(ScalarScalar(a, b), b)
  <1>1. CASE ~SameScalar(a, b)
    <2>1. ~(a.leaf = "path" /\ b.leaf = "path") BY <1>1, ScalarShape DEF PathScalar, SameScalar
    <2> QED BY <1>1, <2>1 DEF ScalarScalar
  <1>2. CASE SameScalar(a, b)
    <2>1. Shape(a) = Shape(b) BY <1>2 DEF SameScalar, Shape
    <2>2. CASE a.leaf = "path"
      <3>1. b.leaf = "path" /\ a.v = b.v BY <1>2, <2>2 DEF SameScalar
      <3>2. ScalarScalar(a, b) = a BY <2>2, <3>1 DEF ScalarScalar, PrefixMeet
      <3>3. ~b.needs BY <3>1, ScalarShape
      <3> QED BY <2>1, <3>2, <3>3 DEF Keeps
    <2>3. CASE a.leaf # "path"
      <3> DEFINE u == [a EXCEPT !.needs = a.needs \/ b.needs, !.ok = a.ok \/ b.ok]
      <3>1. ScalarScalar(a, b) = u BY <1>2, <2>3 DEF ScalarScalar
      <3>2. u \in Scalars /\ Shape(u) = Shape(a) BY <1>2, SharedScalar
      <3>3. u.needs = (a.needs \/ b.needs) BY DEF Scalars
      <3> HIDE DEF u
      <3> QED BY <2>1, <3>1, <3>2, <3>3 DEF Keeps
    <2> QED BY <2>2, <2>3
  <1> QED BY <1>1, <1>2

(***************************************************************************)
(* A value below a term stays below it, whatever it meets next.            *)
(***************************************************************************)
LEMMA ResidualUnder ==
  ASSUME NEW t \in LeafType, Plain(t), NEW a \in Residuals, ~Waives(a), Under(t, a)
  PROVE  \/ t = Top
         \/ t \in Kinds /\ UnderKind(t, a)
         \/ t \in Residuals /\ ResidualCovers(t, a)
  <1>1. a.is = "residual" BY ResidualIs
  <1>2. a # Nil BY <1>1 DEF Nil
  <1> QED BY <1>1, <1>2, LeafShape DEF Under, UnderResidual, UnderScalar

LEMMA FinishUnder ==
  ASSUME NEW t, NEW r \in ResidualType, Under(t, r)
  PROVE  Under(t, Finish(r))
  BY UnderNil DEF Finish

LEMMA MergedUnder ==
  ASSUME NEW t \in LeafType, Plain(t), NEW a \in Residuals, NEW b \in Residuals, ~Waives(a),
         ~Waives(b), Under(t, a)
  PROVE  Under(t, MeetConstraint(a, b)) /\ Under(t, MeetConstraint(b, a))
  <1>1. /\ a.is = "residual" /\ a \in ResidualType /\ WellFormed(a)
        /\ b.is = "residual" /\ b \in ResidualType /\ WellFormed(b)
    BY ResidualIs
  <1>2. ~a.emptyOk /\ ~b.emptyOk BY <1>1 DEF Waives
  <1>3. ASSUME a.domain # "none" /\ b.domain # "none" => a.domain = b.domain,
               a.kind # "none" /\ b.kind # "none" => a.kind = b.kind,
               NEW w, w = Merged(a, b) \/ w = Merged(b, a), w \in ResidualType
        PROVE  Under(t, Finish(w))
    <2>1. w.is = "residual" BY <1>3 DEF ResidualType
    <2>2. CASE t = Top
      <3>1. Under(t, w) BY <2>2 DEF Under
      <3> QED BY <1>3, <3>1, FinishUnder
    <2>3. CASE t \in Residuals /\ ResidualCovers(t, a)
      <3>1. t.is = "residual" /\ t \in ResidualType BY <2>3, ResidualIs
      <3>2. ResidualCovers(t, w) BY <1>1, <1>2, <1>3, <2>3, <3>1, CoversMerged
      <3>3. Under(t, w) BY <2>1, <3>1, <3>2 DEF Under, UnderResidual
      <3> QED BY <1>3, <3>3, FinishUnder
    <2>4. CASE t \in Kinds /\ UnderKind(t, a)
      <3>1. /\ a.domain # "none" => w.domain = a.domain
            /\ a.kind # "none" => w.kind = a.kind
            /\ a.nonEmpty => w.nonEmpty
            /\ a.pathKind => w.pathKind
        <4>1. CASE w = Merged(a, b) BY <4>1 DEF Merged, Given
        <4>2. CASE w = Merged(b, a) BY <1>3, <4>2 DEF Merged, Given
        <4> QED BY <1>3, <4>1, <4>2
      <3>2. t.is = "kind" /\ t.kind # "none" BY <2>4, KindShape DEF NumLeaf
      <3>3. UnderKind(t, w) BY <1>1, <2>1, <2>4, <3>1, <3>2 DEF UnderKind
      <3>4. Under(t, w) BY <3>2, <3>3 DEF Under
      <3> QED BY <1>3, <3>4, FinishUnder
    <2> QED BY <2>2, <2>3, <2>4, ResidualUnder
  <1>4. Merged(a, b).is = "residual" /\ Merged(b, a).is = "residual" BY DEF Merged
  <1>5. Under(t, MeetConstraint(a, b))
    <2>1. CASE \/ a.domain # "none" /\ b.domain # "none" /\ a.domain # b.domain
               \/ a.kind # "none" /\ b.kind # "none" /\ a.kind # b.kind
               \/ a.pathKind /\ (b.nonEmpty \/ b.emptyOk)
               \/ b.pathKind /\ (a.nonEmpty \/ a.emptyOk)
      BY <2>1, UnderNil DEF MeetConstraint
    <2>2. CASE ~(\/ a.domain # "none" /\ b.domain # "none" /\ a.domain # b.domain
                 \/ a.kind # "none" /\ b.kind # "none" /\ a.kind # b.kind
                 \/ a.pathKind /\ (b.nonEmpty \/ b.emptyOk)
                 \/ b.pathKind /\ (a.nonEmpty \/ a.emptyOk))
      <3>1. MeetConstraint(a, b) = Finish(Merged(a, b)) BY <2>2 DEF MeetConstraint
      <3>2. Merged(a, b) \in ResidualType BY <1>1, <2>2, MergedType DEF Agree
      <3> QED BY <1>3, <2>2, <3>1, <3>2
    <2> QED BY <2>1, <2>2
  <1>6. Under(t, MeetConstraint(b, a))
    <2>1. CASE \/ b.domain # "none" /\ a.domain # "none" /\ b.domain # a.domain
               \/ b.kind # "none" /\ a.kind # "none" /\ b.kind # a.kind
               \/ b.pathKind /\ (a.nonEmpty \/ a.emptyOk)
               \/ a.pathKind /\ (b.nonEmpty \/ b.emptyOk)
      BY <2>1, UnderNil DEF MeetConstraint
    <2>2. CASE ~(\/ b.domain # "none" /\ a.domain # "none" /\ b.domain # a.domain
                 \/ b.kind # "none" /\ a.kind # "none" /\ b.kind # a.kind
                 \/ b.pathKind /\ (a.nonEmpty \/ a.emptyOk)
                 \/ a.pathKind /\ (b.nonEmpty \/ b.emptyOk))
      <3>1. MeetConstraint(b, a) = Finish(Merged(b, a)) BY <2>2 DEF MeetConstraint
      <3>2. Merged(b, a) \in ResidualType BY <1>1, <2>2, MergedType DEF Agree
      <3> QED BY <1>3, <2>2, <3>1, <3>2
    <2> QED BY <2>1, <2>2
  <1> QED BY <1>5, <1>6

LEMMA NarrowedUnder ==
  ASSUME NEW t \in LeafType, Plain(t), NEW a \in Residuals, NEW k \in Kinds, ~Waives(a),
         ~Waives(k), Under(t, a)
  PROVE  Under(t, MeetKind(a, k))
  <1>1. a.is = "residual" /\ a \in ResidualType /\ WellFormed(a) BY ResidualIs
  <1>2. ~a.emptyOk /\ ~k.ok BY <1>1, KindShape DEF Waives
  <1>3. CASE KindRefused(a, k) BY <1>3, UnderNil DEF MeetKind
  <1>4. CASE ~KindRefused(a, k)
    <2> DEFINE w == Narrowed(a, k)
    <2>1. w \in ResidualType BY <1>4, NarrowedRight
    <2>2. /\ w.domain = KindDomain(k) /\ w.kind = KindKept(a, k)
          /\ w.nonEmpty = (a.nonEmpty \/ k.kind = "string")
          /\ w.pathKind = (a.pathKind \/ k.kind = "path")
      BY <1>1, NarrowedForm, AsideFields
    <2> HIDE DEF w
    <2>3. w.is = "residual" BY <2>1 DEF ResidualType
    <2>4. Under(t, w)
      <3>1. CASE t = Top BY <3>1 DEF Under
      <3>2. CASE t \in Residuals /\ ResidualCovers(t, a)
        <4>1. t.is = "residual" /\ t \in ResidualType BY <3>2, ResidualIs
        <4>2. ResidualCovers(t, w) BY <1>2, <1>4, <3>2, <4>1, CoversNarrowed DEF w
        <4> QED BY <2>3, <4>1, <4>2 DEF Under, UnderResidual
      <3>3. CASE t \in Kinds /\ UnderKind(t, a)
        <4>1. (a.domain = "none" \/ a.domain = KindDomain(k)) /\ (a.kind = "none" \/ a.kind = KindKept(a, k))
          BY <1>4, NarrowedFits
        <4>2. t.is = "kind" /\ t.kind # "none" BY <3>3, KindShape DEF NumLeaf
        <4>3. UnderKind(t, w) BY <1>1, <2>2, <2>3, <3>3, <4>1, <4>2 DEF UnderKind
        <4> QED BY <4>2, <4>3 DEF Under
      <3> QED BY <3>1, <3>2, <3>3, ResidualUnder
    <2>5. MeetKind(a, k) = Finish(w) BY <1>4 DEF MeetKind, w
    <2> QED BY <2>1, <2>4, <2>5, FinishUnder
  <1> QED BY <1>3, <1>4

\* A kind that meets a residual becomes one.
LEMMA KindNarrowed ==
  ASSUME NEW t \in LeafType, Plain(t), NEW k \in Kinds, NEW r \in Residuals, ~Waives(k),
         ~Waives(r), Under(t, k)
  PROVE  Under(t, MeetKind(r, k))
  <1>1. k.is = "kind" BY KindShape
  <1>2. k # Nil BY <1>1 DEF Nil
  <1>3. CASE t = Top BY <1>3 DEF Under
  <1>4. CASE t.is = "kind" /\ KindSubsumes(t.kind, k.kind)
    <2>1. CASE KindRefused(r, k) BY <2>1, UnderNil DEF MeetKind
    <2>2. CASE ~KindRefused(r, k)
      <3> DEFINE w == Narrowed(r, k)
      <3>1. w \in ResidualType BY <2>2, NarrowedRight
      <3>2. /\ w.domain = KindDomain(k) /\ w.kind = KindKept(r, k)
            /\ w.nonEmpty = (r.nonEmpty \/ k.kind = "string")
            /\ w.pathKind = (r.pathKind \/ k.kind = "path")
        BY ResidualIs, NarrowedForm, AsideFields
      <3> HIDE DEF w
      <3>3. w.is = "residual" BY <3>1 DEF ResidualType
      <3>4. t \in Kinds BY <1>4, LeafShape
      <3>5. UnderKind(t, w)
        BY <1>4, <3>2, <3>3, <3>4, KindShape
           DEF UnderKind, KindSubsumes, KindDomain, KindKept, NumLeaf, TextLeaf
      <3>6. Under(t, w) BY <1>4, <3>5 DEF Under
      <3>7. MeetKind(r, k) = Finish(w) BY <2>2 DEF MeetKind, w
      <3> QED BY <3>1, <3>6, <3>7, FinishUnder
    <2> QED BY <2>1, <2>2
  <1> QED BY <1>1, <1>2, <1>3, <1>4 DEF Under, UnderKind, UnderResidual, UnderScalar

\* A scalar that a value which is below a term lets through is below it.
LEMMA AdmittedUnder ==
  ASSUME NEW t \in LeafType, Plain(t), NEW a \in Residuals, NEW s \in Scalars, ~Waives(a),
         ~Waives(s), Under(t, a)
  PROVE  Under(t, Admit(a, s))
  <1>1. CASE ~AdmitsScalar(a, s) BY <1>1, AdmitForm, UnderNil
  <1>2. CASE AdmitsScalar(a, s)
    <2> DEFINE w == Admit(a, s)
    <2>1. w \in Scalars /\ Shape(w) = Shape(s) BY <1>2, AdmitForm
    <2>2. a.nonEmpty /\ s.leaf = "string" /\ s.v = 0 => w.needs BY <1>2, AdmitFlags
    <2> HIDE DEF w
    <2>3. w.is = "scalar" /\ w.leaf = s.leaf /\ w.v = s.v
      <3>1. Shape(w).leaf = w.leaf /\ Shape(w).v = w.v /\ Shape(s).leaf = s.leaf /\ Shape(s).v = s.v
        BY DEF Shape
      <3> QED BY <2>1, <3>1, ScalarShape
    <2>4. a \in ResidualType /\ WellFormed(a) BY ResidualIs
    <2>5. AdmitsScalar(a, w) BY <1>2, <2>1, SameVerdict
    <2>6. CASE t = Top BY <2>6 DEF Under, w
    <2>7. CASE t \in Residuals /\ ResidualCovers(t, a)
      <3>1. t.is = "residual" /\ t \in ResidualType /\ WellFormed(t) BY <2>7, ResidualIs
      <3>2. ~t.emptyOk BY <3>1 DEF Plain, Waives
      <3>3. Shape(s) \in Instance /\ Shape(s).leaf # "bag"
        BY ScalarShape DEF Shape
      <3>4. ResidualAdmits(a, Shape(s)) BY <1>2, <3>3, SameVerdict DEF ResidualAdmits
      <3>5. ResidualAdmits(t, Shape(s)) BY <2>4, <2>7, <3>1, <3>2, <3>3, <3>4, CoversAdmits
      <3>6. AdmitsScalar(t, w) BY <2>1, <3>3, <3>5, SameVerdict DEF ResidualAdmits
      <3>7. t.nonEmpty => a.nonEmpty BY <2>7, <3>2 DEF ResidualCovers
      <3>8. UnderResidual(t, w) BY <2>2, <2>3, <3>6, <3>7 DEF UnderResidual
      <3> QED BY <3>1, <3>8 DEF Under, w
    <2>8. CASE t \in Kinds /\ UnderKind(t, a)
      <3>1. a.is = "residual" BY ResidualIs
      <3>2. t.is = "kind" BY <2>8, KindShape
      <3>3. KindSubsumes(t.kind, s.leaf) /\ (t.kind = "string" => a.nonEmpty /\ s.leaf = "string")
        <4>1. CASE a.domain = "number" /\ (t.kind = "number" \/ t.kind = a.kind)
          <5>1. DomainOf(s) = "number" /\ (a.kind # "none" => s.leaf = a.kind)
            BY <1>2, <4>1 DEF AdmitsScalar, StateAdmits, Inside
          <5>2. s.leaf \in NumLeaf BY <5>1 DEF DomainOf
          <5>3. a.kind \in NumLeaf \union {"none"} BY <2>4 DEF ResidualType
          <5> QED BY <2>8, <4>1, <5>1, <5>2, <5>3, KindShape DEF KindSubsumes, NumLeaf
        <4>2. CASE a.domain = "string" /\ t.kind = "string" /\ a.nonEmpty
          <5>1. DomainOf(s) = "string" /\ s.leaf # "path"
            BY <1>2, <4>2 DEF AdmitsScalar, StateAdmits
          <5>2. s.leaf = "string" BY <5>1 DEF DomainOf, TextLeaf, NumLeaf
          <5> QED BY <4>2, <5>2 DEF KindSubsumes
        <4>3. CASE t.kind = "path" /\ a.pathKind
          BY <1>2, <4>3 DEF AdmitsScalar, KindSubsumes
        <4> QED BY <2>8, <3>1, <4>1, <4>2, <4>3 DEF UnderKind
      <3>4. UnderKind(t, w) BY <2>2, <2>3, <3>3 DEF UnderKind
      <3> QED BY <3>2, <3>4 DEF Under, w
    <2> QED BY <2>6, <2>7, <2>8, ResidualUnder
  <1> QED BY <1>1, <1>2

LEMMA KindedUnder ==
  ASSUME NEW t \in LeafType, Plain(t), NEW k \in Kinds, NEW s \in Scalars, ~Waives(k),
         Under(t, k)
  PROVE  Under(t, KindScalar(k, s))
  <1>1. k.is = "kind" /\ ~k.ok BY KindShape DEF Waives
  <1>2. k # Nil BY <1>1 DEF Nil
  <1>3. CASE t = Top BY <1>3 DEF Under
  <1>4. CASE t.is = "kind" /\ KindSubsumes(t.kind, k.kind)
    <2>1. CASE ~KindSubsumes(k.kind, s.leaf) BY <2>1, KindScalarForm, UnderNil
    <2>2. CASE KindSubsumes(k.kind, s.leaf)
      <3> DEFINE w == KindScalar(k, s)
      <3>1. w \in Scalars /\ Shape(w) = Shape(s) BY <2>2, KindScalarForm
      <3>2. k.kind = "string" /\ s.v = 0 => w.needs BY <1>1, <2>2, KindScalarFlags
      <3> HIDE DEF w
      <3>3. w.is = "scalar" /\ w.leaf = s.leaf /\ w.v = s.v
        <4>1. Shape(w).leaf = w.leaf /\ Shape(w).v = w.v /\ Shape(s).leaf = s.leaf /\ Shape(s).v = s.v
          BY DEF Shape
        <4> QED BY <3>1, <4>1, ScalarShape
      <3>4. KindSubsumes(t.kind, s.leaf) /\ (t.kind = "string" => k.kind = "string")
        BY <1>4, <2>2 DEF KindSubsumes, NumLeaf
      <3>5. UnderKind(t, w) BY <3>2, <3>3, <3>4 DEF UnderKind
      <3> QED BY <1>4, <3>5 DEF Under, w
    <2> QED BY <2>1, <2>2
  <1> QED BY <1>1, <1>2, <1>3, <1>4 DEF Under, UnderKind, UnderResidual, UnderScalar

LEMMA KindKindUnder ==
  ASSUME NEW t \in LeafType, Plain(t), NEW a \in Kinds, NEW b \in Kinds, Under(t, a)
  PROVE  Under(t, KindKind(a, b)) /\ Under(t, KindKind(b, a))
  <1>1. a.is = "kind" /\ b.is = "kind" BY KindShape
  <1>2. a # Nil BY <1>1 DEF Nil
  <1>3. CASE t = Top BY <1>3 DEF Under
  <1>4. CASE t.is = "kind" /\ KindSubsumes(t.kind, a.kind)
    <2>1. ASSUME NEW w, w = Nil \/ (w.is = "kind" /\ KindSubsumes(a.kind, w.kind))
          PROVE  Under(t, w)
      <3>1. CASE w = Nil BY <3>1, UnderNil
      <3>2. CASE w.is = "kind" /\ KindSubsumes(a.kind, w.kind)
        <4>1. KindSubsumes(t.kind, w.kind) BY <1>4, <3>2 DEF KindSubsumes, NumLeaf
        <4> QED BY <1>4, <3>2, <4>1 DEF Under, UnderKind
      <3> QED BY <2>1, <3>1, <3>2
    <2>2. KindKind(a, b) = Nil \/ (KindKind(a, b).is = "kind" /\ KindSubsumes(a.kind, KindKind(a, b).kind))
      BY <1>1 DEF KindKind, KindSubsumes, Kinds
    <2>3. KindKind(b, a) = Nil \/ (KindKind(b, a).is = "kind" /\ KindSubsumes(a.kind, KindKind(b, a).kind))
      BY <1>1 DEF KindKind, KindSubsumes, Kinds
    <2> QED BY <2>1, <2>2, <2>3
  <1> QED BY <1>1, <1>2, <1>3, <1>4 DEF Under, UnderKind, UnderResidual, UnderScalar

LEMMA UniteUnder ==
  ASSUME NEW t \in LeafType, Plain(t), NEW a \in LeafType, NEW b \in LeafType, ~Waives(a),
         ~Waives(b), Under(t, a), PathScalar(a) /\ PathScalar(b) => a.v = b.v
  PROVE  Under(t, Unite(a, b)) /\ Under(t, Unite(b, a))
  <1>1. a.is # "empty" /\ b.is # "empty" BY DEF Waives
  <1>2. a # Empty /\ b # Empty BY <1>1 DEF Empty
  <1>3. CASE a = Top
    <2>1. t = Top
      BY <1>3 DEF Under, Top, Nil, UnderKind, UnderResidual, UnderScalar
    <2> QED BY <2>1 DEF Under
  <1>4. CASE a = Nil \/ b = Nil
    <2>1. CASE a = Nil
      <3>1. Unite(a, b) = Nil /\ Unite(b, a) = Nil
        BY <2>1, LeafShape DEF Unite, Nil, Top
      <3> QED BY <3>1, UnderNil
    <2>2. CASE b = Nil /\ a # Nil /\ a # Top
      <3>1. a.is \notin {"top", "nil"} BY <2>2, LeafShape
      <3>2. Unite(a, b) = Nil /\ Unite(b, a) = Nil BY <2>2, <3>1 DEF Unite, Nil
      <3> QED BY <3>2, UnderNil
    <2> QED BY <1>3, <1>4, <2>1, <2>2
  <1>5. CASE b = Top /\ a # Nil /\ a # Top
    <2>1. a.is \notin {"top", "nil"} BY <1>5, LeafShape
    <2>2. Unite(a, b) = a /\ Unite(b, a) = a BY <1>5, <2>1 DEF Unite, Top
    <2> QED BY <2>2
  <1>6. CASE a \in Residuals /\ b \in Residuals
    <2>1. a.is = "residual" /\ b.is = "residual" BY <1>6, ResidualIs
    <2>2. Unite(a, b) = MeetConstraint(a, b) /\ Unite(b, a) = MeetConstraint(b, a)
      BY <2>1 DEF Unite
    <2> QED BY <1>6, <2>2, MergedUnder
  <1>7. CASE a \in Residuals /\ b \in Kinds
    <2>1. a.is = "residual" /\ b.is = "kind" BY <1>7, ResidualIs, KindShape
    <2>2. Unite(a, b) = MeetKind(a, b) /\ Unite(b, a) = MeetKind(a, b) BY <2>1 DEF Unite
    <2> QED BY <1>7, <2>2, NarrowedUnder
  <1>8. CASE a \in Kinds /\ b \in Residuals
    <2>1. a.is = "kind" /\ b.is = "residual" BY <1>8, ResidualIs, KindShape
    <2>2. Unite(a, b) = MeetKind(b, a) /\ Unite(b, a) = MeetKind(b, a) BY <2>1 DEF Unite
    <2> QED BY <1>8, <2>2, KindNarrowed
  <1>9. CASE a \in Residuals /\ b \in Scalars
    <2>1. a.is = "residual" /\ b.is = "scalar" BY <1>9, ResidualIs, ScalarShape
    <2>2. Unite(a, b) = Admit(a, b) /\ Unite(b, a) = Admit(a, b) BY <2>1 DEF Unite
    <2> QED BY <1>9, <2>2, AdmittedUnder
  <1>10. CASE a \in Scalars /\ b \in Residuals
    <2>1. a.is = "scalar" /\ b.is = "residual" BY <1>10, ResidualIs, ScalarShape
    <2>2. Unite(a, b) = Admit(b, a) /\ Unite(b, a) = Admit(b, a) BY <2>1 DEF Unite
    <2>3. Admit(b, a) = Nil \/ Keeps(Admit(b, a), a) BY <1>10, AdmitKeeps
    <2> QED BY <1>10, <2>2, <2>3, UnderNil, ScalarKept
  <1>11. CASE a \in Kinds /\ b \in Kinds
    <2>1. a.is = "kind" /\ b.is = "kind" BY <1>11, KindShape
    <2>2. Unite(a, b) = KindKind(a, b) /\ Unite(b, a) = KindKind(b, a) BY <2>1 DEF Unite
    <2> QED BY <1>11, <2>2, KindKindUnder
  <1>12. CASE a \in Kinds /\ b \in Scalars
    <2>1. a.is = "kind" /\ b.is = "scalar" BY <1>12, KindShape, ScalarShape
    <2>2. Unite(a, b) = KindScalar(a, b) /\ Unite(b, a) = KindScalar(a, b) BY <2>1 DEF Unite
    <2> QED BY <1>12, <2>2, KindedUnder
  <1>13. CASE a \in Scalars /\ b \in Kinds
    <2>1. a.is = "scalar" /\ b.is = "kind" BY <1>13, KindShape, ScalarShape
    <2>2. Unite(a, b) = KindScalar(b, a) /\ Unite(b, a) = KindScalar(b, a) BY <2>1 DEF Unite
    <2>3. KindScalar(b, a) = Nil \/ Keeps(KindScalar(b, a), a) BY <1>13, KindScalarKeeps
    <2> QED BY <1>13, <2>2, <2>3, UnderNil, ScalarKept
  <1>14. CASE a \in Scalars /\ b \in Scalars
    <2>1. a.is = "scalar" /\ b.is = "scalar" BY <1>14, ScalarShape
    <2>2. Unite(a, b) = ScalarScalar(a, b) /\ Unite(b, a) = ScalarScalar(b, a)
      BY <2>1 DEF Unite
    <2>3. /\ ScalarScalar(a, b) = Nil \/ Keeps(ScalarScalar(a, b), a)
          /\ ScalarScalar(b, a) = Nil \/ Keeps(ScalarScalar(b, a), a)
      BY <1>14, ScalarScalarKeeps
    <2> QED BY <1>14, <2>2, <2>3, UnderNil, ScalarKept
  <1> QED
    BY <1>2, <1>3, <1>4, <1>5, <1>6, <1>7, <1>8, <1>9, <1>10, <1>11, <1>12, <1>13, <1>14, LeafShape

LEMMA UnderSelf ==
  ASSUME NEW t \in LeafType, Plain(t)
  PROVE  Under(t, t)
  <1>1. t.is # "empty" BY DEF Plain, Comparable
  <1>2. CASE t.is = "kind" BY <1>2 DEF Under, UnderKind, KindSubsumes
  <1>3. CASE t.is = "scalar" BY <1>3 DEF Under, UnderScalar, SameScalar
  <1>4. CASE t.is = "residual"
    <2>1. t \in Residuals BY <1>4, LeafShape
    <2>2. OpaqueAtoms(t) = {} BY <1>4 DEF Plain, Comparable
    <2>3. ResidualCovers(t, t) BY <2>1, <2>2, CoversSelf
    <2> QED BY <1>4, <2>3 DEF Under, UnderResidual
  <1>5. CASE t.is \in {"top", "nil"} BY <1>5, LeafShape DEF Under
  <1> QED BY <1>1, <1>2, <1>3, <1>4, <1>5, LeafShape

\* What is below a term is found to be so by the query.
LEMMA UnderCovers ==
  ASSUME NEW t \in LeafType, Plain(t), NEW a \in LeafType, ~Waives(a), ~Refused(a), Under(t, a)
  PROVE  Covers(t, a)
  <1>1. a # Nil /\ a.is # "nil" BY LeafShape DEF Refused
  <1>2. CASE t = Top BY <1>2 DEF Covers, Top
  <1>3. CASE t.is = "kind" /\ UnderKind(t, a)
    <2>1. t \in Kinds /\ ~t.ok BY <1>3, LeafShape DEF Plain, Waives
    <2>2. CASE a.is = "kind"
      <3>1. ~a.ok BY <2>2 DEF Waives
      <3> QED BY <1>1, <1>3, <2>1, <2>2, <3>1 DEF Covers, KindCovers, UnderKind
    <2>3. CASE a.is = "scalar"
      <3>1. ~a.ok BY <2>3 DEF Waives
      <3>2. ~a.needs BY <2>3, <3>1 DEF Refused, RefusesEmpty, Needs, Waives
      <3> QED BY <1>1, <1>3, <2>1, <2>3, <3>1, <3>2 DEF Covers, KindCovers, UnderKind
    <2>4. CASE a.is = "residual"
      <3>1. ~a.emptyOk BY <2>4 DEF Waives
      <3>2. a.pathKind => ~a.nonEmpty BY <2>4, LeafShape, ResidualIs DEF WellFormed
      <3> QED BY <1>1, <1>3, <2>1, <2>4, <3>1, <3>2 DEF Covers, KindCovers, UnderKind, InsideString
    <2> QED BY <1>3, <2>2, <2>3, <2>4 DEF UnderKind
  <1>4. CASE t.is = "residual" /\ UnderResidual(t, a)
    <2>1. ~t.emptyOk /\ OpaqueAtoms(t) = {} BY <1>4 DEF Plain, Waives, Comparable
    <2>2. CASE a.is = "residual"
      BY <1>1, <1>4, <2>2 DEF Covers, ConstraintCovers, UnderResidual
    <2>3. CASE a.is = "scalar"
      <3>1. ~a.needs BY <2>3 DEF Refused, RefusesEmpty, Needs, Waives
      <3>2. t.checks = {} /\ t.rests = {} BY <2>1 DEF OpaqueAtoms
      <3> QED BY <1>1, <1>4, <2>3, <3>1, <3>2 DEF Covers, ConstraintCovers, UnderResidual
    <2> QED BY <1>4, <2>2, <2>3 DEF UnderResidual
  <1>5. CASE t.is = "scalar" /\ UnderScalar(t, a) BY <1>1, <1>5 DEF Covers, UnderScalar
  <1> QED BY <1>1, <1>2, <1>3, <1>4, <1>5 DEF Under

(***************************************************************************)
(* A part is below its terms.                                              *)
(***************************************************************************)
\* At most one address among the terms.
OnePath(ts) == \A s, t \in ts : PathScalar(s) /\ PathScalar(t) => s.v = t.v

\* What a value that met the terms A is: where none of them waives and one
\* address is among them at most, it is below each and holds no other one.
Beneath(a, A) ==
  (\A t \in A : ~Waives(t)) /\ OnePath(A) =>
    /\ PathScalar(a) => \E t \in A : PathScalar(t) /\ t.v = a.v
    /\ \A t \in A : Comparable(t) => Under(t, a)

BelowInv == \A p \in Part : IsFiniteSet(met[p]) /\ Beneath(val[p], met[p])

LEMMA UnitePath ==
  ASSUME NEW a \in LeafType, NEW b \in LeafType, PathScalar(Unite(a, b))
  PROVE  \/ PathScalar(a) /\ a.v = Unite(a, b).v
         \/ PathScalar(b) /\ b.v = Unite(a, b).v
  <1> DEFINE u == Unite(a, b)
  <1>1. u.is = "scalar" BY DEF PathScalar
  <1>2. \A c : c.is \in {"nil", "residual"} => u # c BY <1>1
  <1>3. ASSUME NEW s \in Scalars, NEW w \in Scalars, Shape(w) = Shape(s), u = w
        PROVE  PathScalar(s) /\ s.v = u.v
    <2>1. Shape(w).v = w.v /\ Shape(s).v = s.v BY DEF Shape
    <2> QED BY <1>3, <2>1, ShapePath
  <1>4. Nil.is # "scalar" BY DEF Nil
  <1>5. \A r : Finish(r).is = "scalar" => Finish(r) = r BY <1>4 DEF Finish
  <1>6. CASE u = a \/ u = b BY <1>6
  <1>7. CASE u = Nil BY <1>1, <1>4, <1>7
  <1>8. CASE (b = Empty /\ u = MeetEmpty(a) /\ a.is # "top") \/ (a = Empty /\ u = MeetEmpty(b) /\ b.is # "top")
    <2>1. PICK c \in {a, b} : u = MeetEmpty(c) /\ c.is # "top" BY <1>8
    <2>2. c \in LeafType BY <2>1
    <2>3. c.is = "scalar" /\ c.leaf = "string" => u = WithEmpty(c) BY <2>1 DEF MeetEmpty
    <2>4. ~(c.is = "scalar" /\ c.leaf = "string")
      <3>1. SUFFICES ASSUME c.is = "scalar", c.leaf = "string" PROVE FALSE OBVIOUS
      <3>2. c \in Scalars BY <2>2, <3>1, LeafShape
      <3>3. WithEmpty(c) \in Scalars /\ Shape(WithEmpty(c)) = Shape(c) BY <3>2, FlaggedScalar
      <3>4. PathScalar(c) BY <1>3, <2>3, <3>1, <3>2, <3>3
      <3> QED BY <3>1, <3>4 DEF PathScalar
    <2>5. CASE c.is = "kind"
      <3>1. u.is # "scalar" BY <2>1, <2>2, <2>5, LeafShape DEF MeetEmpty, Kinds, Nil
      <3> QED BY <1>1, <3>1
    <2>6. CASE c.is = "residual"
      <3>1. c \in ResidualType BY <2>2, <2>6, LeafShape, ResidualIs
      <3>2. u = AllowEmpty(c) BY <2>1, <2>6 DEF MeetEmpty
      <3>3. u = Nil \/ u = Finish([c EXCEPT !.domain = "string", !.emptyOk = TRUE])
        BY <3>2 DEF AllowEmpty
      <3>4. [c EXCEPT !.domain = "string", !.emptyOk = TRUE].is = "residual"
        BY <3>1 DEF ResidualType
      <3> QED BY <1>1, <1>4, <1>5, <3>3, <3>4
    <2>7. CASE c.is = "scalar" /\ c.leaf # "string" BY <1>1, <1>4, <2>1, <2>7 DEF MeetEmpty
    <2>8. CASE c.is \in {"empty", "nil"} BY <1>1, <2>1, <2>8 DEF MeetEmpty, Empty
    <2> QED BY <2>1, <2>2, <2>4, <2>5, <2>6, <2>7, <2>8, LeafShape
  <1>9. CASE a \in Residuals /\ b \in Residuals /\ u = MeetConstraint(a, b)
    <2>1. Merged(a, b).is = "residual" BY DEF Merged
    <2> QED BY <1>1, <1>4, <1>5, <1>9, <2>1 DEF MeetConstraint
  <1>10. ASSUME NEW r \in Residuals, NEW k \in Kinds PROVE MeetKind(r, k).is # "scalar"
    <2>1. Narrowed(r, k).is = "residual" BY ResidualIs, NarrowedForm, AsideFields
    <2> QED BY <1>4, <1>5, <2>1 DEF MeetKind
  <1>11. ASSUME NEW r \in Residuals, NEW s \in Scalars, u = Admit(r, s)
         PROVE  PathScalar(s) /\ s.v = u.v
    BY <1>1, <1>3, <1>4, <1>11, AdmitForm
  <1>12. ASSUME NEW k \in Kinds, NEW s \in Scalars, u = KindScalar(k, s)
         PROVE  PathScalar(s) /\ s.v = u.v
    BY <1>1, <1>3, <1>4, <1>12, KindScalarForm
  <1>13. CASE a \in Kinds /\ b \in Kinds /\ u = KindKind(a, b)
    <2>1. u.is = "kind" \/ u = Nil BY <1>13, KindShape DEF KindKind, Kinds
    <2> QED BY <1>1, <1>4, <2>1
  <1>14. CASE a \in Scalars /\ b \in Scalars /\ u = ScalarScalar(a, b)
    <2>1. CASE SameScalar(a, b) /\ u = [a EXCEPT !.needs = a.needs \/ b.needs, !.ok = a.ok \/ b.ok]
      <3> DEFINE w == [a EXCEPT !.needs = a.needs \/ b.needs, !.ok = a.ok \/ b.ok]
      <3>1. w \in Scalars /\ Shape(w) = Shape(a) BY <1>14, <2>1, SharedScalar
      <3>2. u = w BY <2>1
      <3> HIDE DEF w, u
      <3> QED BY <1>3, <1>14, <3>1, <3>2 DEF u
    <2> QED BY <1>6, <1>7, <1>14, <2>1, ScalarScalarForm
  <1> QED
    BY <1>1, <1>6, <1>7, <1>8, <1>9, <1>10, <1>11, <1>12, <1>13, <1>14, UniteCases DEF u

LEMMA UniteBeneath ==
  ASSUME NEW a, NEW A, Means(a, A), Beneath(a, A), NEW b, NEW B, Means(b, B), Beneath(b, B),
         A \subseteq LeafType, B \subseteq LeafType, \A t \in A \union B : Waives(t) => t = Empty,
         NEW u, u = Unite(a, b) \/ u = Unite(b, a)
  PROVE  Beneath(u, A \union B)
  <1> SUFFICES ASSUME \A t \in A \union B : ~Waives(t), OnePath(A \union B)
               PROVE  /\ PathScalar(u) => \E t \in A \union B : PathScalar(t) /\ t.v = u.v
                      /\ \A t \in A \union B : Comparable(t) => Under(t, u)
    BY DEF Beneath
  <1>1. a \in LeafType /\ b \in LeafType BY DEF Means
  <1>2. Waives(Empty) BY DEF Waives, Empty
  <1>3. ~Waives(a) /\ ~Waives(b) BY <1>2 DEF Means
  <1>4. OnePath(A) /\ OnePath(B) BY DEF OnePath
  <1>5. /\ PathScalar(a) => \E t \in A : PathScalar(t) /\ t.v = a.v
        /\ \A t \in A : Comparable(t) => Under(t, a)
    BY <1>4 DEF Beneath
  <1>6. /\ PathScalar(b) => \E t \in B : PathScalar(t) /\ t.v = b.v
        /\ \A t \in B : Comparable(t) => Under(t, b)
    BY <1>4 DEF Beneath
  <1>7. PathScalar(a) /\ PathScalar(b) => a.v = b.v BY <1>5, <1>6 DEF OnePath
  <1>8. PathScalar(u) => \E t \in A \union B : PathScalar(t) /\ t.v = u.v
    BY <1>1, <1>5, <1>6, UnitePath
  <1>9. ASSUME NEW t \in A, Comparable(t) PROVE Under(t, u)
    <2>1. Under(t, a) /\ Plain(t) BY <1>5, <1>9 DEF Plain
    <2>2. Under(t, Unite(a, b)) /\ Under(t, Unite(b, a)) BY <1>1, <1>3, <1>7, <2>1, UniteUnder
    <2> QED BY <2>2
  <1>10. ASSUME NEW t \in B, Comparable(t) PROVE Under(t, u)
    <2>1. Under(t, b) /\ Plain(t) BY <1>6, <1>10 DEF Plain
    <2>2. PathScalar(b) /\ PathScalar(a) => b.v = a.v BY <1>7
    <2>3. Under(t, Unite(a, b)) /\ Under(t, Unite(b, a)) BY <1>1, <1>3, <2>1, <2>2, UniteUnder
    <2> QED BY <2>3
  <1> QED BY <1>8, <1>9, <1>10

LEMMA TermBeneath == ASSUME NEW t \in Terms PROVE Beneath(t, {t})
  <1> SUFFICES ASSUME ~Waives(t)
               PROVE  /\ PathScalar(t) => \E s \in {t} : PathScalar(s) /\ s.v = t.v
                      /\ \A s \in {t} : Comparable(s) => Under(s, t)
    BY DEF Beneath
  <1>1. Comparable(t) => Under(t, t) BY TermsAssumption, UnderSelf DEF Plain
  <1> QED BY <1>1

LEMMA TopBeneath == Beneath(Top, {})
  BY DEF Beneath, PathScalar, Top

LEMMA BelowStep ==
  ASSUME IInv, BelowInv, [Next]_vars
  PROVE  BelowInv'
  <1>1. TypeOK /\ PartInv /\ MeetIsExact BY DEF IInv
  <1>2. \A p \in Part : /\ Means(val[p], met[p]) /\ Beneath(val[p], met[p])
                       /\ IsFiniteSet(met[p])
    BY <1>1, PartMeans DEF BelowInv
  <1>3. Terms \subseteq LeafType /\ \A t \in Terms : Waives(t) => t = Empty BY TermsAssumption
  <1>4. \A p \in Part : met[p] \subseteq Terms BY <1>1 DEF TypeOK
  <1>5. ASSUME NEW q \in Part, NEW t \in Terms, Write(q, t) PROVE BelowInv'
    <2>1. PICK v \in {Unite(val[q], t), Unite(t, val[q])} : val' = [val EXCEPT ![q] = v]
      BY <1>5 DEF Write
    <2>2. met' = [met EXCEPT ![q] = met[q] \union {t}] BY <1>5 DEF Write
    <2>3. Means(t, {t}) /\ Beneath(t, {t}) BY TermMeans, TermBeneath
    <2>4. met[q] \subseteq LeafType /\ {t} \subseteq LeafType BY <1>3, <1>4
    <2>5. \A s \in met[q] \union {t} : Waives(s) => s = Empty BY <1>3, <1>4
    <2>6. Beneath(v, met[q] \union {t}) BY <1>2, <2>1, <2>3, <2>4, <2>5, UniteBeneath
    <2>7. \A p \in Part : val'[p] = (IF p = q THEN v ELSE val[p])
                          /\ met'[p] = (IF p = q THEN met[q] \union {t} ELSE met[p])
      BY <1>1, <2>1, <2>2 DEF TypeOK
    <2>8. \A p \in Part : Beneath(val'[p], met'[p]) BY <1>2, <2>6, <2>7
    <2>9. IsFiniteSet(met[q] \union {t}) BY <1>2, FS_AddElement
    <2>10. \A p \in Part : IsFiniteSet(met'[p]) BY <1>2, <2>7, <2>9
    <2> QED BY <2>8, <2>10 DEF BelowInv, Beneath
  <1>6. CASE Join
    <2> DEFINE v == Unite(val["left"], val["right"])
               A == met["left"] \union met["right"]
    <2>1. "left" \in Part /\ "right" \in Part BY DEF Part
    <2>2. /\ val' = [val EXCEPT !["left"] = v, !["right"] = Top]
          /\ met' = [met EXCEPT !["left"] = A, !["right"] = {}]
      BY <1>6 DEF Join
    <2>3. met["left"] \subseteq LeafType /\ met["right"] \subseteq LeafType
      BY <1>3, <1>4, <2>1
    <2>4. \A s \in met["left"] \union met["right"] : Waives(s) => s = Empty
      BY <1>3, <1>4, <2>1
    <2>5. Beneath(v, A) BY <1>2, <2>1, <2>3, <2>4, UniteBeneath
    <2>6. IsFiniteSet(A) BY <1>2, <2>1, FS_Union
    <2> HIDE DEF v, A
    <2>7. /\ val'["left"] = v /\ val'["right"] = Top
          /\ met'["left"] = A /\ met'["right"] = {}
      BY <1>1, <2>1, <2>2 DEF TypeOK
    <2>8. \A p \in Part : Beneath(val'[p], met'[p]) BY <2>5, <2>7, TopBeneath DEF Part
    <2>9. \A p \in Part : IsFiniteSet(met'[p]) BY <2>7, <2>6, FS_EmptySet DEF Part
    <2> QED BY <2>8, <2>9 DEF BelowInv, Beneath
  <1>7. CASE UNCHANGED vars BY <1>7 DEF vars, BelowInv, Beneath
  <1> QED BY <1>5, <1>6, <1>7 DEF Next

\* Of a finite set with one element at most, any two are one.
LEMMA PathsAreOne ==
  ASSUME NEW ts, IsFiniteSet(ts), Cardinality(PathValues(ts)) <= 1
  PROVE  OnePath(ts)
  <1>1. IsFiniteSet(PathValues(ts)) BY FS_Subset DEF PathValues
  <1>2. ASSUME NEW s \in PathValues(ts), NEW t \in PathValues(ts), s # t PROVE FALSE
    <2>1. {s, t} \subseteq PathValues(ts) OBVIOUS
    <2>2. Cardinality({s, t}) <= Cardinality(PathValues(ts)) BY <1>1, <2>1, FS_Subset
    <2>3. Cardinality({s, t}) = 2
      <3>1. Cardinality({s}) = 1 /\ IsFiniteSet({s}) BY FS_Singleton
      <3>2. {s, t} = {s} \cup {t} OBVIOUS
      <3>3. Cardinality({s} \cup {t}) = Cardinality({s}) + 1 BY <1>2, <3>1, FS_AddElement
      <3> QED BY <3>1, <3>2, <3>3
    <2>4. Cardinality(PathValues(ts)) \in Nat BY <1>1, FS_CardinalityType
    <2> QED BY <2>2, <2>3, <2>4
  <1> QED BY <1>2 DEF OnePath, PathValues, PathScalar

LEMMA BelowHolds == Spec => []BelowInv
  <1>1. Init => BelowInv
    <2> SUFFICES ASSUME Init PROVE BelowInv OBVIOUS
    <2>1. \A p \in Part : val[p] = Top /\ met[p] = {} BY DEF Init
    <2> QED BY <2>1, TopBeneath, FS_EmptySet DEF BelowInv
  <1>2. IInv /\ BelowInv /\ [Next]_vars => BelowInv' BY BelowStep
  <1> QED BY <1>1, <1>2, Invariance, PTL DEF Spec

(***************************************************************************)
(* "A covers B exactly when A & B is B": whatever the terms, their order,  *)
(* side and grouping, the query finds a part below each term it met.       *)
(***************************************************************************)
THEOREM MeetsAreBelow == Spec => []MeetIsBelow
  <1>1. IInv /\ BelowInv => MeetIsBelow
    <2> SUFFICES ASSUME IInv, BelowInv, NEW p \in Part, ~Refused(val[p]),
                        \A t \in met[p] : ~Waives(t), Cardinality(PathValues(met[p])) <= 1,
                        NEW t \in met[p], Comparable(t)
                 PROVE  Covers(t, val[p])
      BY DEF MeetIsBelow
    <2>1. TypeOK /\ PartInv BY DEF IInv
    <2>2. val[p] \in LeafType /\ t \in LeafType BY <2>1, TermsAssumption DEF TypeOK
    <2>3. ~Waives(val[p])
      <3>1. Waives(Empty) BY DEF Waives, Empty
      <3> QED BY <2>1, <3>1 DEF PartInv
    <2>4. OnePath(met[p]) BY PathsAreOne DEF BelowInv
    <2>5. Under(t, val[p]) BY <2>4 DEF BelowInv, Beneath
    <2>6. Plain(t) BY DEF Plain
    <2> QED BY <2>2, <2>3, <2>5, <2>6, UnderCovers
  <1> QED BY <1>1, Invariance, BelowHolds, PTL DEF Spec

(***************************************************************************)
(* The order of the values.  What a value says, what it waives and what it *)
(* is owed is kept by a narrower one.  nil, which no value passes, keeps   *)
(* everything.  An address keeps itself alone, and nothing that waives.    *)
(***************************************************************************)
\* A scalar that is owed a refusal, or let off, and has kept that.
Owed(needs, ok, s) == (needs => s.needs \/ s.ok) /\ (ok => s.ok)

EmptyHeld(u) ==
  \/ u.is = "empty"
  \/ u.is = "kind" /\ u.kind = "string" /\ u.ok
  \/ u.is = "scalar" /\ u.leaf = "string" /\ u.ok
  \/ u.is = "residual" /\ u.domain = "string" /\ u.emptyOk

KindInState(k, u) ==
  /\ k.kind \in NumLeaf => u.domain = "number" /\ u.kind = k.kind
  /\ k.kind = "number" => u.domain = "number"
  /\ k.kind = "string" => u.domain = "string" /\ u.nonEmpty /\ (k.ok => u.emptyOk)
  /\ k.kind = "path" => u.domain = "string" /\ u.pathKind

KindHeld(k, u) ==
  \/ u.is = "kind" /\ KindSubsumes(k.kind, u.kind) /\ (k.ok => u.ok)
  \/ /\ u.is = "scalar" /\ KindSubsumes(k.kind, u.leaf)
     /\ Owed(k.kind = "string" /\ u.v = 0, k.ok, u)
  \/ u.is = "residual" /\ KindInState(k, u)

ResidualHeld(r, u) ==
  \/ u.is = "residual" /\ StateKept(r, u)
  \/ /\ u.is = "scalar" /\ AdmitsScalar(r, u)
     /\ r.emptyOk => u.leaf # "path"
     /\ Owed(r.nonEmpty /\ u.leaf = "string" /\ u.v = 0, r.emptyOk, u)

ScalarHeld(s, u) == u.is = "scalar" /\ SameScalar(s, u) /\ Owed(s.needs, s.ok, u)

Heeds(a, u) ==
  \/ u.is = "nil"
  \/ a.is = "top"
  \/ a.is = "empty" /\ EmptyHeld(u)
  \/ a.is = "kind" /\ KindHeld(a, u)
  \/ a.is = "residual" /\ ResidualHeld(a, u)
  \/ a.is = "scalar" /\ ScalarHeld(a, u)

(***************************************************************************)
(* What is kept: a scalar a narrower residual admits the wider one admits. *)
(***************************************************************************)
LEMMA InsideKept ==
  ASSUME NEW r, NEW u, r.lo \in Ends, r.hi \in Ends, u.lo \in Ends, u.hi \in Ends,
         LowKept(r.lo, u.lo), HighKept(r.hi, u.hi), r.kind # "none" => u.kind = r.kind,
         r.neqs \subseteq u.neqs, MultsKept(r.mults, u.mults), NEW x, x.v \in Int, Inside(u, x)
  PROVE  Inside(r, x)
  <1>1. AboveLo(r.lo, x.v) BY EndsShape DEF LowKept, Inside, AboveLo
  <1>2. BelowHi(r.hi, x.v) BY EndsShape DEF HighKept, Inside, BelowHi
  <1>3. ASSUME NEW m \in r.mults PROVE IsMultiple(x.v, m.v)
    <2>1. PICK n \in u.mults : n.v = m.v BY DEF MultsKept
    <2> QED BY <2>1 DEF Inside
  <1>4. r.kind # "none" => x.leaf = r.kind BY DEF Inside
  <1>5. [leaf |-> x.leaf, v |-> x.v] \notin r.neqs BY DEF Inside
  <1> QED BY <1>1, <1>2, <1>3, <1>4, <1>5 DEF Inside

LEMMA CountAdmitsKept ==
  ASSUME NEW c \in CountType, NEW d \in CountType, CountKept(c, d), NEW n \in Nat,
         CountAdmits(d, n)
  PROVE  CountAdmits(c, n)
  <1> SUFFICES ASSUME c.on PROVE Inside(c, CountVal(n)) BY DEF CountAdmits
  <1>1. /\ d.on /\ LowKept(c.lo, d.lo) /\ HighKept(c.hi, d.hi)
        /\ c.neqs \subseteq d.neqs /\ MultsKept(c.mults, d.mults)
    BY DEF CountKept
  <1>2. Inside(d, CountVal(n)) BY <1>1 DEF CountAdmits
  <1>3. CountVal(n).v \in Int BY DEF CountVal
  <1>4. /\ c.lo \in Ends /\ c.hi \in Ends /\ d.lo \in Ends /\ d.hi \in Ends
        /\ c.kind # "none" => d.kind = c.kind
    BY CountParts
  <1> QED BY <1>1, <1>2, <1>3, <1>4, InsideKept

LEMMA AdmitsKept ==
  ASSUME NEW r \in ResidualType, NEW u \in ResidualType, WellFormed(r), WellFormed(u),
         StateKept(r, u), NEW x \in Instance, x.leaf # "bag", AdmitsScalar(u, x)
  PROVE  AdmitsScalar(r, x)
  <1>1. /\ ~u.uniq /\ u.keys = {} /\ u.contains = {} /\ StateAdmits(u, x)
        /\ u.nonEmpty => x.leaf # "path"
        /\ u.pathKind => x.leaf = "path"
        /\ u.count.on => x.leaf \in TextLeaf /\ CountAdmits(u.count, Length[x.v])
        /\ Passes(u.checks, x)
    BY DEF AdmitsScalar
  <1>2. ~r.uniq /\ r.keys = {} /\ r.contains = {} BY <1>1 DEF StateKept
  <1>3. r.count.on => u.count.on BY DEF StateKept, CountKept
  <1>4. r.count.on => x.leaf \in TextLeaf /\ CountAdmits(r.count, Length[x.v])
    <2> SUFFICES ASSUME r.count.on PROVE x.leaf \in TextLeaf /\ CountAdmits(r.count, Length[x.v])
      OBVIOUS
    <2>1. x.leaf \in TextLeaf /\ CountAdmits(u.count, Length[x.v]) BY <1>1, <1>3
    <2>2. Length[x.v] \in Nat BY <2>1, LengthIsNat
    <2>3. r.count \in CountType /\ u.count \in CountType /\ CountKept(r.count, u.count)
      BY StateParts DEF StateKept
    <2> QED BY <2>1, <2>2, <2>3, CountAdmitsKept
  <1>5. Passes(r.checks, x) BY <1>1 DEF Passes, StateKept
  <1>6. /\ r.nonEmpty => x.leaf # "path"
        /\ r.pathKind => x.leaf = "path"
    BY <1>1 DEF StateKept
  <1>7. StateAdmits(r, x)
    <2>1. CASE r.domain = "none" /\ DomainOf(x) # "none" BY <2>1 DEF StateAdmits
    <2>2. CASE r.domain = "none" /\ DomainOf(x) = "none"
      <3>1. x.leaf \notin TextLeaf BY <2>2 DEF DomainOf
      <3> QED BY <1>2, <1>4, <2>2, <3>1 DEF StateAdmits
    <2>3. CASE r.domain # "none"
      <3>1. u.domain = r.domain BY <2>3 DEF StateKept
      <3>2. DomainOf(x) = u.domain /\ Inside(u, x) /\ Passes(u.tests, x)
        BY <1>1, <2>3, <3>1 DEF StateAdmits
      <3>3. x.v \in Int BY InstanceShape
      <3>4. /\ r.lo \in Ends /\ r.hi \in Ends /\ u.lo \in Ends /\ u.hi \in Ends
            /\ LowKept(r.lo, u.lo) /\ HighKept(r.hi, u.hi)
            /\ r.kind # "none" => u.kind = r.kind
            /\ r.neqs \subseteq u.neqs /\ MultsKept(r.mults, u.mults)
        BY StateParts DEF StateKept
      <3>5. Inside(r, x) BY <3>2, <3>3, <3>4, InsideKept
      <3>6. Passes(r.tests, x) BY <3>2 DEF Passes, StateKept
      <3> QED BY <2>3, <3>1, <3>2, <3>5, <3>6 DEF StateAdmits
    <2> QED BY <2>1, <2>2, <2>3
  <1> QED BY <1>2, <1>4, <1>5, <1>6, <1>7 DEF AdmitsScalar

\* The same of a scalar that a meet has flagged.
LEMMA ScalarAdmitsKept ==
  ASSUME NEW r \in Residuals, NEW u \in Residuals, StateKept(r, u), NEW s \in Scalars,
         AdmitsScalar(u, s)
  PROVE  AdmitsScalar(r, s)
  <1>1. Shape(s) \in Instance /\ Shape(s).leaf # "bag" BY ScalarShape DEF Shape
  <1>2. AdmitsScalar(u, Shape(s)) BY SameVerdict
  <1>3. AdmitsScalar(r, Shape(s)) BY <1>1, <1>2, ResidualIs, AdmitsKept
  <1> QED BY <1>3, SameVerdict

LEMMA SameShapeVerdict ==
  ASSUME NEW r, NEW s, NEW t, SameScalar(s, t)
  PROVE  AdmitsScalar(r, s) <=> AdmitsScalar(r, t)
  <1>1. Shape(s) = Shape(t) BY DEF SameScalar, Shape
  <1> QED BY <1>1, SameVerdict

\* What a residual admits is of its domain and kind.
LEMMA AdmittedDomain ==
  ASSUME NEW r \in Residuals, NEW s, AdmitsScalar(r, s)
  PROVE  /\ r.domain # "none" => DomainOf(s) = r.domain
         /\ r.kind # "none" => s.leaf = r.kind
         /\ r.nonEmpty => s.leaf # "path"
         /\ r.pathKind => s.leaf = "path"
         /\ r.domain = "number" => s.leaf \in NumLeaf
         /\ r.domain = "string" => s.leaf \in TextLeaf
  <1>1. r.kind # "none" => r.domain = "number" BY ResidualIs DEF WellFormed
  <1> QED BY <1>1 DEF AdmitsScalar, StateAdmits, Inside, DomainOf

(***************************************************************************)
(* The order is one.                                                       *)
(***************************************************************************)
LEMMA IsTells ==
  /\ \A k \in Kinds : k.is = "kind"
  /\ \A s \in Scalars : s.is = "scalar"
  /\ \A r \in Residuals : r.is = "residual"
  /\ Top.is = "top" /\ Nil.is = "nil" /\ Empty.is = "empty"
  BY KindShape, ScalarShape, ResidualIs DEF Top, Nil, Empty

LEMMA HeedsSelf == ASSUME NEW a \in LeafType PROVE Heeds(a, a)
  <1>1. CASE a.is \in {"nil", "top", "empty"} BY <1>1 DEF Heeds, EmptyHeld
  <1>2. CASE a.is = "kind" BY <1>2, LeafShape, KindShape DEF Heeds, KindHeld, KindSubsumes
  <1>3. CASE a.is = "scalar" BY <1>3 DEF Heeds, ScalarHeld, SameScalar, Owed
  <1>4. CASE a.is = "residual"
    <2>1. StateKept(a, a) BY <1>4, LeafShape, ResidualIs, StateKeptSelf
    <2> QED BY <1>4, <2>1 DEF Heeds, ResidualHeld
  <1> QED BY <1>1, <1>2, <1>3, <1>4, LeafShape

LEMMA SubsumesTransitive ==
  ASSUME NEW i, NEW j, NEW k, KindSubsumes(i, j), KindSubsumes(j, k)
  PROVE  KindSubsumes(i, k)
  BY DEF KindSubsumes, NumLeaf

LEMMA KindTransitive ==
  ASSUME NEW a \in Kinds, NEW b \in LeafType, NEW c \in LeafType, KindHeld(a, b), Heeds(b, c)
  PROVE  Heeds(a, c)
  <1> SUFFICES ASSUME c.is # "nil" PROVE KindHeld(a, c) BY IsTells DEF Heeds
  <1>1. a.kind \in {"path", "string", "number"} \union NumLeaf /\ (a.ok => a.kind = "string")
    BY KindShape
  <1>2. CASE b.is = "kind"
    <2>1. b \in Kinds /\ KindSubsumes(a.kind, b.kind) /\ (a.ok => b.ok)
      BY <1>2, LeafShape DEF KindHeld
    <2>2. KindHeld(b, c) BY <1>2 DEF Heeds
    <2>3. b.kind \in {"path", "string", "number"} \union NumLeaf /\ (b.ok => b.kind = "string")
      BY <2>1, KindShape
    <2>4. CASE c.is = "kind"
      BY <2>1, <2>2, <2>4, SubsumesTransitive DEF KindHeld
    <2>5. CASE c.is = "scalar"
      <3>1. KindSubsumes(b.kind, c.leaf) /\ Owed(b.kind = "string" /\ c.v = 0, b.ok, c)
        BY <2>2, <2>5 DEF KindHeld
      <3>2. KindSubsumes(a.kind, c.leaf) BY <2>1, <3>1, SubsumesTransitive
      <3>3. a.kind = "string" => b.kind = "string" BY <2>1 DEF KindSubsumes
      <3> QED BY <2>1, <2>5, <3>1, <3>2, <3>3 DEF KindHeld, Owed
    <2>6. CASE c.is = "residual"
      <3>1. KindInState(b, c) BY <2>2, <2>6 DEF KindHeld
      <3>2. KindInState(a, c) BY <1>1, <2>1, <2>3, <3>1 DEF KindInState, KindSubsumes, NumLeaf
      <3> QED BY <2>6, <3>2 DEF KindHeld
    <2> QED BY <2>2, <2>4, <2>5, <2>6 DEF KindHeld
  <1>3. CASE b.is = "scalar"
    <2>1. KindSubsumes(a.kind, b.leaf) /\ Owed(a.kind = "string" /\ b.v = 0, a.ok, b)
      BY <1>3 DEF KindHeld
    <2>2. ScalarHeld(b, c) BY <1>3 DEF Heeds
    <2>3. c.is = "scalar" /\ b.leaf = c.leaf /\ b.v = c.v /\ Owed(b.needs, b.ok, c)
      BY <2>2 DEF ScalarHeld, SameScalar
    <2> QED BY <2>1, <2>3 DEF KindHeld, Owed
  <1>4. CASE b.is = "residual"
    <2>1. b \in Residuals /\ KindInState(a, b) BY <1>4, LeafShape DEF KindHeld
    <2>2. ResidualHeld(b, c) BY <1>4 DEF Heeds
    <2>3. CASE c.is = "residual"
      <3>1. StateKept(b, c) BY <2>2, <2>3 DEF ResidualHeld
      <3>2. KindInState(a, c)
        BY <1>1, <2>1, <3>1, KindShape DEF KindInState, StateKept, NumLeaf
      <3> QED BY <2>3, <3>2 DEF KindHeld
    <2>4. CASE c.is = "scalar"
      <3>1. /\ AdmitsScalar(b, c) /\ (b.emptyOk => c.leaf # "path")
            /\ Owed(b.nonEmpty /\ c.leaf = "string" /\ c.v = 0, b.emptyOk, c)
        BY <2>2, <2>4 DEF ResidualHeld
      <3>2. /\ b.kind # "none" => c.leaf = b.kind
            /\ b.nonEmpty => c.leaf # "path"
            /\ b.pathKind => c.leaf = "path"
            /\ b.domain = "number" => c.leaf \in NumLeaf
            /\ b.domain = "string" => c.leaf \in TextLeaf
        BY <2>1, <3>1, AdmittedDomain
      <3>3. KindSubsumes(a.kind, c.leaf)
        BY <1>1, <2>1, <3>2 DEF KindInState, KindSubsumes, NumLeaf, TextLeaf
      <3>4. a.kind = "string" => b.nonEmpty /\ c.leaf = "string" /\ (a.ok => b.emptyOk)
        BY <2>1, <3>2 DEF KindInState, TextLeaf
      <3>5. Owed(a.kind = "string" /\ c.v = 0, a.ok, c) BY <1>1, <3>1, <3>4 DEF Owed
      <3> QED BY <2>4, <3>3, <3>5 DEF KindHeld
    <2> QED BY <2>2, <2>3, <2>4 DEF ResidualHeld
  <1> QED BY <1>2, <1>3, <1>4 DEF KindHeld

LEMMA ResidualTransitive ==
  ASSUME NEW a \in Residuals, NEW b \in LeafType, NEW c \in LeafType, ResidualHeld(a, b),
         Heeds(b, c)
  PROVE  Heeds(a, c)
  <1> SUFFICES ASSUME c.is # "nil" PROVE ResidualHeld(a, c) BY IsTells DEF Heeds
  <1>1. CASE b.is = "residual"
    <2>1. b \in Residuals /\ StateKept(a, b) BY <1>1, LeafShape DEF ResidualHeld
    <2>2. ResidualHeld(b, c) BY <1>1 DEF Heeds
    <2>3. CASE c.is = "residual"
      <3>1. StateKept(b, c) /\ c \in Residuals BY <2>2, <2>3, LeafShape DEF ResidualHeld
      <3>2. StateKept(a, c) BY <2>1, <3>1, ResidualIs, StateTransitive
      <3> QED BY <2>3, <3>2 DEF ResidualHeld
    <2>4. CASE c.is = "scalar"
      <3>1. /\ AdmitsScalar(b, c) /\ (b.emptyOk => c.leaf # "path")
            /\ Owed(b.nonEmpty /\ c.leaf = "string" /\ c.v = 0, b.emptyOk, c)
        BY <2>2, <2>4 DEF ResidualHeld
      <3>2. c \in Scalars BY <2>4, LeafShape
      <3>3. AdmitsScalar(a, c) BY <2>1, <3>1, <3>2, ScalarAdmitsKept
      <3>4. (a.nonEmpty => b.nonEmpty) /\ (a.emptyOk => b.emptyOk) BY <2>1 DEF StateKept
      <3>5. Owed(a.nonEmpty /\ c.leaf = "string" /\ c.v = 0, a.emptyOk, c)
        BY <3>1, <3>4 DEF Owed
      <3> QED BY <2>4, <3>1, <3>3, <3>4, <3>5 DEF ResidualHeld
    <2> QED BY <2>2, <2>3, <2>4 DEF ResidualHeld
  <1>2. CASE b.is = "scalar"
    <2>1. /\ AdmitsScalar(a, b) /\ (a.emptyOk => b.leaf # "path")
          /\ Owed(a.nonEmpty /\ b.leaf = "string" /\ b.v = 0, a.emptyOk, b)
      BY <1>2 DEF ResidualHeld
    <2>2. ScalarHeld(b, c) BY <1>2 DEF Heeds
    <2>3. /\ c.is = "scalar" /\ SameScalar(b, c) /\ b.leaf = c.leaf /\ b.v = c.v
          /\ Owed(b.needs, b.ok, c)
      BY <2>2 DEF ScalarHeld, SameScalar
    <2>4. AdmitsScalar(a, c) BY <2>1, <2>3, SameShapeVerdict
    <2>5. Owed(a.nonEmpty /\ c.leaf = "string" /\ c.v = 0, a.emptyOk, c)
      BY <2>1, <2>3 DEF Owed
    <2> QED BY <2>1, <2>3, <2>4, <2>5 DEF ResidualHeld
  <1> QED BY <1>1, <1>2 DEF ResidualHeld

LEMMA EmptyTransitive ==
  ASSUME NEW b \in LeafType, NEW c \in LeafType, EmptyHeld(b), Heeds(b, c)
  PROVE  Heeds(Empty, c)
  <1> SUFFICES ASSUME c.is # "nil" PROVE EmptyHeld(c) BY IsTells DEF Heeds
  <1>1. CASE b.is = "empty" BY <1>1 DEF Heeds
  <1>2. CASE b.is = "kind"
    <2>1. b.kind = "string" /\ b.ok /\ KindHeld(b, c) BY <1>2 DEF EmptyHeld, Heeds
    <2> QED BY <2>1 DEF KindHeld, KindInState, KindSubsumes, Owed, EmptyHeld
  <1>3. CASE b.is = "scalar"
    <2>1. b.leaf = "string" /\ b.ok /\ ScalarHeld(b, c) BY <1>3 DEF EmptyHeld, Heeds
    <2> QED BY <2>1 DEF ScalarHeld, SameScalar, Owed, EmptyHeld
  <1>4. CASE b.is = "residual"
    <2>1. b.domain = "string" /\ b.emptyOk /\ ResidualHeld(b, c) /\ b \in Residuals
      BY <1>4, LeafShape DEF EmptyHeld, Heeds
    <2>2. CASE c.is = "residual"
      BY <2>1, <2>2 DEF ResidualHeld, StateKept, EmptyHeld
    <2>3. CASE c.is = "scalar"
      <3>1. AdmitsScalar(b, c) /\ c.leaf # "path" /\ c.ok
        BY <2>1, <2>3 DEF ResidualHeld, Owed
      <3>2. c.leaf \in TextLeaf BY <2>1, <3>1, AdmittedDomain
      <3> QED BY <2>3, <3>1, <3>2 DEF EmptyHeld, TextLeaf
    <2> QED BY <2>1, <2>2, <2>3 DEF ResidualHeld
  <1> QED BY <1>1, <1>2, <1>3, <1>4 DEF EmptyHeld

LEMMA HeedsTransitive ==
  ASSUME NEW a \in LeafType, NEW b \in LeafType, NEW c \in LeafType, Heeds(a, b), Heeds(b, c)
  PROVE  Heeds(a, c)
  <1>1. CASE a.is = "top" \/ c.is = "nil" BY <1>1 DEF Heeds
  <1>2. CASE b.is = "nil" BY <1>2, LeafShape DEF Heeds
  <1>3. CASE a.is = "kind" /\ b.is # "nil"
    <2>1. KindHeld(a, b) /\ a \in Kinds BY <1>3, LeafShape DEF Heeds
    <2> QED BY <2>1, KindTransitive
  <1>4. CASE a.is = "residual" /\ b.is # "nil"
    <2>1. ResidualHeld(a, b) /\ a \in Residuals BY <1>4, LeafShape DEF Heeds
    <2> QED BY <2>1, ResidualTransitive
  <1>5. CASE a.is = "empty" /\ b.is # "nil"
    <2>1. EmptyHeld(b) /\ a = Empty BY <1>5, LeafShape DEF Heeds
    <2> QED BY <2>1, EmptyTransitive
  <1>6. CASE a.is = "scalar" /\ b.is # "nil" /\ c.is # "nil"
    <2>1. ScalarHeld(a, b) /\ b.is = "scalar" BY <1>6 DEF Heeds, ScalarHeld
    <2>2. ScalarHeld(b, c) BY <1>6, <2>1 DEF Heeds
    <2>3. ScalarHeld(a, c) BY <2>1, <2>2 DEF ScalarHeld, SameScalar, Owed
    <2> QED BY <1>6, <2>3 DEF Heeds
  <1>7. CASE a.is = "nil" /\ b.is # "nil" BY <1>7 DEF Heeds
  <1> QED BY <1>1, <1>2, <1>3, <1>4, <1>5, <1>6, <1>7, LeafShape

(***************************************************************************)
(* The meet is the greatest of what keeps both: unite, rule by rule.       *)
(***************************************************************************)
Both(w, a, b) == Heeds(a, w) /\ Heeds(b, w)
Widest(w, a, b) == \A u \in LeafType : Both(u, a, b) => Heeds(w, u)

LEMMA HeedsNil == \A a : Heeds(a, Nil)
  BY DEF Heeds, Nil

\* A refusal is the widest where no other value keeps both.
LEMMA NilWidest ==
  ASSUME NEW a, NEW b, \A u \in LeafType : Both(u, a, b) => u.is = "nil"
  PROVE  Widest(Nil, a, b)
  BY DEF Widest, Heeds

LEMMA FinishBoth ==
  ASSUME NEW r, NEW a, NEW b, Both(r, a, b)
  PROVE  Both(Finish(r), a, b)
  BY HeedsNil DEF Both, Finish

\* What another value keeps is not empty.
LEMMA FinishHeld ==
  ASSUME NEW r \in ResidualType, WellFormed(r), NEW u \in LeafType, ResidualHeld(r, u)
  PROVE  Heeds(Finish(r), u)
  <1>1. ~StateEmpty(r)
    <2>1. CASE u.is = "residual"
      <3>1. u \in Residuals /\ StateKept(r, u) BY <2>1, LeafShape DEF ResidualHeld
      <3> QED BY <3>1, StateEmptyKept DEF Residuals
    <2>2. CASE u.is = "scalar"
      <3>1. u \in Scalars /\ AdmitsScalar(r, u) BY <2>2, LeafShape DEF ResidualHeld
      <3>2. Shape(u) \in Instance /\ Shape(u).leaf # "bag" BY <3>1, ScalarShape DEF Shape
      <3>3. ResidualAdmits(r, Shape(u)) BY <3>1, <3>2, SameVerdict DEF ResidualAdmits
      <3> QED BY <3>2, <3>3, EmptyAdmitsNothing
    <2> QED BY <2>1, <2>2 DEF ResidualHeld
  <1>2. r.is = "residual" BY DEF ResidualType
  <1> QED BY <1>1, <1>2 DEF Finish, Heeds

\* What keeps a residual is nil, a residual or a scalar.
LEMMA HeedsResidual ==
  ASSUME NEW r \in Residuals, NEW u, Heeds(r, u)
  PROVE  u.is = "nil" \/ ResidualHeld(r, u)
  BY IsTells DEF Heeds

LEMMA HeedsKind == ASSUME NEW k \in Kinds, NEW u, Heeds(k, u) PROVE u.is = "nil" \/ KindHeld(k, u)
  BY IsTells DEF Heeds

LEMMA HeedsScalar == ASSUME NEW s \in Scalars, NEW u, Heeds(s, u) PROVE u.is = "nil" \/ ScalarHeld(s, u)
  BY IsTells DEF Heeds

(***************************************************************************)
(* Two residuals.                                                          *)
(***************************************************************************)
Clash(a, b) ==
  \/ a.domain # "none" /\ b.domain # "none" /\ a.domain # b.domain
  \/ a.kind # "none" /\ b.kind # "none" /\ a.kind # b.kind
  \/ a.pathKind /\ (b.nonEmpty \/ b.emptyOk)
  \/ b.pathKind /\ (a.nonEmpty \/ a.emptyOk)

LEMMA ConstraintForm ==
  ASSUME NEW a \in Residuals, NEW b \in Residuals
  PROVE  /\ Clash(a, b) => MeetConstraint(a, b) = Nil
         /\ ~Clash(a, b) => /\ MeetConstraint(a, b) = Finish(Merged(a, b)) /\ Agree(a, b)
                            /\ Merged(a, b) \in ResidualType /\ WellFormed(Merged(a, b))
  <1>1. Clash(a, b) => MeetConstraint(a, b) = Nil BY DEF Clash, MeetConstraint
  <1>2. ASSUME ~Clash(a, b)
        PROVE  /\ MeetConstraint(a, b) = Finish(Merged(a, b)) /\ Agree(a, b)
               /\ Merged(a, b) \in ResidualType /\ WellFormed(Merged(a, b))
    <2>1. MeetConstraint(a, b) = Finish(Merged(a, b)) BY <1>2 DEF MeetConstraint, Clash
    <2>2. Agree(a, b) BY <1>2 DEF Agree, Clash
    <2>3. Merged(a, b) \in ResidualType /\ WellFormed(Merged(a, b))
      BY <1>2, <2>2, ResidualIs, MergedType DEF Clash
    <2> QED BY <2>1, <2>2, <2>3
  <1> QED BY <1>1, <1>2

LEMMA ConstraintBoth ==
  ASSUME NEW a \in Residuals, NEW b \in Residuals
  PROVE  Both(MeetConstraint(a, b), a, b)
  <1>1. CASE Clash(a, b) BY <1>1, ConstraintForm, HeedsNil DEF Both
  <1>2. CASE ~Clash(a, b)
    <2>1. MeetConstraint(a, b) = Finish(Merged(a, b)) /\ Agree(a, b) BY <1>2, ConstraintForm
    <2>2. StateKept(a, Merged(a, b)) /\ StateKept(b, Merged(a, b))
      BY <2>1, ResidualIs, MergedKept
    <2>3. Merged(a, b).is = "residual" BY DEF Merged
    <2>4. Both(Merged(a, b), a, b) BY <2>2, <2>3, IsTells DEF Both, Heeds, ResidualHeld
    <2> QED BY <2>1, <2>4, FinishBoth
  <1> QED BY <1>1, <1>2

LEMMA ConstraintWidest ==
  ASSUME NEW a \in Residuals, NEW b \in Residuals
  PROVE  Widest(MeetConstraint(a, b), a, b)
  <1> SUFFICES ASSUME NEW u \in LeafType, ResidualHeld(a, u), ResidualHeld(b, u)
               PROVE  Heeds(MeetConstraint(a, b), u)
    BY HeedsResidual DEF Widest, Both, Heeds
  <1>1. CASE u.is = "residual"
    <2>1. StateKept(a, u) /\ StateKept(b, u) /\ u \in Residuals /\ WellFormed(u)
      BY <1>1, LeafShape, ResidualIs DEF ResidualHeld
    <2>2. ~Clash(a, b)
      <3>1. u.pathKind => ~u.nonEmpty /\ ~u.emptyOk BY <2>1 DEF WellFormed
      <3> QED BY <2>1, <3>1 DEF Clash, StateKept
    <2>3. StateKept(Merged(a, b), u) BY <2>1, ResidualIs, MergedLeast
    <2>4. ResidualHeld(Merged(a, b), u) BY <1>1, <2>3 DEF ResidualHeld
    <2> QED BY <2>2, <2>4, ConstraintForm, FinishHeld
  <1>2. CASE u.is = "scalar"
    <2>1. /\ AdmitsScalar(a, u) /\ AdmitsScalar(b, u) /\ u \in Scalars
          /\ (a.emptyOk => u.leaf # "path") /\ (b.emptyOk => u.leaf # "path")
      BY <1>2, LeafShape DEF ResidualHeld
    <2>2. ~Clash(a, b)
      <3>1. /\ a.domain # "none" => DomainOf(u) = a.domain
            /\ a.kind # "none" => u.leaf = a.kind
            /\ a.nonEmpty => u.leaf # "path"
            /\ a.pathKind => u.leaf = "path"
        BY <2>1, AdmittedDomain
      <3>2. /\ b.domain # "none" => DomainOf(u) = b.domain
            /\ b.kind # "none" => u.leaf = b.kind
            /\ b.nonEmpty => u.leaf # "path"
            /\ b.pathKind => u.leaf = "path"
        BY <2>1, AdmittedDomain
      <3> QED BY <2>1, <3>1, <3>2 DEF Clash
    <2>3. AdmitsScalar(Merged(a, b), u)
      <3>1. Shape(u) \in Instance /\ Shape(u).leaf # "bag" /\ Shape(u).leaf = u.leaf
        BY <2>1, ScalarShape DEF Shape
      <3>2. ResidualAdmits(a, Shape(u)) /\ ResidualAdmits(b, Shape(u))
        BY <2>1, <3>1, SameVerdict DEF ResidualAdmits
      <3>3. ResidualAdmits(Merged(a, b), Shape(u))
        BY <2>1, <2>2, <3>1, <3>2, ConstraintForm, ResidualIs, MergedIsIntersection
      <3> QED BY <3>1, <3>3, SameVerdict DEF ResidualAdmits
    <2>4. /\ Owed(a.nonEmpty /\ u.leaf = "string" /\ u.v = 0, a.emptyOk, u)
          /\ Owed(b.nonEmpty /\ u.leaf = "string" /\ u.v = 0, b.emptyOk, u)
      BY <1>2 DEF ResidualHeld
    <2>5. /\ Merged(a, b).nonEmpty => a.nonEmpty \/ b.nonEmpty
          /\ Merged(a, b).emptyOk => a.emptyOk \/ b.emptyOk
      BY DEF Merged
    <2>6. ResidualHeld(Merged(a, b), u) BY <1>2, <2>1, <2>3, <2>4, <2>5 DEF ResidualHeld, Owed
    <2> QED BY <2>2, <2>6, ConstraintForm, FinishHeld
  <1> QED BY <1>1, <1>2 DEF ResidualHeld

(***************************************************************************)
(* A residual and a kind.                                                  *)
(***************************************************************************)
LEMMA NarrowedFields ==
  ASSUME NEW r \in Residuals, NEW k \in Kinds
  PROVE  LET w == Narrowed(r, k) IN
         /\ w.domain = KindDomain(k) /\ w.kind = KindKept(r, k)
         /\ w.nonEmpty = (r.nonEmpty \/ k.kind = "string") /\ w.emptyOk = (r.emptyOk \/ k.ok)
         /\ w.pathKind = (r.pathKind \/ k.kind = "path")
         /\ w.is = "residual" /\ w.lo = r.lo /\ w.hi = r.hi /\ w.neqs = r.neqs
         /\ w.mults = r.mults /\ w.tests = r.tests /\ w.count = r.count /\ w.uniq = r.uniq
         /\ w.keys = r.keys /\ w.contains = r.contains /\ w.rests = r.rests
         /\ w.checks = r.checks
  BY ResidualIs, NarrowedForm, AsideFields

LEMMA KindBoth ==
  ASSUME NEW r \in Residuals, NEW k \in Kinds
  PROVE  Both(MeetKind(r, k), r, k)
  <1>1. CASE KindRefused(r, k) BY <1>1, HeedsNil DEF MeetKind, Both
  <1>2. CASE ~KindRefused(r, k)
    <2> DEFINE w == Narrowed(r, k)
    <2>1. /\ w.domain = KindDomain(k) /\ w.kind = KindKept(r, k)
          /\ w.nonEmpty = (r.nonEmpty \/ k.kind = "string") /\ w.emptyOk = (r.emptyOk \/ k.ok)
          /\ w.pathKind = (r.pathKind \/ k.kind = "path") /\ w.is = "residual"
      BY NarrowedFields
    <2>2. /\ w.lo = r.lo /\ w.hi = r.hi /\ w.neqs = r.neqs
          /\ w.mults = r.mults /\ w.tests = r.tests /\ w.count = r.count /\ w.uniq = r.uniq
          /\ w.keys = r.keys /\ w.contains = r.contains /\ w.rests = r.rests
          /\ w.checks = r.checks
      BY NarrowedFields
    <2>3. MeetKind(r, k) = Finish(w) BY <1>2 DEF MeetKind
    <2> HIDE DEF w
    <2>4. (r.domain = "none" \/ r.domain = KindDomain(k)) /\ (r.kind = "none" \/ r.kind = KindKept(r, k))
      BY <1>2, NarrowedFits
    <2>5. StateKept(r, w)
      <3>1. StateKept(r, r) BY ResidualIs, StateKeptSelf
      <3> QED BY <2>1, <2>2, <2>4, <3>1 DEF StateKept
    <2>6. KindInState(k, w)
      BY <2>1, KindShape DEF KindInState, KindDomain, KindKept, TextLeaf, NumLeaf
    <2>7. Both(w, r, k) BY <2>1, <2>5, <2>6, IsTells DEF Both, Heeds, ResidualHeld, KindHeld
    <2> QED BY <2>3, <2>7, FinishBoth
  <1> QED BY <1>1, <1>2

LEMMA KindWidest ==
  ASSUME NEW r \in Residuals, NEW k \in Kinds
  PROVE  Widest(MeetKind(r, k), r, k)
  <1> SUFFICES ASSUME NEW u \in LeafType, ResidualHeld(r, u), KindHeld(k, u)
               PROVE  Heeds(MeetKind(r, k), u)
    BY HeedsResidual, HeedsKind DEF Widest, Both, Heeds
  <1> DEFINE w == Narrowed(r, k)
  <1>1. /\ w.domain = KindDomain(k) /\ w.kind = KindKept(r, k)
        /\ w.nonEmpty = (r.nonEmpty \/ k.kind = "string") /\ w.emptyOk = (r.emptyOk \/ k.ok)
        /\ w.pathKind = (r.pathKind \/ k.kind = "path") /\ w.is = "residual"
    BY NarrowedFields
  <1>2. /\ w.lo = r.lo /\ w.hi = r.hi /\ w.neqs = r.neqs
        /\ w.mults = r.mults /\ w.tests = r.tests /\ w.count = r.count /\ w.uniq = r.uniq
        /\ w.keys = r.keys /\ w.contains = r.contains /\ w.rests = r.rests
        /\ w.checks = r.checks
    BY NarrowedFields
  <1>3. ~KindRefused(r, k) => MeetKind(r, k) = Finish(w) BY DEF MeetKind
  <1>4. ~KindRefused(r, k) => w \in ResidualType /\ WellFormed(w) BY NarrowedRight
  <1>5. /\ k.kind \in {"path", "string", "number"} \union NumLeaf /\ (k.ok => k.kind = "string")
    BY KindShape
  <1>6. CASE u.is = "residual"
    <2>1. StateKept(r, u) /\ KindInState(k, u) /\ u \in Residuals /\ WellFormed(u)
      BY <1>6, LeafShape, ResidualIs DEF ResidualHeld, KindHeld
    <2>2. /\ r.domain # "none" => u.domain = r.domain
          /\ r.kind # "none" => u.kind = r.kind
          /\ r.nonEmpty => u.nonEmpty
          /\ r.emptyOk => u.emptyOk
          /\ r.pathKind => u.pathKind
          /\ u.pathKind => ~u.nonEmpty /\ ~u.emptyOk
      BY <2>1 DEF StateKept, WellFormed
    <2>3. ~KindRefused(r, k) BY <1>5, <2>1, <2>2 DEF KindRefused, KindInState, NumLeaf
    <2>4. /\ u.domain = KindDomain(k) /\ (KindKept(r, k) # "none" => u.kind = KindKept(r, k))
          /\ (k.kind = "string" => u.nonEmpty) /\ (k.ok => u.emptyOk)
          /\ (k.kind = "path" => u.pathKind)
      BY <1>5, <2>1, <2>2 DEF KindInState, KindDomain, KindKept, TextLeaf, NumLeaf
    <2> HIDE DEF w
    <2>5. StateKept(w, u) BY <1>1, <1>2, <2>1, <2>2, <2>4 DEF StateKept
    <2>6. ResidualHeld(w, u) BY <1>6, <2>5 DEF ResidualHeld
    <2> QED BY <1>3, <1>4, <2>3, <2>6, FinishHeld
  <1>7. CASE u.is = "scalar"
    <2>1. /\ AdmitsScalar(r, u) /\ u \in Scalars /\ (r.emptyOk => u.leaf # "path")
          /\ KindSubsumes(k.kind, u.leaf)
      BY <1>7, LeafShape DEF ResidualHeld, KindHeld
    <2>2. /\ r.domain # "none" => DomainOf(u) = r.domain
          /\ r.kind # "none" => u.leaf = r.kind
          /\ r.nonEmpty => u.leaf # "path"
          /\ r.pathKind => u.leaf = "path"
      BY <2>1, AdmittedDomain
    <2>3. /\ DomainOf(u) = KindDomain(k) /\ (k.kind \in NumLeaf => u.leaf = k.kind)
          /\ (k.kind = "string" => u.leaf # "path") /\ (k.kind = "path" => u.leaf = "path")
      <3>1. CASE k.kind \in TextLeaf
        <4>1. u.leaf = k.kind BY <2>1, <3>1 DEF KindSubsumes, TextLeaf
        <4> QED BY <3>1, <4>1 DEF DomainOf, KindDomain, TextLeaf, NumLeaf
      <3>2. CASE k.kind \in NumLeaf
        <4>1. u.leaf = k.kind BY <2>1, <3>2 DEF KindSubsumes, NumLeaf
        <4> QED BY <3>2, <4>1 DEF DomainOf, KindDomain, TextLeaf, NumLeaf
      <3>3. CASE k.kind = "number"
        <4>1. u.leaf \in NumLeaf
          <5>1. u.leaf \in Leaf BY <2>1, ScalarShape
          <5> QED BY <2>1, <3>3, <5>1 DEF KindSubsumes, Leaf, TextLeaf, NumLeaf
        <4> QED BY <3>3, <4>1 DEF DomainOf, KindDomain, TextLeaf, NumLeaf
      <3> QED BY <1>5, <3>1, <3>2, <3>3 DEF TextLeaf
    <2>4. ~KindRefused(r, k)
      <3>1. r.emptyOk => u.leaf # "path" BY <2>1
      <3>2. r.domain # "none" => r.domain = KindDomain(k) BY <2>2, <2>3
      <3>3. CASE k.kind = "path"
        BY <2>2, <2>3, <3>1, <3>2, <3>3 DEF KindRefused, KindDomain, TextLeaf, NumLeaf
      <3>4. CASE k.kind = "string"
        BY <2>2, <2>3, <3>2, <3>4 DEF KindRefused, KindDomain, TextLeaf, NumLeaf
      <3>5. CASE k.kind = "number"
        BY <3>2, <3>5 DEF KindRefused, KindDomain, TextLeaf, NumLeaf
      <3>6. CASE k.kind \in NumLeaf
        BY <2>2, <2>3, <3>2, <3>6 DEF KindRefused, KindDomain, TextLeaf, NumLeaf
      <3> QED BY <1>5, <3>3, <3>4, <3>5, <3>6
    <2>5. AdmitsScalar(w, u)
      <3>1. Shape(u) \in Instance /\ Shape(u).leaf # "bag" /\ Shape(u).leaf = u.leaf
        BY <2>1, ScalarShape DEF Shape
      <3>2. ResidualAdmits(r, Shape(u)) BY <2>1, <3>1, SameVerdict DEF ResidualAdmits
      <3>3. DomainOf(Shape(u)) = DomainOf(u) BY <3>1 DEF DomainOf
      <3>4. KindKept(r, k) # "none" => u.leaf = KindKept(r, k) BY <2>2, <2>3 DEF KindKept
      <3>5. ResidualAdmits(w, Shape(u))
        BY <2>2, <2>3, <2>4, <3>1, <3>2, <3>3, <3>4, NarrowedRight
      <3> QED BY <3>1, <3>5, SameVerdict DEF ResidualAdmits
    <2>6. /\ Owed(r.nonEmpty /\ u.leaf = "string" /\ u.v = 0, r.emptyOk, u)
          /\ Owed(k.kind = "string" /\ u.v = 0, k.ok, u)
      BY <1>7 DEF ResidualHeld, KindHeld
    <2> HIDE DEF w
    <2>7. w.emptyOk => u.leaf # "path" BY <1>1, <1>5, <2>1, <2>3
    <2>8. Owed(w.nonEmpty /\ u.leaf = "string" /\ u.v = 0, w.emptyOk, u)
      BY <1>1, <2>6 DEF Owed
    <2>9. ResidualHeld(w, u) BY <1>7, <2>5, <2>7, <2>8 DEF ResidualHeld
    <2> QED BY <1>3, <1>4, <2>4, <2>9, FinishHeld
  <1> QED BY <1>6, <1>7 DEF ResidualHeld

(***************************************************************************)
(* A residual and a scalar; kinds and scalars among themselves.            *)
(***************************************************************************)
SameButFlags(w, s, needs, ok) ==
  /\ w \in Scalars /\ SameScalar(w, s)
  /\ w.needs <=> s.needs \/ needs
  /\ w.ok <=> s.ok \/ ok

LEMMA WithEmptyFlags ==
  ASSUME NEW s \in Scalars
  PROVE  SameButFlags(WithEmpty(s), s, FALSE, s.leaf = "string")
  BY DEF Scalars, WithEmpty, SameButFlags, SameScalar

LEMMA WithNonEmptyFlags ==
  ASSUME NEW s \in Scalars
  PROVE  SameButFlags(WithNonEmpty(s), s, s.leaf = "string" /\ s.v = 0, FALSE)
  BY DEF Scalars, WithNonEmpty, SameButFlags, SameScalar

LEMMA AdmitSets ==
  ASSUME NEW r \in Residuals, NEW s \in Scalars, AdmitsScalar(r, s)
  PROVE  SameButFlags(Admit(r, s), s, r.nonEmpty /\ s.leaf = "string" /\ s.v = 0,
                      r.emptyOk /\ s.leaf = "string")
  <1> DEFINE t == IF r.nonEmpty THEN WithNonEmpty(s) ELSE s
  <1>1. SameButFlags(t, s, r.nonEmpty /\ s.leaf = "string" /\ s.v = 0, FALSE)
    <2>1. CASE r.nonEmpty BY <2>1, WithNonEmptyFlags DEF SameButFlags
    <2>2. CASE ~r.nonEmpty BY <2>2 DEF SameButFlags, SameScalar
    <2> QED BY <2>1, <2>2
  <1>2. Admit(r, s) = IF r.emptyOk THEN WithEmpty(t) ELSE t BY DEF Admit
  <1> HIDE DEF t
  <1>3. t \in Scalars BY <1>1 DEF SameButFlags
  <1>4. CASE r.emptyOk
    <2>1. SameButFlags(WithEmpty(t), t, FALSE, t.leaf = "string") BY <1>3, WithEmptyFlags
    <2> QED BY <1>1, <1>2, <1>4, <2>1 DEF SameButFlags, SameScalar
  <1>5. CASE ~r.emptyOk BY <1>1, <1>2, <1>5 DEF SameButFlags
  <1> QED BY <1>4, <1>5

LEMMA KindScalarSets ==
  ASSUME NEW k \in Kinds, NEW s \in Scalars, KindSubsumes(k.kind, s.leaf)
  PROVE  SameButFlags(KindScalar(k, s), s, k.kind = "string" /\ ~k.ok /\ s.v = 0, k.ok)
  <1>1. k.ok => k.kind = "string" BY KindShape
  <1>2. k.kind = "string" => s.leaf = "string" BY DEF KindSubsumes
  <1>3. CASE k.kind # "string"
    <2>1. KindScalar(k, s) = s BY <1>3 DEF KindScalar
    <2> QED BY <1>1, <1>3, <2>1 DEF SameButFlags, SameScalar
  <1>4. CASE k.kind = "string" /\ k.ok
    <2>1. KindScalar(k, s) = WithEmpty(s) BY <1>4 DEF KindScalar
    <2> QED BY <1>2, <1>4, <2>1, WithEmptyFlags DEF SameButFlags
  <1>5. CASE k.kind = "string" /\ ~k.ok
    <2>1. KindScalar(k, s) = WithNonEmpty(s) BY <1>5 DEF KindScalar
    <2> QED BY <1>2, <1>5, <2>1, WithNonEmptyFlags DEF SameButFlags
  <1> QED BY <1>3, <1>4, <1>5

LEMMA SharedFlags ==
  ASSUME NEW a \in Scalars, NEW b \in Scalars, SameScalar(a, b)
  PROVE  SameButFlags([a EXCEPT !.needs = a.needs \/ b.needs, !.ok = a.ok \/ b.ok], a, b.needs, b.ok)
  BY DEF Scalars, SameButFlags, SameScalar

LEMMA AdmitBoth ==
  ASSUME NEW r \in Residuals, NEW s \in Scalars, ~(PathScalar(s) /\ r.emptyOk)
  PROVE  Both(Admit(r, s), r, s)
  <1>1. CASE ~AdmitsScalar(r, s) BY <1>1, HeedsNil DEF Admit, Both
  <1>2. CASE AdmitsScalar(r, s)
    <2> DEFINE w == Admit(r, s)
    <2>1. SameButFlags(w, s, r.nonEmpty /\ s.leaf = "string" /\ s.v = 0,
                       r.emptyOk /\ s.leaf = "string")
      BY <1>2, AdmitSets
    <2> HIDE DEF w
    <2>2. w.is = "scalar" /\ s.is = "scalar" BY <2>1, IsTells DEF SameButFlags
    <2>3. w.leaf = s.leaf /\ w.v = s.v /\ SameScalar(s, w) BY <2>1 DEF SameButFlags, SameScalar
    <2>4. AdmitsScalar(r, w) BY <1>2, <2>3, SameShapeVerdict
    <2>5. r.emptyOk => s.leaf = "string"
      <3>1. r.emptyOk => r.domain = "string" BY ResidualIs DEF WellFormed
      <3>2. r.domain = "string" => s.leaf \in TextLeaf BY <1>2, AdmittedDomain
      <3> QED BY <2>2, <3>1, <3>2 DEF TextLeaf, PathScalar
    <2>6. /\ w.needs <=> s.needs \/ (r.nonEmpty /\ s.leaf = "string" /\ s.v = 0)
          /\ w.ok <=> s.ok \/ (r.emptyOk /\ s.leaf = "string")
      BY <2>1 DEF SameButFlags
    <2>7. Owed(r.nonEmpty /\ w.leaf = "string" /\ w.v = 0, r.emptyOk, w) /\ Owed(s.needs, s.ok, w)
      BY <2>3, <2>5, <2>6 DEF Owed
    <2>8. ResidualHeld(r, w) BY <2>2, <2>3, <2>4, <2>5, <2>7 DEF ResidualHeld
    <2>9. ScalarHeld(s, w) BY <2>2, <2>3, <2>7 DEF ScalarHeld
    <2>10. Both(w, r, s) BY <2>2, <2>8, <2>9, IsTells DEF Both, Heeds
    <2> QED BY <2>10 DEF w
  <1> QED BY <1>1, <1>2

LEMMA AdmitWidest ==
  ASSUME NEW r \in Residuals, NEW s \in Scalars
  PROVE  Widest(Admit(r, s), r, s)
  <1> SUFFICES ASSUME NEW u \in LeafType, ResidualHeld(r, u), ScalarHeld(s, u)
               PROVE  Heeds(Admit(r, s), u)
    BY HeedsResidual, HeedsScalar DEF Widest, Both, Heeds
  <1>1. /\ u.is = "scalar" /\ s.leaf = u.leaf /\ s.v = u.v /\ SameScalar(u, s)
        /\ Owed(s.needs, s.ok, u)
    BY DEF ScalarHeld, SameScalar
  <1>2. AdmitsScalar(r, u) /\ Owed(r.nonEmpty /\ u.leaf = "string" /\ u.v = 0, r.emptyOk, u)
    BY <1>1 DEF ResidualHeld
  <1>3. AdmitsScalar(r, s) BY <1>1, <1>2, SameShapeVerdict
  <1> DEFINE w == Admit(r, s)
  <1>4. SameButFlags(w, s, r.nonEmpty /\ s.leaf = "string" /\ s.v = 0,
                     r.emptyOk /\ s.leaf = "string")
    BY <1>3, AdmitSets
  <1> HIDE DEF w
  <1>5. w.is = "scalar" /\ SameScalar(w, u) BY <1>1, <1>4, IsTells DEF SameButFlags, SameScalar
  <1>6. Owed(w.needs, w.ok, u) BY <1>1, <1>2, <1>4 DEF SameButFlags, Owed
  <1> QED BY <1>1, <1>5, <1>6 DEF Heeds, ScalarHeld, w

LEMMA KindScalarBoth ==
  ASSUME NEW k \in Kinds, NEW s \in Scalars
  PROVE  Both(KindScalar(k, s), k, s)
  <1>1. CASE ~KindSubsumes(k.kind, s.leaf) BY <1>1, HeedsNil DEF KindScalar, Both
  <1>2. CASE KindSubsumes(k.kind, s.leaf)
    <2> DEFINE w == KindScalar(k, s)
    <2>1. SameButFlags(w, s, k.kind = "string" /\ ~k.ok /\ s.v = 0, k.ok)
      BY <1>2, KindScalarSets
    <2> HIDE DEF w
    <2>2. w.is = "scalar" /\ s.is = "scalar" /\ k.is = "kind" BY <2>1, IsTells DEF SameButFlags
    <2>3. w.leaf = s.leaf /\ w.v = s.v /\ SameScalar(s, w) BY <2>1 DEF SameButFlags, SameScalar
    <2>4. Owed(k.kind = "string" /\ w.v = 0, k.ok, w) /\ Owed(s.needs, s.ok, w)
      BY <2>1, <2>3 DEF SameButFlags, Owed
    <2>5. Both(w, k, s) BY <1>2, <2>2, <2>3, <2>4 DEF Both, Heeds, KindHeld, ScalarHeld
    <2> QED BY <2>5 DEF w
  <1> QED BY <1>1, <1>2

LEMMA KindScalarWidest ==
  ASSUME NEW k \in Kinds, NEW s \in Scalars
  PROVE  Widest(KindScalar(k, s), k, s)
  <1> SUFFICES ASSUME NEW u \in LeafType, KindHeld(k, u), ScalarHeld(s, u)
               PROVE  Heeds(KindScalar(k, s), u)
    BY HeedsKind, HeedsScalar DEF Widest, Both, Heeds
  <1>1. /\ u.is = "scalar" /\ s.leaf = u.leaf /\ s.v = u.v /\ SameScalar(u, s)
        /\ Owed(s.needs, s.ok, u)
    BY DEF ScalarHeld, SameScalar
  <1>2. KindSubsumes(k.kind, u.leaf) /\ Owed(k.kind = "string" /\ u.v = 0, k.ok, u)
    BY <1>1 DEF KindHeld
  <1> DEFINE w == KindScalar(k, s)
  <1>3. SameButFlags(w, s, k.kind = "string" /\ ~k.ok /\ s.v = 0, k.ok)
    BY <1>1, <1>2, KindScalarSets
  <1> HIDE DEF w
  <1>4. w.is = "scalar" /\ SameScalar(w, u) BY <1>1, <1>3, IsTells DEF SameButFlags, SameScalar
  <1>5. Owed(w.needs, w.ok, u) BY <1>1, <1>2, <1>3 DEF SameButFlags, Owed
  <1> QED BY <1>1, <1>4, <1>5 DEF Heeds, ScalarHeld, w

LEMMA SharedForm ==
  ASSUME NEW a \in Scalars, NEW b \in Scalars, ~PathScalar(a) \/ ~PathScalar(b) \/ a.v = b.v
  PROVE  /\ ~SameScalar(a, b) => ScalarScalar(a, b) = Nil
         /\ SameScalar(a, b) => SameButFlags(ScalarScalar(a, b), a, b.needs, b.ok)
  <1>1. a.is = "scalar" /\ b.is = "scalar" BY IsTells
  <1>2. CASE PathScalar(a) /\ PathScalar(b)
    <2>1. a.leaf = "path" /\ b.leaf = "path" /\ a.v = b.v BY <1>2 DEF PathScalar
    <2>2. ScalarScalar(a, b) = a /\ SameScalar(a, b)
      BY <2>1 DEF ScalarScalar, PrefixMeet, SameScalar
    <2>3. ~b.needs /\ ~b.ok BY <2>1, ScalarShape
    <2> QED BY <2>2, <2>3 DEF SameButFlags, SameScalar
  <1>3. CASE ~(PathScalar(a) /\ PathScalar(b))
    BY <1>3, ScalarScalarForm, SharedFlags
  <1> QED BY <1>2, <1>3

LEMMA ScalarScalarBoth ==
  ASSUME NEW a \in Scalars, NEW b \in Scalars, ~PathScalar(a) \/ ~PathScalar(b) \/ a.v = b.v
  PROVE  Both(ScalarScalar(a, b), a, b)
  <1>1. CASE ~SameScalar(a, b) BY <1>1, SharedForm, HeedsNil DEF Both
  <1>2. CASE SameScalar(a, b)
    <2> DEFINE w == ScalarScalar(a, b)
    <2>1. SameButFlags(w, a, b.needs, b.ok) BY <1>2, SharedForm
    <2> HIDE DEF w
    <2>2. w.is = "scalar" /\ a.is = "scalar" /\ b.is = "scalar" BY <2>1, IsTells DEF SameButFlags
    <2>3. SameScalar(a, w) /\ SameScalar(b, w) BY <1>2, <2>1 DEF SameButFlags, SameScalar
    <2>4. Owed(a.needs, a.ok, w) /\ Owed(b.needs, b.ok, w) BY <2>1 DEF SameButFlags, Owed
    <2>5. Both(w, a, b) BY <2>2, <2>3, <2>4 DEF Both, Heeds, ScalarHeld
    <2> QED BY <2>5 DEF w
  <1> QED BY <1>1, <1>2

LEMMA ScalarScalarWidest ==
  ASSUME NEW a \in Scalars, NEW b \in Scalars
  PROVE  Widest(ScalarScalar(a, b), a, b)
  <1> SUFFICES ASSUME NEW u \in LeafType, ScalarHeld(a, u), ScalarHeld(b, u)
               PROVE  Heeds(ScalarScalar(a, b), u)
    BY HeedsScalar DEF Widest, Both, Heeds
  <1>1. /\ u.is = "scalar" /\ SameScalar(a, u) /\ Owed(a.needs, a.ok, u)
        /\ SameScalar(b, u) /\ Owed(b.needs, b.ok, u)
    BY DEF ScalarHeld
  <1>2. SameScalar(a, b) /\ a.v = b.v BY <1>1 DEF SameScalar
  <1> DEFINE w == ScalarScalar(a, b)
  <1>3. SameButFlags(w, a, b.needs, b.ok) BY <1>2, SharedForm
  <1> HIDE DEF w
  <1>4. w.is = "scalar" /\ SameScalar(w, u) BY <1>1, <1>3, IsTells DEF SameButFlags, SameScalar
  <1>5. Owed(w.needs, w.ok, u) BY <1>1, <1>3 DEF SameButFlags, Owed
  <1> QED BY <1>1, <1>4, <1>5 DEF Heeds, ScalarHeld, w

LEMMA KindKindBoth ==
  ASSUME NEW a \in Kinds, NEW b \in Kinds
  PROVE  Both(KindKind(a, b), a, b)
  <1>1. a.is = "kind" /\ b.is = "kind" BY IsTells
  <1>2. (a.ok => a.kind = "string") /\ (b.ok => b.kind = "string") BY KindShape
  <1>3. CASE a.kind = b.kind
    <2>1. KindKind(a, b) = [a EXCEPT !.ok = a.ok \/ b.ok] BY <1>3 DEF KindKind
    <2>2. /\ [a EXCEPT !.ok = a.ok \/ b.ok].is = "kind" /\ [a EXCEPT !.ok = a.ok \/ b.ok].kind = a.kind
          /\ [a EXCEPT !.ok = a.ok \/ b.ok].ok = (a.ok \/ b.ok)
      BY <1>1 DEF Kinds
    <2> QED BY <1>1, <1>3, <2>1, <2>2 DEF Both, Heeds, KindHeld, KindSubsumes
  <1>4. CASE a.kind # b.kind /\ KindSubsumes(a.kind, b.kind)
    <2>1. KindKind(a, b) = b BY <1>4 DEF KindKind
    <2>2. ~a.ok BY <1>2, <1>4 DEF KindSubsumes
    <2> QED BY <1>1, <1>4, <2>1, <2>2 DEF Both, Heeds, KindHeld, KindSubsumes
  <1>5. CASE a.kind # b.kind /\ ~KindSubsumes(a.kind, b.kind) /\ KindSubsumes(b.kind, a.kind)
    <2>1. KindKind(a, b) = a BY <1>5 DEF KindKind
    <2>2. ~b.ok BY <1>2, <1>5 DEF KindSubsumes
    <2> QED BY <1>1, <1>5, <2>1, <2>2 DEF Both, Heeds, KindHeld, KindSubsumes
  <1>6. CASE a.kind # b.kind /\ ~KindSubsumes(a.kind, b.kind) /\ ~KindSubsumes(b.kind, a.kind)
    BY <1>6, HeedsNil DEF KindKind, Both
  <1> QED BY <1>3, <1>4, <1>5, <1>6

LEMMA KindKindWidest ==
  ASSUME NEW a \in Kinds, NEW b \in Kinds
  PROVE  Widest(KindKind(a, b), a, b)
  <1> SUFFICES ASSUME NEW u \in LeafType, KindHeld(a, u), KindHeld(b, u)
               PROVE  Heeds(KindKind(a, b), u)
    BY HeedsKind DEF Widest, Both, Heeds
  <1>1. a.is = "kind" /\ b.is = "kind" BY IsTells
  <1>2. CASE a.kind = b.kind
    <2> DEFINE w == [a EXCEPT !.ok = a.ok \/ b.ok]
    <2>1. KindKind(a, b) = w BY <1>2 DEF KindKind
    <2>2. w.is = "kind" /\ w.kind = a.kind /\ w.ok = (a.ok \/ b.ok) BY <1>1 DEF Kinds
    <2> HIDE DEF w
    <2>3. KindHeld(w, u)
      <3>1. CASE u.is = "kind" BY <1>2, <2>2, <3>1 DEF KindHeld
      <3>2. CASE u.is = "scalar" BY <1>2, <2>2, <3>2 DEF KindHeld, Owed
      <3>3. CASE u.is = "residual" BY <1>2, <2>2, <3>3 DEF KindHeld, KindInState
      <3> QED BY <3>1, <3>2, <3>3 DEF KindHeld
    <2> QED BY <2>1, <2>2, <2>3 DEF Heeds
  <1>3. CASE a.kind # b.kind /\ (KindSubsumes(a.kind, b.kind) \/ KindSubsumes(b.kind, a.kind))
    <2>1. KindKind(a, b) = a \/ KindKind(a, b) = b BY <1>3 DEF KindKind
    <2> QED BY <1>1, <2>1 DEF Heeds
  <1>4. CASE a.kind # b.kind /\ ~KindSubsumes(a.kind, b.kind) /\ ~KindSubsumes(b.kind, a.kind)
    <2>1. /\ a.kind \in {"path", "string", "number"} \union NumLeaf
          /\ b.kind \in {"path", "string", "number"} \union NumLeaf
      BY KindShape
    <2>2. CASE u.is = "kind" BY <1>4, <2>2 DEF KindHeld, KindSubsumes, NumLeaf
    <2>3. CASE u.is = "scalar" BY <1>4, <2>3 DEF KindHeld, KindSubsumes, NumLeaf
    <2>4. CASE u.is = "residual"
      <3>1. u \in Residuals /\ KindInState(a, u) /\ KindInState(b, u)
        BY <2>4, LeafShape DEF KindHeld
      <3>2. u.pathKind => ~u.nonEmpty BY <3>1, ResidualIs DEF WellFormed
      <3> QED BY <1>4, <2>1, <3>1, <3>2 DEF KindInState, KindSubsumes, NumLeaf
    <2> QED BY <2>2, <2>3, <2>4 DEF KindHeld
  <1> QED BY <1>2, <1>3, <1>4

(***************************************************************************)
(* empty() and any value.                                                  *)
(***************************************************************************)
LEMMA AllowedFields ==
  ASSUME NEW r \in Residuals
  PROVE  LET w == Aside(r, "string", r.kind, r.nonEmpty, TRUE, r.pathKind) IN
         /\ w.domain = "string" /\ w.kind = r.kind /\ w.nonEmpty = r.nonEmpty
         /\ w.emptyOk /\ w.pathKind = r.pathKind
         /\ w.is = "residual" /\ w.lo = r.lo /\ w.hi = r.hi /\ w.neqs = r.neqs
         /\ w.mults = r.mults /\ w.tests = r.tests /\ w.count = r.count /\ w.uniq = r.uniq
         /\ w.keys = r.keys /\ w.contains = r.contains /\ w.rests = r.rests
         /\ w.checks = r.checks
  <1> DEFINE ok == TRUE
  <1>1. ok OBVIOUS
  <1> HIDE DEF ok
  <1> DEFINE w == Aside(r, "string", r.kind, r.nonEmpty, ok, r.pathKind)
  <1>2. /\ w.domain = "string" /\ w.kind = r.kind /\ w.nonEmpty = r.nonEmpty
        /\ w.emptyOk = ok /\ w.pathKind = r.pathKind
        /\ w.is = "residual" /\ w.lo = r.lo /\ w.hi = r.hi /\ w.neqs = r.neqs
        /\ w.mults = r.mults /\ w.tests = r.tests /\ w.count = r.count /\ w.uniq = r.uniq
        /\ w.keys = r.keys /\ w.contains = r.contains /\ w.rests = r.rests
        /\ w.checks = r.checks
    BY ResidualIs, AsideFields
  <1> QED BY <1>1, <1>2 DEF ok

LEMMA AllowEmptyBoth ==
  ASSUME NEW r \in Residuals
  PROVE  Both(AllowEmpty(r), r, Empty)
  <1>1. CASE r.domain = "number" \/ r.kind # "none" \/ r.pathKind
    BY <1>1, HeedsNil DEF AllowEmpty, Both
  <1>2. CASE ~(r.domain = "number" \/ r.kind # "none" \/ r.pathKind)
    <2> DEFINE w == Aside(r, "string", r.kind, r.nonEmpty, TRUE, r.pathKind)
    <2>1. AllowEmpty(r) = Finish(w) BY <1>2, AllowEmptyForm
    <2>2. /\ w.domain = "string" /\ w.kind = r.kind /\ w.nonEmpty = r.nonEmpty
          /\ w.emptyOk /\ w.pathKind = r.pathKind
      BY AllowedFields
    <2>3. /\ w.is = "residual" /\ w.lo = r.lo /\ w.hi = r.hi /\ w.neqs = r.neqs
          /\ w.mults = r.mults /\ w.tests = r.tests /\ w.count = r.count /\ w.uniq = r.uniq
          /\ w.keys = r.keys /\ w.contains = r.contains /\ w.rests = r.rests
          /\ w.checks = r.checks
      BY AllowedFields
    <2> HIDE DEF w
    <2>4. r.domain # "none" => r.domain = "string" BY <1>2, ResidualIs, StateParts
    <2>5. StateKept(r, w)
      <3>1. StateKept(r, r) BY ResidualIs, StateKeptSelf
      <3> QED BY <2>2, <2>3, <2>4, <3>1 DEF StateKept
    <2>6. Both(w, r, Empty) BY <2>2, <2>3, <2>5, IsTells DEF Both, Heeds, ResidualHeld, EmptyHeld
    <2> QED BY <2>1, <2>6, FinishBoth
  <1> QED BY <1>1, <1>2

LEMMA AllowEmptyWidest ==
  ASSUME NEW r \in Residuals, NEW u \in LeafType, ResidualHeld(r, u), EmptyHeld(u)
  PROVE  Heeds(AllowEmpty(r), u)
  <1> DEFINE w == Aside(r, "string", r.kind, r.nonEmpty, TRUE, r.pathKind)
  <1>1. /\ w.domain = "string" /\ w.kind = r.kind /\ w.nonEmpty = r.nonEmpty
        /\ w.emptyOk /\ w.pathKind = r.pathKind
    BY AllowedFields
  <1>2. /\ w.is = "residual" /\ w.lo = r.lo /\ w.hi = r.hi /\ w.neqs = r.neqs
        /\ w.mults = r.mults /\ w.tests = r.tests /\ w.count = r.count /\ w.uniq = r.uniq
        /\ w.keys = r.keys /\ w.contains = r.contains /\ w.rests = r.rests
        /\ w.checks = r.checks
    BY AllowedFields
  <1>3. CASE u.is = "residual"
    <2>1. StateKept(r, u) /\ u \in Residuals /\ WellFormed(u) /\ u.domain = "string" /\ u.emptyOk
      BY <1>3, LeafShape, ResidualIs DEF ResidualHeld, EmptyHeld
    <2>2. ~(r.domain = "number" \/ r.kind # "none" \/ r.pathKind)
      <3>1. u.kind # "none" => u.domain = "number" BY <2>1 DEF WellFormed
      <3>2. u.pathKind => ~u.emptyOk BY <2>1 DEF WellFormed
      <3>3. /\ r.domain # "none" => u.domain = r.domain
            /\ r.kind # "none" => u.kind = r.kind
            /\ r.pathKind => u.pathKind
        BY <2>1 DEF StateKept
      <3> QED BY <2>1, <3>1, <3>2, <3>3
    <2>3. AllowEmpty(r) = Finish(w) /\ w \in ResidualType /\ WellFormed(w)
      BY <2>2, AllowEmptyForm, AllowEmptyRight
    <2> HIDE DEF w
    <2>4. StateKept(w, u) BY <1>1, <1>2, <2>1 DEF StateKept
    <2>5. ResidualHeld(w, u) BY <1>3, <2>4 DEF ResidualHeld
    <2> QED BY <2>3, <2>5, FinishHeld
  <1>4. CASE u.is = "scalar"
    <2>1. /\ AdmitsScalar(r, u) /\ u \in Scalars /\ u.leaf = "string" /\ u.ok
          /\ Owed(r.nonEmpty /\ u.leaf = "string" /\ u.v = 0, r.emptyOk, u)
      BY <1>4, LeafShape DEF ResidualHeld, EmptyHeld
    <2>2. DomainOf(u) = "string" BY <2>1 DEF DomainOf, NumLeaf, TextLeaf
    <2>3. ~(r.domain = "number" \/ r.kind # "none" \/ r.pathKind)
      <3>1. /\ r.domain # "none" => DomainOf(u) = r.domain
            /\ r.kind # "none" => u.leaf = r.kind
            /\ r.pathKind => u.leaf = "path"
        BY <2>1, AdmittedDomain
      <3>2. r.kind # "none" => r.domain = "number" BY ResidualIs DEF WellFormed
      <3> QED BY <2>1, <2>2, <3>1, <3>2
    <2>4. AllowEmpty(r) = Finish(w) /\ w \in ResidualType /\ WellFormed(w)
      BY <2>3, AllowEmptyForm, AllowEmptyRight
    <2>5. AdmitsScalar(w, u)
      <3>1. Shape(u) \in Instance /\ Shape(u).leaf # "bag" /\ Shape(u).leaf = u.leaf
        BY <2>1, ScalarShape DEF Shape
      <3>2. ResidualAdmits(r, Shape(u)) BY <2>1, <3>1, SameVerdict DEF ResidualAdmits
      <3>3. DomainOf(Shape(u)) = DomainOf(u) BY <3>1 DEF DomainOf
      <3>4. ResidualAdmits(w, Shape(u))
        BY <2>1, <2>2, <2>3, <3>1, <3>2, <3>3, AllowEmptyRight
      <3> QED BY <3>1, <3>4, SameVerdict DEF ResidualAdmits
    <2> HIDE DEF w
    <2>6. ResidualHeld(w, u) BY <1>1, <1>4, <2>1, <2>5 DEF ResidualHeld, Owed
    <2> QED BY <2>4, <2>6, FinishHeld
  <1> QED BY <1>3, <1>4 DEF ResidualHeld

LEMMA EmptyBoth ==
  ASSUME NEW v \in LeafType, v.is # "top"
  PROVE  Both(MeetEmpty(v), v, Empty)
  <1>1. Empty.is = "empty" BY IsTells
  <1>2. CASE v.is = "nil" BY <1>2, HeedsNil, LeafShape DEF MeetEmpty, Both
  <1>3. CASE v.is = "empty" BY <1>1, <1>3 DEF MeetEmpty, Both, Heeds, EmptyHeld
  <1>4. CASE v.is = "kind"
    <2>1. v \in Kinds BY <1>4, LeafShape
    <2>2. CASE v.kind # "string" BY <1>4, <2>2, HeedsNil DEF MeetEmpty, Both
    <2>3. CASE v.kind = "string"
      <3> DEFINE w == [v EXCEPT !.ok = TRUE]
      <3>1. MeetEmpty(v) = w BY <1>4, <2>3 DEF MeetEmpty
      <3>2. w.is = "kind" /\ w.kind = "string" /\ w.ok BY <2>1, <2>3 DEF Kinds
      <3> HIDE DEF w
      <3>3. Both(w, v, Empty)
        BY <1>1, <1>4, <2>3, <3>2 DEF Both, Heeds, EmptyHeld, KindHeld, KindSubsumes
      <3> QED BY <3>1, <3>3
    <2> QED BY <2>2, <2>3
  <1>5. CASE v.is = "scalar"
    <2>1. v \in Scalars BY <1>5, LeafShape
    <2>2. CASE v.leaf # "string" BY <1>5, <2>2, HeedsNil DEF MeetEmpty, Both
    <2>3. CASE v.leaf = "string"
      <3> DEFINE w == WithEmpty(v)
      <3>1. MeetEmpty(v) = w BY <1>5, <2>3 DEF MeetEmpty
      <3>2. SameButFlags(w, v, FALSE, v.leaf = "string") BY <2>1, WithEmptyFlags
      <3> HIDE DEF w
      <3>3. w.is = "scalar" /\ w.leaf = "string" /\ w.ok /\ SameScalar(v, w)
            /\ Owed(v.needs, v.ok, w)
        BY <2>3, <3>2, IsTells DEF SameButFlags, SameScalar, Owed
      <3>4. Both(w, v, Empty) BY <1>1, <1>5, <3>3 DEF Both, Heeds, EmptyHeld, ScalarHeld
      <3> QED BY <3>1, <3>4
    <2> QED BY <2>2, <2>3
  <1>6. CASE v.is = "residual"
    <2>1. v \in Residuals BY <1>6, LeafShape
    <2>2. MeetEmpty(v) = AllowEmpty(v) BY <1>6 DEF MeetEmpty
    <2> QED BY <2>1, <2>2, AllowEmptyBoth
  <1> QED BY <1>2, <1>3, <1>4, <1>5, <1>6, LeafShape

LEMMA EmptyWidest ==
  ASSUME NEW v \in LeafType, v.is # "top"
  PROVE  Widest(MeetEmpty(v), v, Empty)
  <1>1. Empty.is = "empty" BY IsTells
  <1> SUFFICES ASSUME NEW u \in LeafType, u.is # "nil", Heeds(v, u), EmptyHeld(u)
               PROVE  Heeds(MeetEmpty(v), u)
    BY <1>1 DEF Widest, Both, Heeds
  <1>2. CASE v.is = "nil" BY <1>2 DEF MeetEmpty
  <1>3. CASE v.is = "empty" BY <1>1, <1>3 DEF MeetEmpty, Heeds
  <1>4. CASE v.is = "kind"
    <2>1. v \in Kinds /\ KindHeld(v, u) BY <1>4, LeafShape DEF Heeds
    <2>2. v.kind = "string"
      <3>1. v.kind \in {"path", "string", "number"} \union NumLeaf BY <2>1, KindShape
      <3>2. CASE u.is = "kind"
        BY <2>1, <3>1, <3>2 DEF KindHeld, EmptyHeld, KindSubsumes, NumLeaf
      <3>3. CASE u.is = "scalar"
        BY <2>1, <3>1, <3>3 DEF KindHeld, EmptyHeld, KindSubsumes, NumLeaf
      <3>4. CASE u.is = "residual"
        <4>1. u \in Residuals /\ KindInState(v, u) /\ u.domain = "string" /\ u.emptyOk
          BY <2>1, <3>4, LeafShape DEF KindHeld, EmptyHeld
        <4>2. u.pathKind => ~u.emptyOk BY <4>1, ResidualIs DEF WellFormed
        <4> QED BY <3>1, <4>1, <4>2 DEF KindInState, NumLeaf
      <3> QED BY <2>1, <3>2, <3>3, <3>4 DEF KindHeld
    <2> DEFINE w == [v EXCEPT !.ok = TRUE]
    <2>3. MeetEmpty(v) = w BY <1>4, <2>2 DEF MeetEmpty
    <2>4. w.is = "kind" /\ w.kind = "string" /\ w.ok BY <2>1, <2>2 DEF Kinds
    <2> HIDE DEF w
    <2>5. KindHeld(w, u)
      <3>1. CASE u.is = "kind" BY <2>4, <3>1 DEF KindHeld, EmptyHeld, KindSubsumes
      <3>2. CASE u.is = "scalar" BY <2>4, <3>2 DEF KindHeld, EmptyHeld, KindSubsumes, Owed
      <3>3. CASE u.is = "residual"
        BY <2>1, <2>2, <2>4, <3>3 DEF KindHeld, EmptyHeld, KindInState, NumLeaf
      <3> QED BY <2>1, <3>1, <3>2, <3>3 DEF KindHeld
    <2> QED BY <2>3, <2>4, <2>5 DEF Heeds
  <1>5. CASE v.is = "scalar"
    <2>1. v \in Scalars /\ ScalarHeld(v, u) BY <1>5, LeafShape DEF Heeds
    <2>2. /\ u.is = "scalar" /\ v.leaf = u.leaf /\ v.v = u.v /\ SameScalar(v, u)
          /\ Owed(v.needs, v.ok, u) /\ u.leaf = "string" /\ u.ok
      BY <2>1 DEF ScalarHeld, SameScalar, EmptyHeld
    <2> DEFINE w == WithEmpty(v)
    <2>3. MeetEmpty(v) = w BY <1>5, <2>2 DEF MeetEmpty
    <2>4. SameButFlags(w, v, FALSE, v.leaf = "string") BY <2>1, WithEmptyFlags
    <2> HIDE DEF w
    <2>5. w.is = "scalar" /\ SameScalar(w, u) /\ Owed(w.needs, w.ok, u)
      BY <2>2, <2>4, IsTells DEF SameButFlags, SameScalar, Owed
    <2> QED BY <2>2, <2>3, <2>5 DEF Heeds, ScalarHeld
  <1>6. CASE v.is = "residual"
    <2>1. v \in Residuals /\ ResidualHeld(v, u) BY <1>6, LeafShape DEF Heeds
    <2>2. MeetEmpty(v) = AllowEmpty(v) BY <1>6 DEF MeetEmpty
    <2> QED BY <2>1, <2>2, AllowEmptyWidest
  <1> QED BY <1>2, <1>3, <1>4, <1>5, <1>6, LeafShape

(***************************************************************************)
(* unite, whichever rule it dispatches to.                                 *)
(***************************************************************************)
LEMMA WidestSwap == ASSUME NEW w, NEW a, NEW b, Widest(w, a, b) PROVE Widest(w, b, a)
  BY DEF Both, Widest

\* Two addresses that differ meet to the longer, and an address passes a
\* bound that waives: neither is kept.
LEMMA UniteBoth ==
  ASSUME NEW a \in LeafType, NEW b \in LeafType,
         PathScalar(a) /\ PathScalar(b) => a.v = b.v,
         ~(PathScalar(a) /\ Waives(b)), ~(PathScalar(b) /\ Waives(a))
  PROVE  Both(Unite(a, b), a, b)
  <1>1. Heeds(a, a) /\ Heeds(b, b) BY HeedsSelf
  <1>2. \A w : Heeds(Top, w) BY IsTells DEF Heeds
  <1>3. \A r \in Residuals : Waives(r) = r.emptyOk BY ResidualIs DEF Waives
  <1>4. CASE b = Top /\ Unite(a, b) = a BY <1>1, <1>2, <1>4 DEF Both
  <1>5. CASE a = Top /\ Unite(a, b) = b BY <1>1, <1>2, <1>5 DEF Both
  <1>6. CASE Unite(a, b) = Nil BY <1>6, HeedsNil DEF Both
  <1>7. CASE b = Empty /\ a.is # "top" /\ Unite(a, b) = MeetEmpty(a) BY <1>7, EmptyBoth
  <1>8. CASE a = Empty /\ b.is # "top" /\ Unite(a, b) = MeetEmpty(b) BY <1>8, EmptyBoth DEF Both
  <1>9. CASE a \in Residuals /\ b \in Residuals /\ Unite(a, b) = MeetConstraint(a, b)
    BY <1>9, ConstraintBoth
  <1>10. CASE a \in Residuals /\ b \in Kinds /\ Unite(a, b) = MeetKind(a, b) BY <1>10, KindBoth
  <1>11. CASE a \in Kinds /\ b \in Residuals /\ Unite(a, b) = MeetKind(b, a)
    BY <1>11, KindBoth DEF Both
  <1>12. CASE a \in Residuals /\ b \in Scalars /\ Unite(a, b) = Admit(a, b)
    BY <1>3, <1>12, AdmitBoth
  <1>13. CASE a \in Scalars /\ b \in Residuals /\ Unite(a, b) = Admit(b, a)
    BY <1>3, <1>13, AdmitBoth DEF Both
  <1>14. CASE a \in Kinds /\ b \in Kinds /\ Unite(a, b) = KindKind(a, b) BY <1>14, KindKindBoth
  <1>15. CASE a \in Kinds /\ b \in Scalars /\ Unite(a, b) = KindScalar(a, b)
    BY <1>15, KindScalarBoth
  <1>16. CASE a \in Scalars /\ b \in Kinds /\ Unite(a, b) = KindScalar(b, a)
    BY <1>16, KindScalarBoth DEF Both
  <1>17. CASE a \in Scalars /\ b \in Scalars /\ Unite(a, b) = ScalarScalar(a, b)
    BY <1>17, ScalarScalarBoth
  <1> QED
    BY <1>4, <1>5, <1>6, <1>7, <1>8, <1>9, <1>10, <1>11, <1>12, <1>13, <1>14, <1>15, <1>16,
       <1>17, UniteCases

LEMMA UniteWidest ==
  ASSUME NEW a \in LeafType, NEW b \in LeafType
  PROVE  Widest(Unite(a, b), a, b)
  <1>1. CASE b = Top /\ Unite(a, b) = a BY <1>1 DEF Widest, Both
  <1>2. CASE a = Top /\ Unite(a, b) = b BY <1>2 DEF Widest, Both
  <1>3. CASE (a = Nil \/ b = Nil) /\ Unite(a, b) = Nil BY <1>3 DEF Widest, Both
  <1>4. CASE b = Empty /\ a.is # "top" /\ Unite(a, b) = MeetEmpty(a) BY <1>4, EmptyWidest
  <1>5. CASE a = Empty /\ b.is # "top" /\ Unite(a, b) = MeetEmpty(b)
    BY <1>5, EmptyWidest, WidestSwap
  <1>6. CASE a \in Residuals /\ b \in Residuals /\ Unite(a, b) = MeetConstraint(a, b)
    BY <1>6, ConstraintWidest
  <1>7. CASE a \in Residuals /\ b \in Kinds /\ Unite(a, b) = MeetKind(a, b) BY <1>7, KindWidest
  <1>8. CASE a \in Kinds /\ b \in Residuals /\ Unite(a, b) = MeetKind(b, a)
    BY <1>8, KindWidest, WidestSwap
  <1>9. CASE a \in Residuals /\ b \in Scalars /\ Unite(a, b) = Admit(a, b) BY <1>9, AdmitWidest
  <1>10. CASE a \in Scalars /\ b \in Residuals /\ Unite(a, b) = Admit(b, a)
    BY <1>10, AdmitWidest, WidestSwap
  <1>11. CASE a \in Kinds /\ b \in Kinds /\ Unite(a, b) = KindKind(a, b) BY <1>11, KindKindWidest
  <1>12. CASE a \in Kinds /\ b \in Scalars /\ Unite(a, b) = KindScalar(a, b)
    BY <1>12, KindScalarWidest
  <1>13. CASE a \in Scalars /\ b \in Kinds /\ Unite(a, b) = KindScalar(b, a)
    BY <1>13, KindScalarWidest, WidestSwap
  <1>14. CASE a \in Scalars /\ b \in Scalars /\ Unite(a, b) = ScalarScalar(a, b)
    BY <1>14, ScalarScalarWidest
  <1> QED
    BY <1>1, <1>2, <1>3, <1>4, <1>5, <1>6, <1>7, <1>8, <1>9, <1>10, <1>11, <1>12, <1>13, <1>14,
       UniteCases

\* The meet of two values is the widest of the values that keep what both
\* say.
THEOREM UniteIsGreatest ==
  ASSUME NEW a \in LeafType, NEW b \in LeafType,
         PathScalar(a) /\ PathScalar(b) => a.v = b.v,
         ~(PathScalar(a) /\ Waives(b)), ~(PathScalar(b) /\ Waives(a))
  PROVE  /\ Heeds(a, Unite(a, b)) /\ Heeds(b, Unite(a, b))
         /\ \A u \in LeafType : Heeds(a, u) /\ Heeds(b, u) => Heeds(Unite(a, b), u)
  BY UniteBoth, UniteWidest DEF Both, Widest

(***************************************************************************)
(* Two values that keep each other are shown alike.                        *)
(***************************************************************************)
Alike(a, b) ==
  a.is = "residual" /\ b.is = "residual" =>
    Normalised(a) /\ Normalised(b) /\ ~Mixed(a.lo, b.lo) /\ ~Mixed(a.hi, b.hi)

LEMMA HeedsIs ==
  ASSUME NEW a \in LeafType, NEW b \in LeafType, Heeds(a, b), Heeds(b, a)
  PROVE  a.is = b.is
  <1>1. CASE a.is = "nil" BY <1>1, LeafShape DEF Heeds
  <1>2. CASE a.is = "top" BY <1>2, LeafShape DEF Heeds, EmptyHeld, KindHeld, ResidualHeld, ScalarHeld
  <1>3. CASE a.is = "empty"
    BY <1>3, LeafShape DEF Heeds, EmptyHeld, KindHeld, ResidualHeld, ScalarHeld
  <1>4. CASE a.is = "kind"
    BY <1>4, LeafShape DEF Heeds, EmptyHeld, KindHeld, ResidualHeld, ScalarHeld
  <1>5. CASE a.is = "scalar"
    BY <1>5, LeafShape DEF Heeds, EmptyHeld, KindHeld, ResidualHeld, ScalarHeld
  <1>6. CASE a.is = "residual"
    BY <1>6, LeafShape DEF Heeds, EmptyHeld, KindHeld, ResidualHeld, ScalarHeld
  <1> QED BY <1>1, <1>2, <1>3, <1>4, <1>5, <1>6, LeafShape

LEMMA SameKind ==
  ASSUME NEW a \in Kinds, NEW b \in Kinds, KindHeld(a, b), KindHeld(b, a)
  PROVE  a = b
  <1>1. a.is = "kind" /\ b.is = "kind" BY IsTells
  <1>2. KindSubsumes(a.kind, b.kind) /\ KindSubsumes(b.kind, a.kind) /\ (a.ok <=> b.ok)
    BY <1>1 DEF KindHeld
  <1>3. a.kind = b.kind BY <1>2 DEF KindSubsumes, NumLeaf
  <1>4. a = [is |-> a.is, kind |-> a.kind, ok |-> a.ok] /\ b = [is |-> b.is, kind |-> b.kind, ok |-> b.ok]
        /\ a.ok \in BOOLEAN /\ b.ok \in BOOLEAN
    BY DEF Kinds
  <1>5. a.ok = b.ok BY <1>2, <1>4
  <1> QED BY <1>1, <1>3, <1>4, <1>5

LEMMA SameShown ==
  ASSUME NEW a \in Scalars, NEW b \in Scalars, ScalarHeld(a, b), ScalarHeld(b, a)
  PROVE  Shown(a) = Shown(b)
  <1>1. a.is = "scalar" /\ b.is = "scalar" BY IsTells
  <1>2. a.leaf = b.leaf /\ a.v = b.v /\ Owed(a.needs, a.ok, b) /\ Owed(b.needs, b.ok, a)
    BY DEF ScalarHeld, SameScalar
  <1>3. a.needs \in BOOLEAN /\ a.ok \in BOOLEAN /\ b.needs \in BOOLEAN /\ b.ok \in BOOLEAN
    BY ScalarShape
  <1>4. a.ok = b.ok BY <1>2, <1>3 DEF Owed
  <1>5. (RefusesEmpty(a) <=> a.needs /\ ~a.ok) /\ (RefusesEmpty(b) <=> b.needs /\ ~b.ok)
    BY <1>1 DEF RefusesEmpty, Needs, Waives
  <1>6. RefusesEmpty(a) \in BOOLEAN /\ RefusesEmpty(b) \in BOOLEAN BY DEF RefusesEmpty
  <1>7. RefusesEmpty(a) = RefusesEmpty(b) BY <1>2, <1>4, <1>5, <1>6 DEF Owed
  <1>8. Shown(a) = [a EXCEPT !.needs = RefusesEmpty(a)] /\ Shown(b) = [b EXCEPT !.needs = RefusesEmpty(b)]
    BY <1>1 DEF Shown
  <1>9. ASSUME NEW s \in Scalars, NEW n
        PROVE  [s EXCEPT !.needs = n]
                 = [is |-> "scalar", leaf |-> s.leaf, v |-> s.v, needs |-> n, ok |-> s.ok]
    <2>1. s = [is |-> "scalar", leaf |-> s.leaf, v |-> s.v, needs |-> s.needs, ok |-> s.ok]
      BY ScalarShape
    <2> DEFINE t == [is |-> "scalar", leaf |-> s.leaf, v |-> s.v, needs |-> s.needs, ok |-> s.ok]
    <2>2. [t EXCEPT !.needs = n]
            = [is |-> "scalar", leaf |-> t.leaf, v |-> t.v, needs |-> n, ok |-> t.ok]
      OBVIOUS
    <2> HIDE DEF t
    <2> QED BY <2>1, <2>2 DEF t
  <1>10. ASSUME NEW n PROVE [a EXCEPT !.needs = n] = [b EXCEPT !.needs = n]
    <2>1. [a EXCEPT !.needs = n]
            = [is |-> "scalar", leaf |-> a.leaf, v |-> a.v, needs |-> n, ok |-> a.ok]
      BY <1>9
    <2>2. [b EXCEPT !.needs = n]
            = [is |-> "scalar", leaf |-> b.leaf, v |-> b.v, needs |-> n, ok |-> b.ok]
      BY <1>9
    <2>3. [is |-> "scalar", leaf |-> a.leaf, v |-> a.v, needs |-> n, ok |-> a.ok]
            = [is |-> "scalar", leaf |-> b.leaf, v |-> b.v, needs |-> n, ok |-> b.ok]
      BY <1>2, <1>4
    <2> QED BY <2>1, <2>2, <2>3
  <1> QED BY <1>7, <1>8, <1>10

LEMMA HeedsSame ==
  ASSUME NEW a \in LeafType, NEW b \in LeafType, Heeds(a, b), Heeds(b, a), Alike(a, b)
  PROVE  Shown(a) = Shown(b)
  <1>1. a.is = b.is BY HeedsIs
  <1>2. CASE a.is \in {"top", "nil", "empty"} BY <1>1, <1>2, LeafShape
  <1>3. CASE a.is = "kind"
    <2>1. a \in Kinds /\ b \in Kinds /\ KindHeld(a, b) /\ KindHeld(b, a)
      BY <1>1, <1>3, LeafShape DEF Heeds
    <2> QED BY <2>1, SameKind
  <1>4. CASE a.is = "scalar"
    <2>1. a \in Scalars /\ b \in Scalars /\ ScalarHeld(a, b) /\ ScalarHeld(b, a)
      BY <1>1, <1>4, LeafShape DEF Heeds
    <2> QED BY <2>1, SameShown
  <1>5. CASE a.is = "residual"
    <2>1. a \in Residuals /\ b \in Residuals /\ StateKept(a, b) /\ StateKept(b, a)
      BY <1>1, <1>5, LeafShape DEF Heeds, ResidualHeld
    <2>2. Normalised(a) /\ Normalised(b) /\ ~Mixed(a.lo, b.lo) /\ ~Mixed(a.hi, b.hi)
      BY <1>1, <1>5 DEF Alike
    <2>3. a = b BY <2>1, <2>2, ResidualIs, SameState
    <2> QED BY <2>3
  <1> QED BY <1>2, <1>3, <1>4, <1>5, LeafShape

(***************************************************************************)
(* A residual that a meet leaves is normal, and its ends are ends of what  *)
(* met.                                                                    *)
(***************************************************************************)
Drawn(w, a, b) ==
  w.is = "residual" =>
    /\ Normalised(w)
    /\ w.lo.on => \E c \in {a, b} : c.is = "residual" /\ w.lo = c.lo
    /\ w.hi.on => \E c \in {a, b} : c.is = "residual" /\ w.hi = c.hi

NormalOne(a) == a.is = "residual" => Normalised(a)

LEMMA DrawnFinish ==
  ASSUME NEW r, NEW a, NEW b, Drawn(r, a, b)
  PROVE  Drawn(Finish(r), a, b)
  BY IsTells DEF Drawn, Finish

LEMMA DrawnAside ==
  ASSUME NEW r \in Residuals, Normalised(r), NEW c, NEW w, w.is = "residual", w.lo = r.lo, w.hi = r.hi,
         w.mults = r.mults, w.count = r.count
  PROVE  Drawn(w, r, c)
  <1>1. Normalised(w) BY DEF Normalised
  <1>2. r.is = "residual" BY IsTells
  <1> QED BY <1>1, <1>2 DEF Drawn

LEMMA DrawnNot == ASSUME NEW w, NEW a, NEW b, w.is # "residual" PROVE Drawn(w, a, b)
  BY DEF Drawn

LEMMA UniteDrawn ==
  ASSUME NEW a \in LeafType, NEW b \in LeafType, NormalOne(a), NormalOne(b)
  PROVE  Drawn(Unite(a, b), a, b)
  <1>1. Drawn(a, a, b) /\ Drawn(b, a, b) BY DEF Drawn, NormalOne
  <1>2. Drawn(Nil, a, b) BY IsTells, DrawnNot
  <1>3. \A w, c, d : Drawn(w, c, d) => Drawn(w, d, c) BY DEF Drawn
  <1>4. ASSUME NEW v \in {a, b}, v.is # "top", NEW c PROVE Drawn(MeetEmpty(v), v, c)
    <2>1. CASE v.is \in {"nil", "empty"} BY <2>1, IsTells, DrawnNot DEF MeetEmpty
    <2>2. CASE v.is = "kind"
      <3>1. v \in Kinds BY <2>2, LeafShape
      <3>2. MeetEmpty(v) = Nil \/ MeetEmpty(v) = [v EXCEPT !.ok = TRUE] BY <2>2 DEF MeetEmpty
      <3>3. [v EXCEPT !.ok = TRUE].is = "kind" BY <3>1 DEF Kinds
      <3> QED BY <3>2, <3>3, IsTells, DrawnNot
    <2>3. CASE v.is = "scalar"
      <3>1. v \in Scalars BY <2>3, LeafShape
      <3>2. MeetEmpty(v) = Nil \/ MeetEmpty(v) = WithEmpty(v) BY <2>3 DEF MeetEmpty
      <3> QED BY <3>1, <3>2, FlaggedScalar, IsTells, DrawnNot
    <2>4. CASE v.is = "residual"
      <3>1. v \in Residuals /\ Normalised(v) BY <2>4, LeafShape DEF NormalOne
      <3>2. MeetEmpty(v) = AllowEmpty(v) BY <2>4 DEF MeetEmpty
      <3> DEFINE w == Aside(v, "string", v.kind, v.nonEmpty, TRUE, v.pathKind)
      <3>3. AllowEmpty(v) = Nil \/ AllowEmpty(v) = Finish(w) BY <3>1, AllowEmptyForm
      <3>4. w.is = "residual" /\ w.lo = v.lo /\ w.hi = v.hi /\ w.mults = v.mults /\ w.count = v.count
        BY <3>1, AllowedFields
      <3> HIDE DEF w
      <3>5. Drawn(Finish(w), v, c) BY <3>1, <3>4, DrawnAside, DrawnFinish
      <3> QED BY <3>2, <3>3, <3>5, IsTells, DrawnNot
    <2> QED BY <1>4, <2>1, <2>2, <2>3, <2>4, LeafShape
  <1>5. CASE Unite(a, b) \in {a, b, Nil} BY <1>1, <1>2, <1>5
  <1>6. CASE b = Empty /\ a.is # "top" /\ Unite(a, b) = MeetEmpty(a) BY <1>4, <1>6
  <1>7. CASE a = Empty /\ b.is # "top" /\ Unite(a, b) = MeetEmpty(b) BY <1>3, <1>4, <1>7
  <1>8. CASE a \in Residuals /\ b \in Residuals /\ Unite(a, b) = MeetConstraint(a, b)
    <2>1. CASE Clash(a, b) BY <1>2, <1>8, <2>1, ConstraintForm
    <2>2. CASE ~Clash(a, b)
      <3> DEFINE w == Merged(a, b)
      <3>1. MeetConstraint(a, b) = Finish(w) BY <1>8, <2>2, ConstraintForm
      <3>2. w.lo = Tighter(a.lo, b.lo, TRUE) /\ w.hi = Tighter(a.hi, b.hi, FALSE)
        BY DEF Merged
      <3>3. a.is = "residual" /\ b.is = "residual" BY <1>8, IsTells
      <3>4. Normalised(w) BY <1>8, <3>3, ResidualIs, MergedNormal DEF NormalOne
      <3> HIDE DEF w
      <3>5. w.lo \in {a.lo, b.lo} /\ w.hi \in {a.hi, b.hi} BY <3>2 DEF Tighter
      <3>6. Drawn(w, a, b) BY <3>3, <3>4, <3>5 DEF Drawn
      <3> QED BY <1>8, <3>1, <3>6, DrawnFinish
    <2> QED BY <2>1, <2>2
  <1>9. ASSUME NEW r \in Residuals, NormalOne(r), NEW k \in Kinds PROVE Drawn(MeetKind(r, k), r, k)
    <2> DEFINE w == Narrowed(r, k)
    <2>1. MeetKind(r, k) = Nil \/ MeetKind(r, k) = Finish(w) BY DEF MeetKind
    <2>2. w.is = "residual" /\ w.lo = r.lo /\ w.hi = r.hi /\ w.mults = r.mults /\ w.count = r.count
      BY NarrowedFields
    <2> HIDE DEF w
    <2>3. Drawn(Finish(w), r, k) BY <1>9, <2>2, IsTells, DrawnAside, DrawnFinish DEF NormalOne
    <2> QED BY <2>1, <2>3, IsTells, DrawnNot
  <1>10. CASE a \in Residuals /\ b \in Kinds /\ Unite(a, b) = MeetKind(a, b) BY <1>9, <1>10
  <1>11. CASE a \in Kinds /\ b \in Residuals /\ Unite(a, b) = MeetKind(b, a)
    BY <1>3, <1>9, <1>11
  <1>12. ASSUME NEW r \in Residuals, NEW s \in Scalars PROVE Admit(r, s).is # "residual"
    BY AdmitForm, IsTells
  <1>13. ASSUME NEW k \in Kinds, NEW s \in Scalars PROVE KindScalar(k, s).is # "residual"
    BY KindScalarForm, IsTells
  <1>14. CASE a \in Kinds /\ b \in Kinds /\ Unite(a, b) = KindKind(a, b)
    <2>1. KindKind(a, b) = Nil \/ KindKind(a, b).is = "kind" BY <1>14, KindShape DEF KindKind, Kinds
    <2> QED BY <1>2, <1>14, <2>1, DrawnNot
  <1>15. CASE a \in Scalars /\ b \in Scalars /\ Unite(a, b) = ScalarScalar(a, b)
    <2>1. CASE ScalarScalar(a, b) \in {Nil, a, b} BY <1>1, <1>2, <1>15, <2>1
    <2>2. CASE /\ SameScalar(a, b)
               /\ ScalarScalar(a, b) = [a EXCEPT !.needs = a.needs \/ b.needs, !.ok = a.ok \/ b.ok]
      <3> DEFINE w == [a EXCEPT !.needs = a.needs \/ b.needs, !.ok = a.ok \/ b.ok]
      <3>1. w \in Scalars /\ ScalarScalar(a, b) = w BY <1>15, <2>2, SharedScalar
      <3> HIDE DEF w
      <3> QED BY <1>15, <3>1, IsTells, DrawnNot
    <2> QED BY <1>15, <2>1, <2>2, ScalarScalarForm
  <1> QED
    BY <1>5, <1>6, <1>7, <1>8, <1>10, <1>11, <1>12, <1>13, <1>14, <1>15, UniteCases, DrawnNot

(***************************************************************************)
(* What a part holds is the widest value that keeps what its terms say.    *)
(***************************************************************************)
Orderly(A) == OnePath(A) /\ (Lawful(A) \/ Empty \notin A)

Greatest(a, A) ==
  Orderly(A) =>
    /\ PathScalar(a) => \E t \in A : PathScalar(t) /\ t.v = a.v
    /\ \A t \in A : Heeds(t, a)
    /\ \A u \in LeafType : (\A t \in A : Heeds(t, u)) => Heeds(a, u)

EndsDrawn(a, A) ==
  a.is = "residual" =>
    /\ Normalised(a)
    /\ a.lo.on => \E t \in A : t.is = "residual" /\ a.lo = t.lo
    /\ a.hi.on => \E t \in A : t.is = "residual" /\ a.hi = t.hi

OrderInv == \A p \in Part : Greatest(val[p], met[p]) /\ EndsDrawn(val[p], met[p])

LEMMA OrderlyUnion ==
  ASSUME NEW A, NEW B, Orderly(A \union B)
  PROVE  Orderly(A) /\ Orderly(B)
  BY LawfulUnion DEF Orderly, OnePath

LEMMA UniteGreatest ==
  ASSUME NEW a, NEW A, Means(a, A), Greatest(a, A), NEW b, NEW B, Means(b, B), Greatest(b, B),
         A \subseteq LeafType, B \subseteq LeafType
  PROVE  Greatest(Unite(a, b), A \union B)
  <1> SUFFICES ASSUME Orderly(A \union B)
               PROVE  /\ PathScalar(Unite(a, b))
                           => \E t \in A \union B : PathScalar(t) /\ t.v = Unite(a, b).v
                      /\ \A t \in A \union B : Heeds(t, Unite(a, b))
                      /\ \A u \in LeafType :
                           (\A t \in A \union B : Heeds(t, u)) => Heeds(Unite(a, b), u)
    BY DEF Greatest
  <1> DEFINE w == Unite(a, b)
  <1>1. a \in LeafType /\ b \in LeafType BY DEF Means
  <1>2. w \in LeafType BY <1>1, UniteFine DEF Fine
  <1>3. Orderly(A) /\ Orderly(B) BY OrderlyUnion
  <1>4. /\ PathScalar(a) => \E t \in A : PathScalar(t) /\ t.v = a.v
        /\ \A t \in A : Heeds(t, a)
        /\ \A u \in LeafType : (\A t \in A : Heeds(t, u)) => Heeds(a, u)
    BY <1>3 DEF Greatest
  <1>5. /\ PathScalar(b) => \E t \in B : PathScalar(t) /\ t.v = b.v
        /\ \A t \in B : Heeds(t, b)
        /\ \A u \in LeafType : (\A t \in B : Heeds(t, u)) => Heeds(b, u)
    BY <1>3 DEF Greatest
  <1>6. PathScalar(a) /\ PathScalar(b) => a.v = b.v BY <1>4, <1>5 DEF Orderly, OnePath
  <1>7. ~(PathScalar(a) /\ Waives(b)) /\ ~(PathScalar(b) /\ Waives(a))
    <2>1. PathScalar(a) \/ PathScalar(b) => ~Lawful(A \union B) BY LawfulUnion DEF Means
    <2>2. Waives(a) \/ Waives(b) => Empty \in A \union B BY DEF Means
    <2> QED BY <2>1, <2>2 DEF Orderly
  <1>8. Heeds(a, w) /\ Heeds(b, w) BY <1>1, <1>6, <1>7, UniteIsGreatest
  <1>9. PathScalar(w) => \E t \in A \union B : PathScalar(t) /\ t.v = w.v
    BY <1>1, <1>4, <1>5, UnitePath
  <1>10. \A t \in A \union B : Heeds(t, w)
    BY <1>1, <1>2, <1>4, <1>5, <1>8, HeedsTransitive
  <1>11. ASSUME NEW u \in LeafType, \A t \in A \union B : Heeds(t, u) PROVE Heeds(w, u)
    <2>1. Heeds(a, u) /\ Heeds(b, u) BY <1>4, <1>5, <1>11
    <2> QED BY <1>1, <2>1, UniteWidest DEF Widest, Both
  <1> QED BY <1>9, <1>10, <1>11

LEMMA UniteEnds ==
  ASSUME NEW a \in LeafType, NEW A, EndsDrawn(a, A), NEW b \in LeafType, NEW B, EndsDrawn(b, B)
  PROVE  EndsDrawn(Unite(a, b), A \union B)
  <1>1. NormalOne(a) /\ NormalOne(b) BY DEF EndsDrawn, NormalOne
  <1>2. Drawn(Unite(a, b), a, b) BY <1>1, UniteDrawn
  <1> DEFINE w == Unite(a, b)
  <1> HIDE DEF w
  <1>3. ASSUME Drawn(w, a, b) PROVE EndsDrawn(w, A \union B)
    <2> SUFFICES ASSUME w.is = "residual"
                 PROVE  /\ Normalised(w)
                        /\ w.lo.on => \E t \in A \union B : t.is = "residual" /\ w.lo = t.lo
                        /\ w.hi.on => \E t \in A \union B : t.is = "residual" /\ w.hi = t.hi
      BY DEF EndsDrawn
    <2>1. /\ Normalised(w)
          /\ w.lo.on => \E c \in {a, b} : c.is = "residual" /\ w.lo = c.lo
          /\ w.hi.on => \E c \in {a, b} : c.is = "residual" /\ w.hi = c.hi
      BY <1>3 DEF Drawn
    <2>2. w.lo.on => \E t \in A \union B : t.is = "residual" /\ w.lo = t.lo
      BY <2>1 DEF EndsDrawn
    <2>3. w.hi.on => \E t \in A \union B : t.is = "residual" /\ w.hi = t.hi
      BY <2>1 DEF EndsDrawn
    <2> QED BY <2>1, <2>2, <2>3
  <1> QED BY <1>2, <1>3 DEF w

LEMMA TermGreatest ==
  ASSUME NEW t \in Terms
  PROVE  Greatest(t, {t}) /\ EndsDrawn(t, {t})
  <1>1. t \in LeafType /\ (t.is = "residual" => Normalised(t)) BY TermsAssumption
  <1>2. Heeds(t, t) BY <1>1, HeedsSelf
  <1> QED BY <1>1, <1>2 DEF Greatest, EndsDrawn

LEMMA TopGreatest == Greatest(Top, {}) /\ EndsDrawn(Top, {})
  BY IsTells DEF Greatest, EndsDrawn, PathScalar, Heeds

LEMMA OrderStep ==
  ASSUME IInv, OrderInv, [Next]_vars
  PROVE  OrderInv'
  <1>1. TypeOK /\ PartInv /\ MeetIsExact BY DEF IInv
  <1>2. \A p \in Part : /\ Means(val[p], met[p]) /\ val[p] \in LeafType
                        /\ Greatest(val[p], met[p]) /\ EndsDrawn(val[p], met[p])
    BY <1>1, PartMeans DEF OrderInv, TypeOK
  <1>3. \A p \in Part : met[p] \subseteq Terms /\ met[p] \subseteq LeafType
    BY <1>1, TermsAssumption DEF TypeOK
  <1>4. ASSUME NEW q \in Part, NEW t \in Terms, Write(q, t) PROVE OrderInv'
    <2>1. PICK v \in {Unite(val[q], t), Unite(t, val[q])} : val' = [val EXCEPT ![q] = v]
      BY <1>4 DEF Write
    <2>2. met' = [met EXCEPT ![q] = met[q] \union {t}] BY <1>4 DEF Write
    <2>3. /\ Means(t, {t}) /\ Greatest(t, {t}) /\ EndsDrawn(t, {t})
          /\ t \in LeafType /\ {t} \subseteq LeafType
      BY TermMeans, TermGreatest, TermsAssumption
    <2>4. /\ Greatest(Unite(val[q], t), met[q] \union {t})
          /\ EndsDrawn(Unite(val[q], t), met[q] \union {t})
      BY <1>2, <1>3, <2>3, UniteGreatest, UniteEnds
    <2>5. /\ Greatest(Unite(t, val[q]), {t} \union met[q])
          /\ EndsDrawn(Unite(t, val[q]), {t} \union met[q])
      BY <1>2, <1>3, <2>3, UniteGreatest, UniteEnds
    <2>6. {t} \union met[q] = met[q] \union {t} OBVIOUS
    <2>7. Greatest(v, met[q] \union {t}) /\ EndsDrawn(v, met[q] \union {t})
      BY <2>1, <2>4, <2>5, <2>6
    <2>8. \A p \in Part : val'[p] = (IF p = q THEN v ELSE val[p])
                          /\ met'[p] = (IF p = q THEN met[q] \union {t} ELSE met[p])
      BY <1>1, <2>1, <2>2 DEF TypeOK
    <2>9. \A p \in Part : Greatest(val'[p], met'[p]) /\ EndsDrawn(val'[p], met'[p])
      BY <1>2, <2>7, <2>8
    <2> QED BY <2>9 DEF OrderInv, Greatest, EndsDrawn
  <1>5. CASE Join
    <2> DEFINE v == Unite(val["left"], val["right"])
               A == met["left"] \union met["right"]
    <2>1. "left" \in Part /\ "right" \in Part BY DEF Part
    <2>2. /\ val' = [val EXCEPT !["left"] = v, !["right"] = Top]
          /\ met' = [met EXCEPT !["left"] = A, !["right"] = {}]
      BY <1>5 DEF Join
    <2>3. Greatest(v, A) /\ EndsDrawn(v, A)
      BY <1>2, <1>3, <2>1, UniteGreatest, UniteEnds
    <2> HIDE DEF v, A
    <2>4. /\ val'["left"] = v /\ val'["right"] = Top
          /\ met'["left"] = A /\ met'["right"] = {}
      BY <1>1, <2>1, <2>2 DEF TypeOK
    <2>5. \A p \in Part : Greatest(val'[p], met'[p]) /\ EndsDrawn(val'[p], met'[p])
      BY <2>3, <2>4, TopGreatest DEF Part
    <2> QED BY <2>5 DEF OrderInv, Greatest, EndsDrawn
  <1>6. CASE UNCHANGED vars BY <1>6 DEF vars, OrderInv, Greatest, EndsDrawn
  <1> QED BY <1>4, <1>5, <1>6 DEF Next

LEMMA OrderHolds ==
  ASSUME IInv, BelowInv, OrderInv, met["left"] = met["right"],
         Cardinality(PathValues(met["left"])) <= 1,
         Lawful(met["left"]) \/ Empty \notin met["left"], Unmixed(met["left"])
  PROVE  Shown(val["left"]) = Shown(val["right"])
  <1>1. TypeOK BY DEF IInv
  <1>2. "left" \in Part /\ "right" \in Part BY DEF Part
  <1>3. PICK A : A = met["left"] /\ A = met["right"] OBVIOUS
  <1>4. PICK a \in LeafType, b \in LeafType : a = val["left"] /\ b = val["right"]
    BY <1>1, <1>2 DEF TypeOK
  <1>5. Orderly(A) BY <1>2, <1>3, PathsAreOne DEF Orderly, BelowInv
  <1>6. Greatest(a, A) /\ EndsDrawn(a, A) /\ Greatest(b, A) /\ EndsDrawn(b, A)
    BY <1>2, <1>3, <1>4 DEF OrderInv
  <1>7. Heeds(a, b) /\ Heeds(b, a) BY <1>5, <1>6 DEF Greatest
  <1>8. ASSUME a.is = "residual", b.is = "residual"
        PROVE  Normalised(a) /\ Normalised(b) /\ ~Mixed(a.lo, b.lo) /\ ~Mixed(a.hi, b.hi)
    <2>1. Unmixed(A) BY <1>3
    <2>2. Normalised(a) /\ Normalised(b) BY <1>6, <1>8 DEF EndsDrawn
    <2>3. ASSUME a.lo.on, b.lo.on PROVE ~Mixed(a.lo, b.lo)
      <3>1. PICK s \in A : s.is = "residual" /\ a.lo = s.lo BY <1>6, <1>8, <2>3 DEF EndsDrawn
      <3>2. PICK t \in A : t.is = "residual" /\ b.lo = t.lo BY <1>6, <1>8, <2>3 DEF EndsDrawn
      <3> QED BY <2>1, <3>1, <3>2 DEF Unmixed
    <2>4. ASSUME a.hi.on, b.hi.on PROVE ~Mixed(a.hi, b.hi)
      <3>1. PICK s \in A : s.is = "residual" /\ a.hi = s.hi BY <1>6, <1>8, <2>4 DEF EndsDrawn
      <3>2. PICK t \in A : t.is = "residual" /\ b.hi = t.hi BY <1>6, <1>8, <2>4 DEF EndsDrawn
      <3> QED BY <2>1, <3>1, <3>2 DEF Unmixed
    <2>5. ~Mixed(a.lo, b.lo) /\ ~Mixed(a.hi, b.hi) BY <2>3, <2>4 DEF Mixed
    <2> QED BY <2>2, <2>5
  <1>9. Alike(a, b) BY <1>8 DEF Alike
  <1>10. Shown(a) = Shown(b) BY <1>7, <1>9, HeedsSame
  <1> QED BY <1>4, <1>10

\* "Normalisation, not term order, defines the result": two parts that met
\* the same terms hold the same value, for both hold the widest that keeps
\* what the terms say, and no two such values are shown differently.
THEOREM MeetOrderFree == Spec => []OrderFree
  <1>1. Init => OrderInv
    <2> SUFFICES ASSUME Init PROVE OrderInv OBVIOUS
    <2>1. \A p \in Part : val[p] = Top /\ met[p] = {} BY DEF Init
    <2> QED BY <2>1, TopGreatest DEF OrderInv
  <1>2. IInv /\ OrderInv /\ [Next]_vars => OrderInv' BY OrderStep
  <1>3. IInv /\ BelowInv /\ OrderInv => OrderFree BY OrderHolds DEF OrderFree
  <1> QED BY <1>1, <1>2, <1>3, Invariance, BelowHolds, PTL DEF Spec
=============================================================================
