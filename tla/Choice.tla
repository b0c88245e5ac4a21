------------------------------- MODULE Choice -------------------------------
(***************************************************************************)
(* Disjunctions, preferences and maps: what a field says when documents    *)
(* offer it alternatives and defaults, and members of its own              *)
(* (val/DisjunctVal.ts, PrefVal.ts, MapVal.ts, BagVal.ts, SealVal.ts,      *)
(* SuperFuncVal.ts and the dispatch of unify.ts).  Values without parts    *)
(* are module Leaf's.                                                      *)
(*                                                                         *)
(* Two parts of a document meet the terms written in them, in any order    *)
(* and on either side, and then meet each other.                           *)
(***************************************************************************)
EXTENDS Leaf, FiniteSetsExt, SequencesExt

CONSTANTS
  KeyOrder,   \* the keys, in code point order
  Terms,      \* the terms the document may write
  Sample,     \* the values it is tried with
  MaxTerms    \* BOUND: the different terms it writes

(***************************************************************************)
(* Values.  A preference stands over a value, at a rank that counts its    *)
(* stars from 0, with the space an override of it may come from.           *)
(***************************************************************************)
Pref(of, rank, gate) == [is |-> "pref", of |-> of, rank |-> rank, gate |-> gate]
Alts(arms) == [is |-> "alts", arms |-> arms]
Map(of, opt, closed, spread) ==
  [is |-> "map", of |-> of, opt |-> opt, closed |-> closed, spread |-> spread]
None == [is |-> "none"]

LeafIs == {"top", "nil", "empty", "kind", "scalar", "residual"}
KeysOf(m) == DOMAIN m.of
Drives(v) == v.is \in {"pref", "alts"}
OneOf(arms) == IF arms = <<>> THEN Nil ELSE IF Len(arms) = 1 THEN arms[1] ELSE Alts(arms)

\* superOf: the immediate parent type, a map's and a choice's by parts.
RECURSIVE Super(_)
Super(v) ==
  CASE v.is = "scalar" -> Kind(v.leaf, v.leaf = "string" /\ (v.v = 0 \/ v.ok))
    [] v.is = "kind" -> IF v.kind \in NumLeaf THEN Kind("number", FALSE) ELSE Top
    [] v.is = "residual" ->
         IF v.kind # "none" THEN Kind(v.kind, FALSE)
         ELSE IF v.domain # "none" THEN Kind(v.domain, FALSE) ELSE Top
    [] v.is = "map" ->
         [v EXCEPT !.of = [k \in KeysOf(v) |-> Super(v.of[k])],
                   !.spread = IF v.spread = None THEN None ELSE Super(v.spread)]
    [] v.is = "pref" -> Super(v.of)
    [] v.is = "alts" ->
         LET lifts == [i \in DOMAIN v.arms |-> Super(v.arms[i])]
             add(arms, lift) == IF lift \in ToSet(arms) THEN arms ELSE Append(arms, lift)
         IN  IF Top \in ToSet(lifts) THEN Top ELSE OneOf(FoldLeft(add, <<>>, lifts))
    [] OTHER -> v

\* The sameness alternatives collapse by; two choices are never the same.
RECURSIVE Same(_, _)
Same(a, b) ==
  CASE a.is = "scalar" /\ b.is = "scalar" -> SameScalar(a, b)
    [] a.is = "pref" /\ b.is = "pref" -> a.rank = b.rank /\ Same(a.of, b.of)
    [] a.is = "map" /\ b.is = "map" ->
         /\ a.closed = b.closed /\ a.spread = b.spread /\ a.opt = b.opt /\ KeysOf(a) = KeysOf(b)
         /\ \A k \in KeysOf(a) : Same(a.of[k], b.of[k])
    [] OTHER -> a = b /\ a.is \notin {"alts", "nil"}

(***************************************************************************)
(* Preferences (PrefVal.unify).                                            *)
(***************************************************************************)
\* restand: what is itself preferred is so once more.
Stand(met, rank, gate) ==
  IF met.is = "pref" THEN Pref(met.of, met.rank + 1 + rank, gate) ELSE Pref(met, rank, gate)

RECURSIVE Meet(_, _)

\* The preferred value answers first and stands; otherwise the override
\* space does.
Answers(p, met, space) == IF met = Nil THEN space ELSE Stand(met, p.rank, space)
PrefOther(p, peer) == Answers(p, Meet(p.of, peer), Meet(p.gate, peer))

\* overMet: of one rank, either's bound holds.
Bounded(p, q, met, gate) ==
  IF gate = Nil /\ p.gate # q.gate THEN met ELSE [met EXCEPT !.gate = gate]
Twins(p, q, met) ==
  IF met = Nil THEN Nil
  ELSE Bounded(p, q, Stand(met, p.rank, Super(met)),
               IF p.gate = q.gate THEN p.gate ELSE Meet(p.gate, q.gate))

PrefPref(p, q) ==
  CASE p.rank < q.rank -> p
    [] p.rank > q.rank -> q
    [] p.rank = q.rank -> Twins(p, q, Meet(p.of, q.of))

MeetPref(p, peer) == IF peer.is = "pref" THEN PrefPref(p, peer) ELSE PrefOther(p, peer)

(***************************************************************************)
(* Disjunctions (DisjunctVal.unify).                                       *)
(***************************************************************************)
\* rankPrefs: preferences of one rank fold into the first of them.
Ranked(arms) ==
  LET add(done, v) ==
        LET twins == {i \in DOMAIN done : done[i].is = "pref" /\ v.is = "pref" /\ done[i].rank = v.rank}
        IN  IF twins = {} THEN Append(done, v)
            ELSE [done EXCEPT ![Min(twins)] = PrefPref(v, @)]
  IN  FoldLeft(add, <<>>, arms)

\* MUTANT of Standing: only failures are dropped.
StandingAll(arms) == SelectSeq(arms, LAMBDA v : v # Nil)

\* Flattened and without duplicates: of two preferences of one value the
\* one with fewer stars.
Standing(arms) ==
  LET twin(a, v) == IF a.is = "pref" /\ v.is = "pref" THEN Same(a.of, v.of) ELSE Same(v, a)
      wins(a, v) == twin(a, v) /\ (a.is = "pref" => a.rank <= v.rank)
      keep(done, v) ==
        IF v = Nil \/ \E i \in DOMAIN done : wins(done[i], v) THEN done
        ELSE Append(SelectSeq(done, LAMBDA a : ~twin(a, v)), v)
      flat(done, v) == IF v.is = "alts" THEN FoldLeft(keep, done, v.arms) ELSE keep(done, v)
  IN  FoldLeft(flat, <<>>, arms)

\* An arm `*x` is the arm x: what x refuses kills it, whatever x's kind
\* admits.  A preference that meets an arm it names marks it.
Marked(met, peer) ==
  IF peer.is = "pref" /\ met.is \notin {"pref", "nil"} /\ Same(met, peer.of)
  THEN Pref(met, peer.rank, Super(met)) ELSE met
ArmMeets(v, peer) ==
  IF v.is = "pref" /\ peer.is \notin {"pref", "top"} /\ Meet(v.of, peer) = Nil THEN Nil
  ELSE Marked(Meet(v, peer), peer)

Distributed(arms, peer) ==
  IF Nil \in ToSet(arms) THEN Nil
  ELSE OneOf(Standing([i \in DOMAIN arms |-> ArmMeets(arms[i], peer)]))
MeetAlts(d, peer) == Distributed(Ranked(d.arms), peer)

(***************************************************************************)
(* Maps (MapVal.unify).  A template (`&:`) governs every member.           *)
(***************************************************************************)
Template(s, t) == IF s = None \/ s = t THEN t ELSE IF t = None THEN s ELSE Meet(s, t)

RECURSIVE SealTree(_)
SealTree(v) ==
  IF v.is # "map" THEN v
  ELSE [v EXCEPT !.closed = TRUE, !.of = [k \in KeysOf(v) |-> SealTree(v.of[k])]]
SealChild(v) == IF v.is = "map" /\ ~v.closed THEN SealTree(v) ELSE v
SealedIf(closed, v) == IF closed THEN SealChild(v) ELSE v

\* MUTANT of StaysOptional: optional wherever one side says so.
StaysOptionalSome(a, b) == a.opt \union b.opt

\* Required wins: optional where every side that declares it says so.
StaysOptional(a, b) ==
  (a.opt \intersect b.opt) \union (a.opt \ KeysOf(b)) \union (b.opt \ KeysOf(a))

\* What one side's seal forbids the other to declare.
Undeclared(a, b) == IF a.closed THEN KeysOf(b) \ KeysOf(a) ELSE {}

MapMap(a, b) ==
  LET spread == Template(a.spread, b.spread)
      own(k) == IF spread \in {None, a.spread} THEN a.of[k] ELSE Meet(a.of[k], spread)
      their(k) == IF a.spread = None \/ spread = b.spread THEN b.of[k] ELSE Meet(b.of[k], spread)
      member(k) ==
        IF k \notin KeysOf(b) THEN own(k)
        ELSE IF k \notin KeysOf(a) THEN their(k)
        ELSE Meet(SealedIf(a.closed, own(k)), b.of[k])
      barred == Undeclared(a, b) \union Undeclared(b, a)
      keys   == (KeysOf(a) \union KeysOf(b)) \ barred
      of     == [k \in keys |-> SealedIf(a.closed, member(k))]
  IN  IF ~(barred \subseteq a.opt \union b.opt) \/ \E k \in keys : of[k] = Nil THEN Nil
      ELSE Map(of, StaysOptional(a, b) \ barred, a.closed, spread)

\* MUTANT of MeetMap: the left side leads.
MeetMapLeft(a, b) == MapMap(a, b)

\* The sealed side leads, or of two the one with fewer keys.
MeetMap(a, b) ==
  IF b.closed /\ (~a.closed \/ Cardinality(KeysOf(b)) < Cardinality(KeysOf(a)))
    THEN MapMap(b, a) ELSE MapMap(a, b)

(***************************************************************************)
(* unite: a preference or a choice on the right answers, then one on the   *)
(* left; a map meets maps alone.                                           *)
(***************************************************************************)
Driven(d, peer) == IF d.is = "pref" THEN MeetPref(d, peer) ELSE MeetAlts(d, peer)

Meet(a, b) ==
  CASE b.is = "top" -> a
    [] a.is = "top" /\ b.is # "top" -> b
    [] "nil" \in {a.is, b.is} /\ "top" \notin {a.is, b.is} -> Nil
    [] Drives(b) /\ a.is \notin {"top", "nil"} -> Driven(b, a)
    [] Drives(a) /\ ~Drives(b) /\ b.is \notin {"top", "nil"} -> Driven(a, b)
    [] a.is = "map" /\ b.is = "map" -> MeetMap(a, b)
    [] a.is \in LeafIs \ {"top", "nil"} /\ b.is \in LeafIs \ {"top", "nil"} -> Unite(a, b)
    [] OTHER -> Nil

\* A value as it is written meets itself first: its arms are ranked, its
\* template reaches its members, its seal their own.
RECURSIVE Self(_)
Self(v) ==
  CASE v.is = "pref" -> LET of == Self(v.of) IN Pref(of, v.rank, Super(of))
    [] v.is = "alts" -> MeetAlts(Alts([i \in DOMAIN v.arms |-> Self(v.arms[i])]), Top)
    [] v.is = "map" ->
         LET member(k) == IF v.spread = None THEN Self(v.of[k]) ELSE Meet(Self(v.of[k]), v.spread)
             of == [k \in KeysOf(v) |-> SealedIf(v.closed, member(k))]
         IN  IF \E k \in KeysOf(v) : of[k] = Nil THEN Nil ELSE [v EXCEPT !.of = of]
    [] OTHER -> v

(***************************************************************************)
(* Generation: the value the document says, or none.                       *)
(***************************************************************************)
Atomic(x) == [is |-> "atom", at |-> x]
Bagged(at) == [is |-> "map", at |-> at]

\* The first of fewest stars; two of one rank only where they do not fold.
Best(prefs) == FoldLeft(LAMBDA best, p : IF p.rank < best.rank THEN p ELSE best, prefs[1], prefs)

Folded(arms, ranked) == IF Nil \in ToSet(ranked) THEN arms ELSE ranked
Preferred(arms) == SelectSeq(arms, LAMBDA p : p.is = "pref")

\* What a member has to be to generate at all (bagGenable).
Genable(v) == v.is \in {"scalar", "pref", "alts", "map"}

RECURSIVE Gen(_), Left(_)
GenAlts(prefs, gens) ==
  IF prefs # <<>> THEN Gen(Best(prefs)) ELSE IF Cardinality(gens) = 1 THEN UNION gens ELSE {}
Stars(v) == Preferred(Folded(v.arms, Ranked(v.arms)))

Required(m) == KeysOf(m) \ m.opt
Gen(v) ==
  CASE v.is = "scalar" ->
         IF RefusesEmpty(v) THEN {} ELSE {Atomic([leaf |-> v.leaf, v |-> v.v])}
    [] v.is = "pref" -> Gen(v.of)
    [] v.is = "alts" -> GenAlts(Stars(v), {Gen(v.arms[i]) : i \in DOMAIN v.arms})
    [] v.is = "map" -> IF \E k \in Required(v) : Gen(v.of[k]) = {} THEN {} ELSE Left(v)
    [] OTHER -> {}

\* The members a map comes to, key by key, before one that stops it.
Reached(m) ==
  LET stops == {k \in Required(m) : ~Genable(m.of[k])}
      at(k) == CHOOSE i \in DOMAIN KeyOrder : KeyOrder[i] = k
  IN  {k \in KeysOf(m) : Genable(m.of[k]) /\ \A j \in stops : at(k) < at(j)}

\* What is left of a value when its failures are set aside, as an optional
\* member's are: of a map, the members there are by then.
Left(v) ==
  CASE v.is = "pref" -> Left(v.of)
    [] v.is = "alts" -> IF Stars(v) # <<>> THEN Left(Best(Stars(v))) ELSE Gen(v)
    [] v.is = "map" ->
         LET dropped(k) ==
               Left(v.of[k]) = {} \/ (k \in v.opt /\ Left(v.of[k]) = {Bagged(<<>>)})
             keys == {k \in Reached(v) : ~dropped(k)}
         IN  {Bagged([k \in keys |-> CHOOSE x \in Left(v.of[k]) : TRUE])}
    [] OTHER -> Gen(v)

(***************************************************************************)
(* What a written term says, read arm by arm and member by member.         *)
(***************************************************************************)
RECURSIVE Says(_, _)
Says(v, x) ==
  CASE v.is \in LeafIs -> v.is = "top" \/ (x.is = "atom" /\ Admits(v, x.at))
    [] v.is = "pref" -> Says(v.of, x) \/ Says(Super(v.of), x)
    [] v.is = "alts" ->
         \E i \in DOMAIN v.arms :
           Says(IF v.arms[i].is = "pref" THEN v.arms[i].of ELSE v.arms[i], x)
    [] v.is = "map" ->
         /\ x.is = "map"
         /\ KeysOf(v) \ v.opt \subseteq DOMAIN x.at
         /\ v.closed => DOMAIN x.at \subseteq KeysOf(v)
         /\ \A k \in DOMAIN x.at :
              /\ k \in KeysOf(v) => Says(SealedIf(v.closed, v.of[k]), x.at[k])
              /\ v.spread # None => Says(v.spread, x.at[k])

RECURSIVE Parts(_)
Parts(v) ==
  {v} \union CASE v.is = "pref" -> Parts(v.of)
               [] v.is = "alts" -> UNION {Parts(v.arms[i]) : i \in DOMAIN v.arms}
               [] v.is = "map" -> UNION {Parts(v.of[k]) : k \in KeysOf(v)}
               [] OTHER -> {}
Prefers(t) == \E part \in Parts(t) : part.is = "pref"
PrefersArm(t) ==
  \E part \in Parts(t) : part.is = "alts" /\ \E i \in DOMAIN part.arms : part.arms[i].is = "pref"
Optional(t) == UNION {part.opt : part \in {q \in Parts(t) : q.is = "map"}}

\* A value stated outright, as data is.
RECURSIVE Exactly(_)
Exactly(x) ==
  IF x.is = "atom" THEN Lit(x.at)
  ELSE Map([k \in DOMAIN x.at |-> Exactly(x.at[k])], {}, TRUE, None)

\* No refusal is written, no choice is an arm of a choice, a preference is
\* over a leaf or a map, and a template is a leaf.
RECURSIVE Written(_)
Written(v) ==
  CASE v.is \in LeafIs -> v \in LeafType \ {Nil, Empty} /\ (v.is = "residual" => v.domain # "none")
    [] v.is = "pref" -> v.of.is \in LeafIs \union {"map"} /\ Written(v.of)
    [] v.is = "alts" -> Len(v.arms) > 1 /\ \A i \in DOMAIN v.arms :
                          v.arms[i].is # "alts" /\ Written(v.arms[i])
    [] v.is = "map" -> /\ v.opt \subseteq KeysOf(v)
                       /\ v.spread \in LeafType \union {None}
                       /\ \A k \in KeysOf(v) : Written(v.of[k])
    [] OTHER -> FALSE

ASSUME ChoiceAssumption ==
  /\ \A t \in Terms : Written(t)
  /\ MaxTerms \in Nat

(***************************************************************************)
(* The document.                                                           *)
(***************************************************************************)
\* Each term on its own, and the values it says.
Standalone == [t \in Terms |-> Self(t)]
Said == [t \in Terms |-> {x \in Sample : Says(t, x)}]
Defaulted == {t \in Terms : Prefers(t)}
Data == [x \in Sample |-> Exactly(x)]

VARIABLES
  val,   \* part |-> the meet so far
  met    \* part |-> the terms it has met

vars == <<val, met>>

Part == {"left", "right"}

Init ==
  /\ val = [p \in Part |-> Top]
  /\ met = [p \in Part |-> {}]

Sofar == met["left"] \union met["right"]

\* A part meets one more term, written before or after.  BOUND: a term with
\* a default is written once, and nothing is added to what has failed.
Write(p, t) ==
  /\ Cardinality(Sofar \union {t}) <= MaxTerms
  /\ t \in Defaulted => t \notin Sofar
  /\ val[p] # Nil /\ (p = "right" => met["left"] # {})
  /\ \E v \in {Meet(val[p], Standalone[t]), Meet(Standalone[t], val[p])} : val' = [val EXCEPT ![p] = v]
  /\ met' = [met EXCEPT ![p] = @ \union {t}]

\* The two parts meet, and the left holds the whole.
Join ==
  /\ met["right"] # {}
  /\ \E v \in {Meet(val["left"], val["right"]), Meet(val["right"], val["left"])} :
       val' = [val EXCEPT !["left"] = v, !["right"] = Top]
  /\ met' = [met EXCEPT !["left"] = @ \union met["right"], !["right"] = {}]

Next == (\E p \in Part, t \in Terms : Write(p, t)) \/ Join

Spec == Init /\ [][Next]_vars
(***************************************************************************)
(* What arises is in normal form: the arms of a choice are two or more,    *)
(* no failure, no choice and no arm twice; a preference is over a value    *)
(* that is not itself preferred; a sealed map's members are sealed.        *)
(***************************************************************************)
RECURSIVE Normal(_)
Normal(v) ==
  CASE v.is = "pref" -> v.rank \in Nat /\ v.of.is # "pref" /\ Normal(v.of)
    [] v.is = "alts" ->
         /\ Len(v.arms) > 1
         /\ \A i \in DOMAIN v.arms : v.arms[i].is \notin {"nil", "alts"} /\ Normal(v.arms[i])
         /\ \A i, j \in DOMAIN v.arms : i < j => ~Same(v.arms[i], v.arms[j])
    [] v.is = "map" ->
         /\ v.opt \subseteq KeysOf(v)
         /\ \A k \in KeysOf(v) : /\ v.of[k] # Nil /\ Normal(v.of[k])
                                 /\ v.closed => SealChild(v.of[k]) = v.of[k]
    [] OTHER -> v \in LeafType

TypeOK ==
  /\ \A p \in Part : Normal(val[p])
  /\ met \in [Part -> SUBSET Terms]

Accepts(v, x) == Meet(v, Data[x]) # Nil
AllSay(ts, x) == \A t \in ts : x \in Said[t]
Defaults(ts) == UNION {{<<t, part>> : part \in {q \in Parts(t) : q.is = "pref"}} : t \in ts}

\* An optional member that no value fits is a failure of the whole.
Fits(ts) ==
  \A k \in UNION {Optional(t) : t \in ts} :
    \E x \in Sample : x.is = "map" /\ k \in DOMAIN x.at /\ AllSay(ts, x)

\* A default marks every arm of a choice it meets, and the marked arms fold,
\* clash or collapse, whatever each left to override it (rankPrefs, same).
Marks(ts) ==
  \E t, u \in ts : t # u /\ Prefers(t) /\ \E part \in Parts(u) : part.is = "alts"

(***************************************************************************)
(* Data meets a document exactly when every term of it admits the data,    *)
(* whatever was merged, flattened, dropped or sealed on the way, and       *)
(* whatever stands as a default ("a & b admits what both admit",           *)
(* docs/reference-language.md) - where one term at most has a default, and *)
(* that term no default among alternatives.                                *)
(***************************************************************************)
ChoiceIsExact ==
  \A p \in Part : Cardinality(Defaults(met[p])) <= 1 =>
    \A x \in Sample :
      /\ AllSay(met[p], x) /\ Fits(met[p]) /\ ~Marks(met[p]) => Accepts(val[p], x)
      /\ Accepts(val[p], x) => \A t \in met[p] : ~PrefersArm(t) => x \in Said[t]

\* The terms met in one fixed order, and two generated values that agree.
Inorder(ts) == FoldSet(LAMBDA t, v : Meet(Standalone[t], v), Top, ts)
Agree(one, other, ts) ==
  one = other \/ ({} \in {one, other} /\ (Marks(ts) \/ \E t \in ts : PrefersArm(t)))

(***************************************************************************)
(* A default does not depend on where it is written: two orders of the     *)
(* same terms never generate different values, and with no default among   *)
(* alternatives, nor one that makes them defaults, both generate or        *)
(* neither does.                                                           *)
(***************************************************************************)
DefaultIsFree ==
  \A p \in Part : Cardinality(Defaults(met[p])) <= 1 =>
    Agree(Gen(val[p]), Gen(Inorder(met[p])), met[p])

(***************************************************************************)
(* What the repository's texts say and the code does not do.               *)
(***************************************************************************)
\* "A preferred branch contributes exactly its own value to the admitted set,
\* ... and anything else is the empty disjunction" (docs/reference-language.md):
\* a value is accepted only where each term, a default's arms included, says so.
ArmIsItsValue ==
  \A p \in Part : Cardinality(Defaults(met[p])) <= 1 =>
    \A x \in Sample : Accepts(val[p], x) => AllSay(met[p], x)

\* "Conjunction is commutative, associative, and idempotent": what is generated
\* passes every bound that was written beside the defaults.
BoundsAreKept ==
  \A p \in Part : \A x \in Gen(val[p]) : AllSay(met[p] \ Defaulted, x)

\* The same, of the value itself: it does not depend on the grouping.
DefaultNeverShows ==
  \A p \in Part :
    Gen(val[p]) = Gen(Inorder(met[p]))
=============================================================================
