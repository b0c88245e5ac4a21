-------------------------------- MODULE Meet --------------------------------
(***************************************************************************)
(* A document says things about one field in any order and any grouping:   *)
(* two parts of it each meet the terms written in them, one after another  *)
(* and on either side, and then meet each other.  What is checked is that  *)
(* the order leaves no trace: the answer is a function of what was said,   *)
(* and admits exactly what every term admits.                              *)
(***************************************************************************)
EXTENDS Leaf

CONSTANTS
  Terms,      \* the terms the document may write
  Sample,     \* the values an answer is tried against
  MaxTerms    \* BOUND: the different terms a document writes

\* A term as it is written has met nothing: none but empty() itself waives,
\* and its divisors are the ones its normalisation left.
ASSUME TermsAssumption ==
  /\ Terms \subseteq LeafType
  /\ \A t \in Terms : Waives(t) => t = Empty
  /\ \A t \in Terms : t.is = "residual" => Normalised(t)
  /\ Sample \subseteq Instance
  /\ MaxTerms \in Nat

VARIABLES
  val,   \* part |-> the meet so far
  met    \* part |-> the terms it has met

vars == <<val, met>>

Part == {"left", "right"}

Init ==
  /\ val = [p \in Part |-> Top]
  /\ met = [p \in Part |-> {}]

\* A part meets one more term, the term first or second; a term it has met
\* may be written again.
Write(p, t) ==
  /\ Cardinality(met["left"] \union met["right"] \union {t}) <= MaxTerms
  /\ \E v \in {Unite(val[p], t), Unite(t, val[p])} : val' = [val EXCEPT ![p] = v]
  /\ met' = [met EXCEPT ![p] = @ \union {t}]

\* The two parts meet, and the left holds the whole.
Join ==
  /\ met["right"] # {}
  /\ val' = [val EXCEPT !["left"] = Unite(val["left"], val["right"]), !["right"] = Top]
  /\ met' = [met EXCEPT !["left"] = @ \union met["right"], !["right"] = {}]

Next == (\E p \in Part, t \in Terms : Write(p, t)) \/ Join

Spec == Init /\ [][Next]_vars

TypeOK ==
  /\ val \in [Part -> LeafType]
  /\ met \in [Part -> SUBSET Terms]

(***************************************************************************)
(* Paths.  Two rules of the code keep a path value out of the laws below:  *)
(* it may meet a longer address after a bound has admitted the shorter     *)
(* one, and a residual that met empty(), but never string, still admits    *)
(* it, where empty() itself refuses one.                                   *)
(***************************************************************************)
PathValues(ts) == {t \in ts : t.is = "scalar" /\ t.leaf = "path"}
Lawful(ts) == PathValues(ts) = {}
Settled(ts, x) == x.leaf = "path" => Empty \notin ts

(***************************************************************************)
(* The computed meet admits a value exactly when every term it met admits  *)
(* it, whatever the order and the grouping (docs/reference-language.md,    *)
(* "The meet").  In particular a failure means no value passes them all.   *)
(***************************************************************************)
MeetIsExact ==
  \A p \in Part : Lawful(met[p]) =>
    \A x \in Sample : Settled(met[p], x) =>
      (Admits(val[p], x) <=> \A t \in met[p] : Admits(t, x))

(***************************************************************************)
(* "Normalisation, not term order, defines the result": two parts that met *)
(* the same terms, in whatever order, on whatever sides and in whatever    *)
(* grouping, hold the same value, ends and exclusions as written.  "" is   *)
(* among them: whether it is refused is decided by the flags every meet    *)
(* combines, and a waiver that arrives late counts.                        *)
(***************************************************************************)
Shown(v) == IF v.is = "scalar" THEN [v EXCEPT !.needs = RefusesEmpty(v)] ELSE v

\* No two residuals of ts have, on one side, ends of which the first is kept.
Unmixed(ts) ==
  \A s, t \in ts :
    s.is = "residual" /\ t.is = "residual" => ~Mixed(s.lo, t.lo) /\ ~Mixed(s.hi, t.hi)

OrderFree ==
  /\ met["left"] = met["right"]
  /\ Cardinality(PathValues(met["left"])) <= 1
  /\ Lawful(met["left"]) \/ Empty \notin met["left"]
  /\ Unmixed(met["left"])
  => Shown(val["left"]) = Shown(val["right"])

OrderNeverShows == met["left"] = met["right"] => Shown(val["left"]) = Shown(val["right"])

(***************************************************************************)
(* subsume against the meet (docs/reference-language.md, "Subsumption": a  *)
(* row that holds proves the order).  Where the query says that a term, or *)
(* the other part, covers a part, every value the part takes is one the    *)
(* other takes.  A path value is left out, which stands for its extensions *)
(* too, and so are the paths that a residual with empty() goes on to admit,*)
(* and a part that is refused when it settles.                             *)
(***************************************************************************)
Takes(a, x) == Admits(a, x) /\ ~(x = [leaf |-> "string", v |-> 0] /\ RefusesEmpty(a))

Refused(v) == v = Nil \/ (v.is = "scalar" /\ RefusesEmpty(v))

CoverIsSound ==
  \A p \in Part : \A g \in Terms \union {val["left"]} :
    Lawful(met[p]) /\ ~Refused(g) /\ Covers(g, val[p]) =>
      \A x \in Sample : Takes(val[p], x) /\ ~(x.leaf = "path" /\ Waives(g)) => Takes(g, x)

(***************************************************************************)
(* "A covers B exactly when A & B is B": the query finds every part below  *)
(* each term it met, as long as the term holds no trial schema, which it   *)
(* never looks into, no empty() widened the part, and no address was made  *)
(* longer past the bound that admitted it.                                 *)
(***************************************************************************)
Comparable(t) == t.is # "empty" /\ (t.is = "residual" => OpaqueAtoms(t) = {})

MeetIsBelow ==
  \A p \in Part :
    /\ ~Refused(val[p])
    /\ \A t \in met[p] : ~Waives(t)
    /\ Cardinality(PathValues(met[p])) <= 1
    => \A t \in met[p] : Comparable(t) => Covers(t, val[p])
=============================================================================
