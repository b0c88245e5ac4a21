------------------------------ MODULE Subsume ------------------------------
(***************************************************************************)
(* What the answers of the subsumption query (Walk) should be: the         *)
(* greatest answer the rules allow, and what the values admitted say.      *)
(***************************************************************************)
EXTENDS Walk, FiniteSets

CONSTANTS
  Sample,     \* values an answer is tried against
  Passes,     \* <<leaf, v>>: the leaf admits the atomic value v
  Counts      \* <<leaf, n>>: the leaf admits a container of n members

(***************************************************************************)
(* The reference: the rules with nothing assumed and nothing remembered,   *)
(* as the greatest answer to every pair of nodes that is consistent with   *)
(* itself - the standard reading of an order on recursive types.           *)
(***************************************************************************)
RECURSIVE Parts(_)
Parts(n) ==
  {n} \union (IF n.form.is \in {"alts", "bag"} THEN UNION {Parts(Child(n, k)) : k \in KeysOf(n.form)}
             ELSE {})
      \union (IF n.form.is = "bag" /\ n.form.spread # NoSpread THEN Parts(SpreadOf(n)) ELSE {})
Nodes(doc) == UNION {Parts(Node(doc[name], <<name>>)) : name \in DOMAIN doc}

RECURSIVE Consistent(_, _, _)
Consistent(gd, sd, answer) ==
  LET next == [p \in DOMAIN answer |-> Ruled(gd, sd, answer, p)]
  IN  IF next = answer THEN answer ELSE Consistent(gd, sd, next)

Greatest ==
  [d \in Docs \X Docs |->
     Consistent(d[1], d[2], [p \in Nodes(d[1]) \X (Nodes(d[2]) \union {TopLike}) |-> "yes"])]

(***************************************************************************)
(* The values a form admits.  A recursion with no bag in it admits none.   *)
(***************************************************************************)
RECURSIVE Admits(_, _, _, _)
Admits(doc, f, v, fuel) ==
  CASE f.is = "any" -> TRUE
    [] f.is = "nil" -> FALSE
    [] f.is = "leaf" -> IF v.is = "atom" THEN <<f.leaf, v.v>> \in Passes
                        ELSE <<f.leaf, Cardinality(DOMAIN v.at)>> \in Counts
    [] f.is = "alts" -> \E k \in KeysOf(f) : Admits(doc, f.at[k], v, fuel)
    [] f.is = "rec" -> fuel > 0 /\ Admits(doc, doc[f.to], v, fuel - 1)
    [] f.is = "bag" ->
         /\ v.is = (IF f.list THEN "list" ELSE "map")
         /\ Required(f) \subseteq DOMAIN v.at
         /\ f.closed /\ ~(f.list /\ f.spread # NoSpread) => DOMAIN v.at \subseteq KeysOf(f)
         /\ \A k \in DOMAIN v.at :
              /\ k \in KeysOf(f) => Admits(doc, f.at[k], v.at[k], Cardinality(DOMAIN doc))
              /\ f.spread # NoSpread => Admits(doc, f.spread, v.at[k], Cardinality(DOMAIN doc))

Instances(doc, f) == {v \in Sample : Admits(doc, f, v, Cardinality(DOMAIN doc))}
Holdings == [d \in Docs |-> Instances(d, d["v"])]

\* Each recursion meets a bag before it meets itself.
RECURSIVE Exposed(_, _, _)
Exposed(doc, f, fuel) ==
  \/ fuel = 0
  \/ f.is = "rec" /\ Exposed(doc, doc[f.to], fuel - 1)
  \/ f.is = "alts" /\ \E k \in KeysOf(f) : Exposed(doc, f.at[k], fuel)
Contractive(doc) == \A n \in DOMAIN doc : ~Exposed(doc, doc[n], Cardinality(DOMAIN doc) + 1)
Inhabited(doc) == \A n \in DOMAIN doc : Instances(doc, doc[n]) # {}
Guarded == {d \in Docs : Contractive(d)}
\* What counts as concrete holds no recursion, as it could in a template.
Grounded == {d \in Guarded : \A n \in Nodes(d) : IsConcrete(n.form) => ~HoldsRec[n.form]}
Sound == {d \in Docs : Contractive(d) /\ Inhabited(d)}

(***************************************************************************)
(* What the walk remembers and assumes changes no answer: it is the one    *)
(* the rules give with nothing assumed, whichever member, alternative or   *)
(* recursion it meets first, and so a recursion and its unrolling answer   *)
(* yes both ways.  A concrete alternative with a recursion in its template *)
(* is left out: one that leans on a pair still running is admitted, though *)
(* that pair may turn out undecided.                                       *)
(***************************************************************************)
VerdictIsGreatest ==
  Done /\ gdoc \in Guarded /\ sdoc \in Grounded =>
    ctl.out = Greatest[<<gdoc, sdoc>>][Asked(gdoc, sdoc)]

(***************************************************************************)
(* "subsumes only where the order holds": every sampled value the specific *)
(* document admits, the general one admits (docs/reference-language.md,    *)
(* "Subsumption").                                                         *)
(***************************************************************************)
YesIsBelow ==
  Done /\ ctl.out = "yes" /\ ~overlooked => Holdings[sdoc] \subseteq Holdings[gdoc]

(***************************************************************************)
(* "does_not_subsume stands only on a value the specific side admits and   *)
(* the general side refuses" (docs/reference-language.md, "A no names a    *)
(* failing case"), but where a map counts as concrete that may lack a key  *)
(* or have others.                                                         *)
(***************************************************************************)
NoHasWitness ==
  Done /\ ctl.out = "no" /\ ~overlooked /\ sdoc \in Sound => ~(Holdings[sdoc] \subseteq Holdings[gdoc])

(***************************************************************************)
(* The same of every no: refuted on maps that count as concrete.           *)
(***************************************************************************)
NoNamesAValue == Done /\ ctl.out = "no" => ~(Holdings[sdoc] \subseteq Holdings[gdoc])

(***************************************************************************)
(* "A yes that assumed a pair still running" does not settle "before that  *)
(* pair does" (subsume.ts, assume): what is settled is right already.      *)
(***************************************************************************)
SettledIsRight ==
  \A pair \in DOMAIN settled : settled[pair] = Greatest[<<gdoc, sdoc>>][pair]

(***************************************************************************)
(* The walk ends, on recursions with nothing to unfold too.                *)
(***************************************************************************)
WalkEnds == <>Done
=============================================================================
