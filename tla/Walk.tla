-------------------------------- MODULE Walk --------------------------------
(***************************************************************************)
(* The subsumption query: is every instance of one evaluated document an   *)
(* instance of another (subsume.ts).  The walk descends both documents     *)
(* together, unfolds recursions against their own documents, and assumes   *)
(* of a pair of bags it is comparing already that it subsumes.             *)
(*                                                                         *)
(* A leaf - a kind, a scalar or a residual - is a name.  How two of them   *)
(* compare is module Leaf's subject and a constant here.  The profiles'    *)
(* defaults and marks are left out: what is modelled is the profile        *)
(* "values".                                                               *)
(***************************************************************************)
EXTENDS Naturals, Sequences

CONSTANTS
  Docs,       \* the documents: declared name |-> form
  Form,       \* document |-> the forms in it
  Atom,       \* the leaves
  Concrete,   \* those that are scalars
  Above,      \* <<g, s>>: leaf g subsumes leaf s
  Unclear,    \* <<g, s>>: no rule decides, and no failing case is found
  Domainless  \* the residuals a container may pass, as a length is

(***************************************************************************)
(* Forms.  A bag is a map or a list, whose positions are keys.             *)
(***************************************************************************)
Any == [is |-> "any"]
Nil == [is |-> "nil"]
Leaf(a) == [is |-> "leaf", leaf |-> a]
Alts(at) == [is |-> "alts", at |-> at]
Rec(name) == [is |-> "rec", to |-> name]
Bag(list, at, optional, closed, spread) ==
  [is |-> "bag", list |-> list, at |-> at, optional |-> optional, closed |-> closed,
   spread |-> spread]
NoSpread == [is |-> "none"]

KeysOf(f) == DOMAIN f.at

\* A document holds what it refers to, and the forms its own are made of.
FormOf(f, forms, names) ==
  \/ f \in {Any, Nil}
  \/ f.is = "leaf" /\ f.leaf \in Atom
  \/ f.is = "rec" /\ f.to \in names
  \/ f.is \in {"alts", "bag"} /\ (\A k \in KeysOf(f) : f.at[k] \in forms)
     /\ (f.is = "bag" => f.spread \in forms \union {NoSpread})

ASSUME WalkAssumption ==
  \A d \in Docs : /\ "v" \in DOMAIN d
                  /\ \A n \in DOMAIN d : d[n] \in Form[d]
                  /\ \A f \in Form[d] : FormOf(f, Form[d], DOMAIN d)

AnyForm == {Any} \union UNION {Form[d] : d \in Docs}

HoldsRec[f \in AnyForm] ==
  \/ f.is = "rec"
  \/ f.is \in {"alts", "bag"} /\ \E k \in KeysOf(f) : HoldsRec[f.at[k]]
  \/ f.is = "bag" /\ f.spread # NoSpread /\ HoldsRec[f.spread]

ConcreteForm[f \in AnyForm] ==
  \/ f.is = "leaf" /\ f.leaf \in Concrete
  \/ f.is = "bag" /\ \A k \in KeysOf(f) : ConcreteForm[f.at[k]]
IsConcrete(f) == ConcreteForm[f]

\* What is concrete by that rule, and yet admits more than one value: a key
\* may be left out, or a template admits others.
Loose[f \in AnyForm] ==
  f.is = "bag" /\ (f.optional # {} \/ f.spread # NoSpread \/ \E k \in KeysOf(f) : Loose[f.at[k]])

\* Values of one hash form are one value, unless a recursion in them names
\* what another document may define differently.
Identical(f, h) == f = h /\ ~HoldsRec[f]

\* A node is a form and where it stands: a position is one node's own.
Node(f, pos) == [form |-> f, pos |-> pos]
Child(n, k) == Node(n.form.at[k], Append(n.pos, k))
SpreadOf(n) == Node(n.form.spread, Append(n.pos, "&"))
Target(doc, n) == IF n.form.is = "rec" THEN Node(doc[n.form.to], <<n.form.to>>) ELSE n
TopLike == Node(Any, <<>>)
Root(doc) == Node(doc["v"], <<"v">>)
Asked(gd, sd) == <<Root(gd), Root(sd)>>

VARIABLES
  gdoc, sdoc,   \* the general and the specific document
  ctl,          \* the comparison being started, or the answer being returned
  stack,        \* the calls of the walk
  frames,       \* the pairs of bags being compared, innermost last
  settled,      \* pair |-> its answer
  pending,      \* pair |-> the depth of the running pair its yes assumes
  unfolding,    \* the recursions unfolded since the walk last entered a bag
  overlooked    \* history: a shape was met that no rule of the walk looks at

vars == <<gdoc, sdoc, ctl, stack, frames, settled, pending, unfolding, overlooked>>

Tri == {"yes", "undecided", "no"}
Worse(a, b) ==
  IF "no" \in {a, b} THEN "no" ELSE IF "undecided" \in {a, b} THEN "undecided" ELSE "yes"

Call(pair) == [go |-> "call", pair |-> pair]
Return(out) == [go |-> "return", out |-> out]
Calls == ctl.go = "call"
Returns(call) == ctl.go = "return" /\ stack # <<>> /\ stack[Len(stack)].is = call

Depth == Len(frames)
Running(pair) == {d \in 1 .. Depth : frames[d].pair = pair}
Distributing == \E i \in 1 .. Len(stack) : stack[i].is \in {"every", "some"}
Peak == stack[Len(stack)]
Below(seq) == SubSeq(seq, 1, Len(seq) - 1)

\* The innermost bag under comparison depends on no less than low.
Lowered(fs, low) ==
  IF fs = <<>> THEN fs ELSE [fs EXCEPT ![Len(fs)].low = IF low < @ THEN low ELSE @]

Init ==
  /\ gdoc \in Docs /\ sdoc \in Docs
  /\ ctl = Call(Asked(gdoc, sdoc))
  /\ stack = <<>> /\ frames = <<>>
  /\ settled = <<>> /\ pending = <<>> /\ unfolding = {}
  /\ overlooked = FALSE

(***************************************************************************)
(* The answers given outright.  Only a recursion met again with no bag in  *)
(* between gets here unresolved: it is compared as residue.                *)
(***************************************************************************)
\* MUTANT of LeafVerdict: no residual takes a container.
LeafVerdictDomained(g, s) ==
  IF s.is # "leaf" THEN "no"
  ELSE IF <<g.leaf, s.leaf>> \in Above THEN "yes"
  ELSE IF <<g.leaf, s.leaf>> \in Unclear THEN "undecided" ELSE "no"

\* What holds no container refutes one, and a residual without a domain
\* leaves it open.
LeafVerdict(g, s) ==
  IF s.is # "leaf" THEN IF g.leaf \in Domainless THEN "undecided" ELSE "no"
  ELSE IF <<g.leaf, s.leaf>> \in Above THEN "yes"
  ELSE IF <<g.leaf, s.leaf>> \in Unclear THEN "undecided" ELSE "no"

Recursive(g, s) == /\ g.is # "any" /\ "nil" \notin {g.is, s.is}
                   /\ "rec" \in {g.is, s.is}
Unfolds(pair) == Recursive(pair[1].form, pair[2].form) /\ pair \notin unfolding

Outright(g, s) ==
  CASE g.is = "any" -> "yes"
    [] g.is # "any" /\ s.is = "nil" -> "yes"
    [] g.is = "nil" /\ s.is # "nil" -> "no"
    [] s.is = "alts" /\ g.is \notin {"any", "nil"} -> IF Identical(g, s) THEN "yes" ELSE "walk"
    [] g.is = "alts" /\ s.is \notin {"nil", "alts"} -> "walk"
    [] g.is = "leaf" /\ s.is \notin {"nil", "alts"} -> LeafVerdict(g, s)
    [] g.is = "bag" /\ s.is \notin {"nil", "alts"} ->
         IF s.is = "bag" /\ s.list = g.list THEN "walk" ELSE "no"
    [] g.is = "rec" /\ s.is \notin {"nil", "alts"} -> IF g = s THEN "yes" ELSE "undecided"

Answer ==
  /\ Calls /\ ~Unfolds(ctl.pair)
  /\ LET s   == ctl.pair[2].form
         out == Outright(ctl.pair[1].form, s)
     IN  /\ out # "walk"
         /\ ctl' = Return(out)
         /\ overlooked' = (overlooked \/ (out = "no" /\ s.is = "rec"))
  /\ UNCHANGED <<gdoc, sdoc, stack, frames, settled, pending, unfolding>>

(***************************************************************************)
(* subsumeRecursion: the definition a recursion names, in its own document *)
(***************************************************************************)
Unfolded(gd, sd, pair) == <<Target(gd, pair[1]), Target(sd, pair[2])>>

Unfold ==
  /\ Calls /\ Unfolds(ctl.pair)
  /\ unfolding' = unfolding \union {ctl.pair}
  /\ stack' = Append(stack, [is |-> "unfold", pair |-> ctl.pair])
  /\ ctl' = Call(Unfolded(gdoc, sdoc, ctl.pair))
  /\ UNCHANGED <<gdoc, sdoc, frames, settled, pending, overlooked>>

Folded ==
  /\ Returns("unfold")
  /\ unfolding' = unfolding \ {Peak.pair}
  /\ stack' = Below(stack)
  /\ UNCHANGED <<gdoc, sdoc, ctl, frames, settled, pending, overlooked>>

(***************************************************************************)
(* Alternatives.  Every specific one has to be admitted, a concrete one    *)
(* that is not is a counterexample; one general one has to admit.          *)
(***************************************************************************)
Walks == Calls /\ ~Unfolds(ctl.pair) /\ Outright(ctl.pair[1].form, ctl.pair[2].form) = "walk"

Every(pair, k) == <<pair[1], Child(pair[2], k)>>
Some(pair, k) == <<Child(pair[1], k), pair[2]>>

DistributeEvery ==
  /\ Walks /\ ctl.pair[2].form.is = "alts"
  /\ LET keys == KeysOf(ctl.pair[2].form)
     IN  \E k \in keys :
           /\ stack' = Append(stack, [is |-> "every", pair |-> ctl.pair, now |-> k,
                                      todo |-> keys \ {k}, out |-> "yes"])
           /\ ctl' = Call(Every(ctl.pair, k))
  /\ UNCHANGED <<gdoc, sdoc, frames, settled, pending, unfolding, overlooked>>

DistributeSome ==
  /\ Walks /\ ctl.pair[2].form.is # "alts" /\ ctl.pair[1].form.is = "alts"
  /\ LET keys == KeysOf(ctl.pair[1].form)
     IN  \E k \in keys :
           /\ stack' = Append(stack, [is |-> "some", pair |-> ctl.pair, now |-> k,
                                      todo |-> keys \ {k}])
           /\ ctl' = Call(Some(ctl.pair, k))
  /\ UNCHANGED <<gdoc, sdoc, frames, settled, pending, unfolding, overlooked>>

EveryNext ==
  /\ Returns("every")
  /\ LET out     == IF ctl.out = "yes" THEN Peak.out ELSE "undecided"
         last    == Peak.pair[2].form.at[Peak.now]
         refuted == ctl.out # "yes" /\ IsConcrete(last)
     IN  /\ IF refuted
              THEN stack' = Below(stack) /\ ctl' = Return("no")
              ELSE IF Peak.todo = {}
              THEN stack' = Below(stack) /\ ctl' = Return(out)
              ELSE \E k \in Peak.todo :
                     /\ stack' = Append(Below(stack),
                                        [Peak EXCEPT !.now = k, !.todo = @ \ {k}, !.out = out])
                     /\ ctl' = Call(Every(Peak.pair, k))
         /\ overlooked' = (overlooked \/ (refuted /\ (ctl.out = "undecided" \/ Loose[last])))
  /\ UNCHANGED <<gdoc, sdoc, frames, settled, pending, unfolding>>

SomeNext ==
  /\ Returns("some")
  /\ IF ctl.out = "yes"
       THEN stack' = Below(stack) /\ ctl' = ctl
       ELSE IF Peak.todo = {}
       THEN /\ stack' = Below(stack)
            /\ ctl' = Return(IF IsConcrete(Peak.pair[2].form) THEN "no" ELSE "undecided")
       ELSE \E k \in Peak.todo :
              /\ stack' = Append(Below(stack), [Peak EXCEPT !.now = k, !.todo = @ \ {k}])
              /\ ctl' = Call(Some(Peak.pair, k))
  /\ LET s == Peak.pair[2].form
         refuted == ctl.out # "yes" /\ Peak.todo = {} /\ IsConcrete(s)
         open    == ctl.out = "undecided" /\ IsConcrete(s)
     IN  overlooked' = (overlooked \/ open \/ (refuted /\ Loose[s]))
  /\ UNCHANGED <<gdoc, sdoc, frames, settled, pending, unfolding>>

(***************************************************************************)
(* subsumeBag: what the key sets and the seals decide, and the pairs of    *)
(* members that decide the rest.                                           *)
(***************************************************************************)
Required(f) == KeysOf(f) \ f.optional

BagFault(g, s) ==
  \/ ~(Required(g) \subseteq Required(s))
  \/ g.closed /\ ~(s.closed /\ KeysOf(s) \subseteq KeysOf(g))

Compared(g, s) ==
  {k \in KeysOf(g.form) \intersect KeysOf(s.form) :
     k \in Required(g.form) => k \in Required(s.form)}

\* MUTANT of Governed: what the specific side leaves open is not governed.
GovernedDeclared(g, s) ==
  IF g.form.spread = NoSpread THEN {}
  ELSE {<<SpreadOf(g), Child(s, k)>> : k \in KeysOf(s.form) \ KeysOf(g.form)}

\* The general template governs the members only the specific side
\* declares, and what the specific side leaves open.
Governed(g, s) ==
  IF g.form.spread = NoSpread THEN {}
  ELSE {<<SpreadOf(g), Child(s, k)>> : k \in KeysOf(s.form) \ KeysOf(g.form)}
         \union (IF s.form.closed /\ s.form.spread = NoSpread THEN {}
                 ELSE {<<SpreadOf(g), IF s.form.spread = NoSpread THEN TopLike ELSE SpreadOf(s)>>})

Tasks(g, s) == {<<Child(g, k), Child(s, k)>> : k \in Compared(g, s)} \union Governed(g, s)

(***************************************************************************)
(* Shapes the rules do not look at: an optional key only the general side  *)
(* declares, where the specific side leaves the key open; a sealed list    *)
(* with a template, which admits longer lists; a key the specific side     *)
(* forbids by nil, which a sealed general side need not declare.           *)
(***************************************************************************)
Overlooked(g, s) ==
  \/ (g.optional \ KeysOf(s)) # {} /\ (~s.closed \/ s.spread # NoSpread)
  \/ \E b \in {g, s} : b.list /\ b.closed /\ b.spread # NoSpread
  \/ g.closed /\ \E k \in KeysOf(s) \ KeysOf(g) : s.at[k] = Nil

(***************************************************************************)
(* assume and settle: a pair of bags settled before answers at once, one   *)
(* that runs or is pending is assumed to subsume, and what assumed it      *)
(* depends on the depth it was entered at.                                 *)
(***************************************************************************)
Assumed(pair) ==
  IF Running(pair) # {} THEN Running(pair)
  ELSE IF pair \in DOMAIN pending THEN {pending[pair]} ELSE {}

BagCall == Walks /\ ctl.pair[1].form.is = "bag" /\ ctl.pair[2].form.is = "bag"

Recall ==
  /\ BagCall /\ ctl.pair \in DOMAIN settled
  /\ ctl' = Return(settled[ctl.pair])
  /\ UNCHANGED <<gdoc, sdoc, stack, frames, settled, pending, unfolding, overlooked>>

\* MUTANT of Assume: a pair met again is left undecided.
AssumeNot ==
  /\ BagCall /\ ctl.pair \notin DOMAIN settled
  /\ \E low \in Assumed(ctl.pair) : frames' = Lowered(frames, low)
  /\ ctl' = Return("undecided")
  /\ UNCHANGED <<gdoc, sdoc, stack, settled, pending, unfolding, overlooked>>

Assume ==
  /\ BagCall /\ ctl.pair \notin DOMAIN settled
  /\ \E low \in Assumed(ctl.pair) : frames' = Lowered(frames, low)
  /\ ctl' = Return("yes")
  /\ UNCHANGED <<gdoc, sdoc, stack, settled, pending, unfolding, overlooked>>

Enter ==
  /\ BagCall /\ ctl.pair \notin DOMAIN settled /\ Assumed(ctl.pair) = {}
  /\ LET g == ctl.pair[1]
         s == ctl.pair[2]
     IN  /\ stack' = Append(stack,
              [is |-> "bag", pair |-> ctl.pair, now |-> ctl.pair, todo |-> Tasks(g, s),
               out |-> IF BagFault(g.form, s.form) THEN "no" ELSE "yes",
               depth |-> Depth + 1, unfolding |-> unfolding])
         /\ overlooked' = (overlooked \/ Overlooked(g.form, s.form))
  /\ frames' = Append(frames, [pair |-> ctl.pair, low |-> Depth + 1, held |-> {}])
  /\ unfolding' = {}
  /\ ctl' = Return("yes")
  /\ UNCHANGED <<gdoc, sdoc, settled, pending>>

\* MUTANT of Member: the member compared is not struck off.
MemberAgain ==
  /\ Returns("bag")
  /\ \E task \in Peak.todo :
       /\ stack' = Append(Below(stack), [Peak EXCEPT !.now = task, !.out = Worse(@, ctl.out)])
       /\ ctl' = Call(task)
  /\ UNCHANGED <<gdoc, sdoc, frames, settled, pending, unfolding, overlooked>>

\* The members come in the order they are written in, which is any.
Member ==
  /\ Returns("bag")
  /\ \E task \in Peak.todo :
       /\ stack' = Append(Below(stack), [Peak EXCEPT !.now = task, !.todo = @ \ {task},
                                                     !.out = Worse(@, ctl.out)])
       /\ ctl' = Call(task)
  /\ UNCHANGED <<gdoc, sdoc, frames, settled, pending, unfolding, overlooked>>

\* MUTANT of Without: nothing is taken off.
WithoutNone(f, keys) == f

Without(f, keys) == [k \in DOMAIN f \ keys |-> f[k]]
With(f, keys, v) == [k \in DOMAIN f \union keys |-> IF k \in keys THEN v ELSE f[k]]

\* A yes that assumed a pair still running waits for it.
Waits(low, out) == ~Distributing /\ out = "yes" /\ low < Depth

\* The enclosing bag takes over what waits.
Holding(fs, pairs) == [fs EXCEPT ![Len(fs)].held = @ \union pairs]

Settle ==
  /\ Returns("bag") /\ Peak.todo = {}
  /\ LET out   == Worse(Peak.out, ctl.out)
         frame == frames[Depth]
         rest  == Lowered(Below(frames), frame.low)
     IN  /\ ctl' = Return(out)
         /\ IF Waits(frame.low, out)
              THEN /\ pending' = With(pending, {frame.pair}, frame.low)
                   /\ settled' = settled
                   /\ frames' = Holding(rest, {frame.pair} \union frame.held)
              ELSE /\ pending' = Without(pending, frame.held)
                   /\ settled' =
                        IF Distributing THEN settled
                        ELSE With(settled,
                                  {frame.pair} \union (IF out = "yes" THEN frame.held ELSE {}), out)
                   /\ frames' = rest
  /\ stack' = Below(stack)
  /\ unfolding' = Peak.unfolding
  /\ UNCHANGED <<gdoc, sdoc, overlooked>>

Done == ctl.go = "return" /\ stack = <<>>

Next ==
  \/ Answer \/ Unfold \/ Folded \/ DistributeEvery \/ DistributeSome \/ EveryNext \/ SomeNext
  \/ Recall \/ Assume \/ Enter \/ Member \/ Settle

Spec == Init /\ [][Next]_vars
LiveSpec == Spec /\ WF_vars(Next)

(***************************************************************************)
(* The rules, with nothing assumed and nothing remembered: what they ask   *)
(* of a pair, and what they make of the answers.                           *)
(***************************************************************************)
Worst(answers) ==
  IF "no" \in answers THEN "no" ELSE IF "undecided" \in answers THEN "undecided" ELSE "yes"

Ruled(gd, sd, answer, pair) ==
  LET g == pair[1]
      s == pair[2]
  IN  IF Recursive(g.form, s.form) THEN answer[Unfolded(gd, sd, pair)]
      ELSE IF Outright(g.form, s.form) # "walk" THEN Outright(g.form, s.form)
      ELSE IF s.form.is = "alts"
        THEN Worst({IF answer[Every(pair, k)] = "yes" THEN "yes"
                    ELSE IF IsConcrete(s.form.at[k]) THEN "no" ELSE "undecided" : k \in KeysOf(s.form)})
      ELSE IF g.form.is = "alts"
        THEN IF \E k \in KeysOf(g.form) : answer[Some(pair, k)] = "yes" THEN "yes"
             ELSE IF IsConcrete(s.form) THEN "no" ELSE "undecided"
      ELSE Worst({answer[task] : task \in Tasks(g, s)}
                   \union {IF BagFault(g.form, s.form) THEN "no" ELSE "yes"})

(***************************************************************************)
(* What waits is held by one of the bags being compared, which depends on  *)
(* no more than it does; what is compared has no answer yet.               *)
(***************************************************************************)
TypeOK ==
  /\ gdoc \in Docs /\ sdoc \in Docs
  /\ ctl.go \in {"call", "return"} /\ (ctl.go = "return" => ctl.out \in Tri)
  /\ \A pair \in DOMAIN settled : settled[pair] \in Tri
  /\ \A d \in 1 .. Depth :
       /\ frames[d].low \in 1 .. d
       /\ frames[d].pair \notin DOMAIN settled \union DOMAIN pending
       /\ \A e \in 1 .. d - 1 : frames[e].pair # frames[d].pair
       /\ \A e \in 1 .. d - 1 : frames[e].held \intersect frames[d].held = {}
       /\ \A pair \in frames[d].held : pair \in DOMAIN pending /\ frames[d].low <= pending[pair]
  /\ DOMAIN pending = UNION {frames[d].held : d \in 1 .. Depth}
  /\ DOMAIN settled \intersect DOMAIN pending = {}
  /\ overlooked \in BOOLEAN
=============================================================================
