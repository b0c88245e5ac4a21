----------------------------- MODULE WalkProofs -----------------------------
EXTENDS Walk, TLAPS

(***************************************************************************)
(* Sequences used as stacks.                                               *)
(***************************************************************************)
LEMMA Pushed ==
  ASSUME NEW S, NEW seq \in Seq(S), NEW x \in S
  PROVE  LET new == Append(seq, x)
         IN  /\ new \in Seq(S) /\ new # <<>>
             /\ Len(new) = Len(seq) + 1 /\ new[Len(new)] = x
             /\ \A i \in 1 .. Len(seq) : new[i] = seq[i]
OBVIOUS

LEMMA Popped ==
  ASSUME NEW S, NEW seq \in Seq(S), seq # <<>>
  PROVE  /\ Len(seq) \in Nat \ {0} /\ seq[Len(seq)] \in S
         /\ Below(seq) \in Seq(S) /\ Len(Below(seq)) = Len(seq) - 1
         /\ \A i \in 1 .. Len(seq) - 1 : Below(seq)[i] = seq[i]
<1>1. Len(seq) \in Nat \ {0} /\ seq[Len(seq)] \in S
  OBVIOUS
<1>2. Below(seq) = [i \in 1 .. Len(seq) - 1 |-> seq[i]]
  BY <1>1 DEF Below
<1>3. \A i \in 1 .. Len(seq) - 1 : seq[i] \in S
  OBVIOUS
<1> QED BY <1>1, <1>2, <1>3

LEMMA Swapped ==
  ASSUME NEW S, NEW seq \in Seq(S), seq # <<>>, NEW x \in S
  PROVE  LET new == Append(Below(seq), x)
         IN  /\ new \in Seq(S) /\ new # <<>>
             /\ Len(new) = Len(seq) /\ new[Len(new)] = x
             /\ \A i \in 1 .. Len(seq) - 1 : new[i] = seq[i]
<1>1. /\ Len(seq) \in Nat \ {0} /\ Below(seq) \in Seq(S) /\ Len(Below(seq)) = Len(seq) - 1
      /\ \A i \in 1 .. Len(seq) - 1 : Below(seq)[i] = seq[i]
  BY Popped
<1> QED BY <1>1, Pushed

(***************************************************************************)
(* The types of the walk's state.                                          *)
(***************************************************************************)
Seg == {"&"} \union (UNION {DOMAIN d : d \in Docs})
         \union (UNION {KeysOf(f) : f \in {h \in AnyForm : h.is \in {"alts", "bag"}}})

NodesOf(forms) == [form : forms, pos : Seq(Seg)]
Pairs == NodesOf(Form[gdoc]) \X NodesOf(Form[sdoc] \union {Any})

StackFrame ==
  [is : {"unfold"}, pair : Pairs]
    \union [is : {"every"}, pair : Pairs, now : Seg, todo : SUBSET Seg, out : Tri]
    \union [is : {"some"}, pair : Pairs, now : Seg, todo : SUBSET Seg]
    \union [is : {"bag"}, pair : Pairs, now : Pairs, todo : SUBSET Pairs, out : Tri,
            depth : Nat, unfolding : SUBSET Pairs]

\* What a frame of each kind is of.
Walked(pair) == Outright(pair[1].form, pair[2].form) = "walk"
FrameOK(f) ==
  /\ f.is = "unfold" => Recursive(f.pair[1].form, f.pair[2].form)
  /\ f.is = "every" => /\ Walked(f.pair) /\ f.pair[2].form.is = "alts"
                       /\ {f.now} \union f.todo \subseteq KeysOf(f.pair[2].form)
  /\ f.is = "some" => /\ Walked(f.pair) /\ f.pair[2].form.is # "alts" /\ f.pair[1].form.is = "alts"
                      /\ {f.now} \union f.todo \subseteq KeysOf(f.pair[1].form)
  /\ f.is = "bag" => /\ Walked(f.pair) /\ f.pair[1].form.is = "bag" /\ f.pair[2].form.is = "bag"
                     /\ f.todo \subseteq Tasks(f.pair[1], f.pair[2])

BagFrame == [pair : Pairs, low : Nat, held : SUBSET Pairs]

Typed ==
  /\ gdoc \in Docs /\ sdoc \in Docs
  /\ ctl \in [go : {"call"}, pair : Pairs] \union [go : {"return"}, out : Tri]
  /\ stack \in Seq(StackFrame) /\ \A i \in 1 .. Len(stack) : FrameOK(stack[i])
  /\ frames \in Seq(BagFrame)
  /\ settled \in [DOMAIN settled -> Tri] /\ DOMAIN settled \subseteq Pairs
  /\ pending \in [DOMAIN pending -> Nat] /\ DOMAIN pending \subseteq Pairs
  /\ unfolding \subseteq Pairs
  /\ overlooked \in BOOLEAN

\* The pair a frame is waiting for.
Callee(f) ==
  CASE f.is = "unfold" -> Unfolded(gdoc, sdoc, f.pair)
    [] f.is = "every" -> Every(f.pair, f.now)
    [] f.is = "some" -> Some(f.pair, f.now)
    [] f.is = "bag" -> f.now

(***************************************************************************)
(* The pairs a pair asks about are pairs of the two documents.             *)
(***************************************************************************)
LEMMA FormFacts ==
  ASSUME NEW d \in Docs, NEW f \in Form[d]
  PROVE  /\ f.is \in {"any", "nil", "leaf", "rec", "alts", "bag"}
         /\ f.is = "rec" => f.to \in DOMAIN d /\ d[f.to] \in Form[d] /\ f.to \in Seg
         /\ f.is \in {"alts", "bag"} => \A k \in KeysOf(f) : f.at[k] \in Form[d] /\ k \in Seg
         /\ f.is = "bag" => f.spread \in Form[d] \union {NoSpread}
<1>1. FormOf(f, Form[d], DOMAIN d) /\ \A n \in DOMAIN d : d[n] \in Form[d]
  BY WalkAssumption
<1>2. f \in AnyForm
  BY DEF AnyForm
<1>3. f.is \in {"any", "nil", "leaf", "rec", "alts", "bag"}
  BY <1>1 DEF FormOf, Any, Nil
<1>4. f.is = "rec" => f.to \in DOMAIN d /\ d[f.to] \in Form[d] /\ f.to \in Seg
  BY <1>1 DEF FormOf, Any, Nil, Seg
<1>5. f.is \in {"alts", "bag"} => \A k \in KeysOf(f) : f.at[k] \in Form[d] /\ k \in Seg
  <2>1. SUFFICES ASSUME f.is \in {"alts", "bag"}, NEW k \in KeysOf(f)
                 PROVE  f.at[k] \in Form[d] /\ k \in Seg
    OBVIOUS
  <2>2. KeysOf(f) \in {KeysOf(h) : h \in {h \in AnyForm : h.is \in {"alts", "bag"}}}
    BY <1>2, <2>1
  <2>3. k \in Seg
    BY <2>2 DEF Seg
  <2>4. f.at[k] \in Form[d]
    <3>1. f \notin {Any, Nil} /\ f.is # "leaf" /\ f.is # "rec"
      BY <2>1 DEF Any, Nil
    <3> QED BY <1>1, <2>1, <3>1 DEF FormOf
  <2> QED BY <2>3, <2>4
<1>6. f.is = "bag" => f.spread \in Form[d] \union {NoSpread}
  BY <1>1 DEF FormOf, Any, Nil
<1> QED BY <1>3, <1>4, <1>5, <1>6

LEMMA NodeFacts ==
  ASSUME NEW d \in Docs, NEW forms, Form[d] \subseteq forms, forms \subseteq Form[d] \union {Any},
         NEW n \in NodesOf(forms)
  PROVE  /\ n.form \in forms /\ n.form.is \in {"any", "nil", "leaf", "rec", "alts", "bag"}
         /\ n.form.is \in {"alts", "bag"} =>
              \A k \in KeysOf(n.form) : k \in Seg /\ Child(n, k) \in NodesOf(forms)
         /\ n.form.is = "bag" /\ n.form.spread # NoSpread => SpreadOf(n) \in NodesOf(forms)
         /\ Target(d, n) \in NodesOf(forms)
<1>1. n.form \in forms /\ n.pos \in Seq(Seg) /\ "&" \in Seg
  BY DEF NodesOf, Seg
<1>2. n.form = Any \/ n.form \in Form[d]
  BY <1>1
<1>3. Any.is = "any"
  BY DEF Any
<1>4. n.form.is \in {"any", "nil", "leaf", "rec", "alts", "bag"}
  BY <1>2, <1>3, FormFacts
<1>5. ASSUME NEW f \in forms, NEW k \in Seg
      PROVE  Node(f, Append(n.pos, k)) \in NodesOf(forms)
  BY <1>1 DEF Node, NodesOf
<1>6. n.form.is \in {"alts", "bag"} =>
        \A k \in KeysOf(n.form) : k \in Seg /\ Child(n, k) \in NodesOf(forms)
  BY <1>2, <1>3, <1>5, FormFacts DEF Child
<1>7. n.form.is = "bag" /\ n.form.spread # NoSpread => SpreadOf(n) \in NodesOf(forms)
  BY <1>1, <1>2, <1>3, <1>5, FormFacts DEF SpreadOf
<1>8. Target(d, n) \in NodesOf(forms)
  <2>1. CASE n.form.is = "rec"
    <3>1. d[n.form.to] \in forms /\ n.form.to \in Seg
      BY <2>1, <1>2, <1>3, FormFacts
    <3> QED BY <2>1, <3>1 DEF Target, Node, NodesOf
  <2>2. CASE n.form.is # "rec"
    BY <2>2 DEF Target
  <2> QED BY <2>1, <2>2
<1> QED BY <1>1, <1>4, <1>6, <1>7, <1>8

LEMMA OutrightType ==
  ASSUME NEW g, NEW s, g.is \in {"any", "nil", "leaf", "rec", "alts", "bag"},
         s.is \in {"any", "nil", "leaf", "rec", "alts", "bag"}
  PROVE  /\ Outright(g, s) \in Tri \union {"walk"}
         /\ Outright(g, s) = "walk" =>
              \/ s.is = "alts"
              \/ g.is = "alts"
              \/ (g.is = "bag" /\ s.is = "bag")
<1>1. LeafVerdict(g, s) \in Tri
  BY DEF LeafVerdict, Tri
<1> QED BY <1>1 DEF Outright, Tri

LEMMA PairFacts ==
  ASSUME gdoc \in Docs, sdoc \in Docs, NEW pair \in Pairs
  PROVE  /\ Outright(pair[1].form, pair[2].form) \in Tri \union {"walk"}
         /\ Walked(pair) => \/ pair[2].form.is = "alts"
                            \/ pair[1].form.is = "alts"
                            \/ (pair[1].form.is = "bag" /\ pair[2].form.is = "bag")
         /\ Unfolded(gdoc, sdoc, pair) \in Pairs
         /\ pair[2].form.is = "alts" =>
              \A k \in KeysOf(pair[2].form) : k \in Seg /\ Every(pair, k) \in Pairs
         /\ pair[1].form.is = "alts" =>
              \A k \in KeysOf(pair[1].form) : k \in Seg /\ Some(pair, k) \in Pairs
         /\ pair[1].form.is = "bag" /\ pair[2].form.is = "bag" =>
              Tasks(pair[1], pair[2]) \subseteq Pairs
<1> DEFINE gs == Form[gdoc]
           ss == Form[sdoc] \union {Any}
           g == pair[1]
           s == pair[2]
<1>1. g \in NodesOf(gs) /\ s \in NodesOf(ss)
  BY DEF Pairs
<1>2. /\ g.form.is \in {"any", "nil", "leaf", "rec", "alts", "bag"}
      /\ g.form.is \in {"alts", "bag"} =>
           \A k \in KeysOf(g.form) : k \in Seg /\ Child(g, k) \in NodesOf(gs)
      /\ g.form.is = "bag" /\ g.form.spread # NoSpread => SpreadOf(g) \in NodesOf(gs)
      /\ Target(gdoc, g) \in NodesOf(gs)
  BY <1>1, NodeFacts
<1>3. /\ s.form.is \in {"any", "nil", "leaf", "rec", "alts", "bag"}
      /\ s.form.is \in {"alts", "bag"} =>
           \A k \in KeysOf(s.form) : k \in Seg /\ Child(s, k) \in NodesOf(ss)
      /\ s.form.is = "bag" /\ s.form.spread # NoSpread => SpreadOf(s) \in NodesOf(ss)
      /\ Target(sdoc, s) \in NodesOf(ss)
  BY <1>1, NodeFacts
<1>4. TopLike \in NodesOf(ss)
  BY DEF TopLike, Node, NodesOf
<1>5. ASSUME g.form.is = "bag", s.form.is = "bag"
      PROVE  Tasks(g, s) \subseteq Pairs
  <2>1. \A k \in Compared(g, s) : <<Child(g, k), Child(s, k)>> \in Pairs
    BY <1>2, <1>3, <1>5 DEF Compared, Pairs
  <2>2. Governed(g, s) \subseteq Pairs
    <3>1. CASE g.form.spread = NoSpread
      BY <3>1 DEF Governed
    <3>2. CASE g.form.spread # NoSpread
      <4>1. SpreadOf(g) \in NodesOf(gs)
        BY <1>2, <1>5, <3>2
      <4>2. \A k \in KeysOf(s.form) : <<SpreadOf(g), Child(s, k)>> \in Pairs
        BY <1>3, <1>5, <4>1 DEF Pairs
      <4>3. <<SpreadOf(g), IF s.form.spread = NoSpread THEN TopLike ELSE SpreadOf(s)>> \in Pairs
        BY <1>3, <1>4, <1>5, <4>1 DEF Pairs
      <4> HIDE DEF g, s
      <4> QED BY <3>2, <4>2, <4>3 DEF Governed
    <3> QED BY <3>1, <3>2
  <2> HIDE DEF g, s
  <2> QED BY <2>1, <2>2 DEF Tasks
<1>6. Outright(g.form, s.form) \in Tri \union {"walk"}
  BY <1>2, <1>3, OutrightType
<1>7. Walked(pair) => \/ s.form.is = "alts"
                     \/ g.form.is = "alts"
                     \/ (g.form.is = "bag" /\ s.form.is = "bag")
  <2>1. Outright(g.form, s.form) = "walk" =>
          s.form.is = "alts" \/ g.form.is = "alts" \/ (g.form.is = "bag" /\ s.form.is = "bag")
    BY <1>2, <1>3, OutrightType
  <2> QED BY <2>1 DEF Walked
<1>8. Unfolded(gdoc, sdoc, pair) \in Pairs
  BY <1>2, <1>3 DEF Unfolded, Pairs
<1>9. s.form.is = "alts" => \A k \in KeysOf(s.form) : k \in Seg /\ Every(pair, k) \in Pairs
  BY <1>1, <1>3 DEF Every, Pairs
<1>10. g.form.is = "alts" => \A k \in KeysOf(g.form) : k \in Seg /\ Some(pair, k) \in Pairs
  BY <1>1, <1>2 DEF Some, Pairs
<1> HIDE DEF g, s
<1> QED BY <1>5, <1>6, <1>7, <1>8, <1>9, <1>10 DEF g, s

(***************************************************************************)
(* What a step does to the stack: it answers, pushes a frame, gives the    *)
(* frame on top a new task, or pops it.                                    *)
(***************************************************************************)
UnfoldFrame == [is : {"unfold"}, pair : Pairs]
EveryFrame == [is : {"every"}, pair : Pairs, now : Seg, todo : SUBSET Seg, out : Tri]
SomeFrame == [is : {"some"}, pair : Pairs, now : Seg, todo : SUBSET Seg]
PairFrame ==
  [is : {"bag"}, pair : Pairs, now : Pairs, todo : SUBSET Pairs, out : Tri,
   depth : Nat, unfolding : SUBSET Pairs]

LEMMA FrameShapes ==
  ASSUME NEW f \in StackFrame
  PROVE  /\ f.is \in {"unfold", "every", "some", "bag"} /\ f.pair \in Pairs
         /\ f.is = "unfold" => f \in UnfoldFrame
         /\ f.is = "every" => f \in EveryFrame
         /\ f.is = "some" => f \in SomeFrame
         /\ f.is = "bag" => f \in PairFrame
<1>1. \/ f \in UnfoldFrame
      \/ f \in EveryFrame
      \/ f \in SomeFrame
      \/ f \in PairFrame
  BY DEF StackFrame, UnfoldFrame, EveryFrame, SomeFrame, PairFrame
<1>2. CASE f \in UnfoldFrame
  BY <1>2 DEF UnfoldFrame
<1>3. CASE f \in EveryFrame
  BY <1>3 DEF EveryFrame
<1>4. CASE f \in SomeFrame
  BY <1>4 DEF SomeFrame
<1>5. CASE f \in PairFrame
  BY <1>5 DEF PairFrame
<1> QED BY <1>1, <1>2, <1>3, <1>4, <1>5

LEMMA FrameKinds ==
  UnfoldFrame \cup EveryFrame \cup SomeFrame \cup PairFrame \subseteq StackFrame
BY DEF StackFrame, UnfoldFrame, EveryFrame, SomeFrame, PairFrame

LEMMA CalleeType ==
  ASSUME gdoc \in Docs, sdoc \in Docs, NEW f \in StackFrame, FrameOK(f)
  PROVE  Callee(f) \in Pairs
<1>1. CASE f.is = "unfold"
  BY <1>1, FrameShapes, PairFacts DEF Callee
<1>2. CASE f.is = "every"
  <2>1. f.pair \in Pairs /\ f.pair[2].form.is = "alts" /\ f.now \in KeysOf(f.pair[2].form)
    BY <1>2, FrameShapes DEF FrameOK
  <2> QED BY <1>2, <2>1, PairFacts DEF Callee
<1>3. CASE f.is = "some"
  <2>1. f.pair \in Pairs /\ f.pair[1].form.is = "alts" /\ f.now \in KeysOf(f.pair[1].form)
    BY <1>3, FrameShapes DEF FrameOK
  <2> QED BY <1>3, <2>1, PairFacts DEF Callee
<1>4. CASE f.is = "bag"
  <2>1. f \in PairFrame
    BY <1>4, FrameShapes
  <2> QED BY <1>4, <2>1 DEF Callee, PairFrame
<1> QED BY <1>1, <1>2, <1>3, <1>4, FrameShapes

Answers == Calls /\ UNCHANGED stack /\ ctl' \in [go : {"return"}, out : Tri]

Pushes(x) ==
  /\ Calls /\ x \in StackFrame /\ FrameOK(x) /\ x.pair = ctl.pair
  /\ stack' = Append(stack, x)
  /\ ctl' = IF x.is = "bag" THEN Return("yes") ELSE Call(Callee(x))
  /\ x.is = "bag" => x.now = x.pair

Swaps(x) ==
  /\ ctl.go = "return" /\ stack # <<>>
  /\ x \in StackFrame /\ FrameOK(x) /\ x.is = Peak.is /\ x.pair = Peak.pair /\ x.is # "unfold"
  /\ x.is = "bag" => x.depth = Peak.depth /\ x.unfolding = Peak.unfolding
  /\ stack' = Append(Below(stack), x) /\ ctl' = Call(Callee(x))

Pops == /\ ctl.go = "return" /\ stack # <<>>
        /\ stack' = Below(stack) /\ ctl' \in [go : {"return"}, out : Tri]

LEMMA TypedParts ==
  ASSUME Typed
  PROVE  /\ ctl.go \in {"call", "return"}
         /\ Calls => ctl.pair \in Pairs
         /\ ctl.go = "return" => ctl.out \in Tri
         /\ stack # <<>> => /\ Len(stack) \in Nat \ {0} /\ Peak \in StackFrame /\ FrameOK(Peak)
         /\ \A i \in 1 .. Len(stack) : stack[i] \in StackFrame /\ FrameOK(stack[i])
         /\ Len(stack) \in Nat /\ Depth \in Nat
BY DEF Typed, Calls, Peak, Depth

LEMMA DocsStay == Next => UNCHANGED <<gdoc, sdoc>>
BY DEF Next, Answer, Unfold, Folded, DistributeEvery, DistributeSome, EveryNext, SomeNext,
       Recall, Assume, Enter, Member, Settle

LEMMA AnswerMoves == ASSUME Typed, Answer PROVE Answers
<1>1. Calls /\ ctl.pair \in Pairs /\ gdoc \in Docs /\ sdoc \in Docs
  BY TypedParts DEF Answer, Typed
<1>2. Outright(ctl.pair[1].form, ctl.pair[2].form) \in Tri \cup {"walk"}
  BY <1>1, PairFacts
<1> QED BY <1>1, <1>2 DEF Answer, Answers, Return

LEMMA UnfoldMoves == ASSUME Typed, Unfold PROVE Pushes([is |-> "unfold", pair |-> ctl.pair])
<1> DEFINE x == [is |-> "unfold", pair |-> ctl.pair]
<1>1. Calls /\ ctl.pair \in Pairs /\ stack' = Append(stack, x)
  BY TypedParts DEF Unfold
<1>2. x \in StackFrame /\ x.is = "unfold" /\ x.pair = ctl.pair
  BY <1>1, FrameKinds DEF UnfoldFrame
<1>3. FrameOK(x)
  BY <1>2 DEF FrameOK, Unfold, Unfolds
<1>4. ctl' = Call(Callee(x))
  BY <1>2 DEF Unfold, Callee
<1> QED BY <1>1, <1>2, <1>3, <1>4 DEF Pushes

LEMMA FoldedMoves == ASSUME Typed, Folded PROVE Pops
BY DEF Folded, Pops, Returns, Typed, Calls

LEMMA EveryMoves ==
  ASSUME Typed, DistributeEvery
  PROVE  \E k \in KeysOf(ctl.pair[2].form) :
           Pushes([is |-> "every", pair |-> ctl.pair, now |-> k,
                   todo |-> KeysOf(ctl.pair[2].form) \ {k}, out |-> "yes"])
<1> DEFINE keys == KeysOf(ctl.pair[2].form)
           x(k) == [is |-> "every", pair |-> ctl.pair, now |-> k, todo |-> keys \ {k}, out |-> "yes"]
<1>1. /\ Calls /\ ctl.pair \in Pairs /\ Walked(ctl.pair) /\ ctl.pair[2].form.is = "alts"
      /\ gdoc \in Docs /\ sdoc \in Docs
  BY TypedParts DEF DistributeEvery, Walks, Walked, Typed
<1>2. PICK k \in keys : stack' = Append(stack, x(k)) /\ ctl' = Call(Every(ctl.pair, k))
  BY DEF DistributeEvery
<1>3. keys \subseteq Seg
  BY <1>1, PairFacts
<1>4. x(k) \in EveryFrame
  BY <1>1, <1>2, <1>3 DEF EveryFrame, Tri
<1>5. FrameOK(x(k))
  BY <1>1, <1>2 DEF FrameOK
<1>6. Callee(x(k)) = Every(ctl.pair, k)
  BY DEF Callee
<1>7. Pushes(x(k))
  BY <1>1, <1>2, <1>4, <1>5, <1>6, FrameKinds DEF Pushes
<1> QED BY <1>2, <1>7

LEMMA SomeMoves ==
  ASSUME Typed, DistributeSome
  PROVE  \E k \in KeysOf(ctl.pair[1].form) :
           Pushes([is |-> "some", pair |-> ctl.pair, now |-> k,
                   todo |-> KeysOf(ctl.pair[1].form) \ {k}])
<1> DEFINE keys == KeysOf(ctl.pair[1].form)
           x(k) == [is |-> "some", pair |-> ctl.pair, now |-> k, todo |-> keys \ {k}]
<1>1. /\ Calls /\ ctl.pair \in Pairs /\ Walked(ctl.pair) /\ ctl.pair[1].form.is = "alts"
      /\ ctl.pair[2].form.is # "alts" /\ gdoc \in Docs /\ sdoc \in Docs
  BY TypedParts DEF DistributeSome, Walks, Walked, Typed
<1>2. PICK k \in keys : stack' = Append(stack, x(k)) /\ ctl' = Call(Some(ctl.pair, k))
  BY DEF DistributeSome
<1>3. keys \subseteq Seg
  BY <1>1, PairFacts
<1>4. x(k) \in SomeFrame
  BY <1>1, <1>2, <1>3 DEF SomeFrame
<1>5. FrameOK(x(k))
  BY <1>1, <1>2 DEF FrameOK
<1>6. Callee(x(k)) = Some(ctl.pair, k)
  BY DEF Callee
<1>7. Pushes(x(k))
  BY <1>1, <1>2, <1>4, <1>5, <1>6, FrameKinds DEF Pushes
<1> QED BY <1>2, <1>7

EveryOut == IF ctl.out = "yes" THEN Peak.out ELSE "undecided"
EveryOn(k) == [Peak EXCEPT !.now = k, !.todo = @ \ {k}, !.out = EveryOut]

LEMMA EveryOnMoves ==
  ASSUME Typed, Returns("every"), NEW k \in Peak.todo,
         stack' = Append(Below(stack), EveryOn(k)), ctl' = Call(Every(Peak.pair, k))
  PROVE  Swaps(EveryOn(k))
<1>1. /\ ctl.go = "return" /\ ctl.out \in Tri /\ stack # <<>> /\ Peak.is = "every"
      /\ Peak \in EveryFrame /\ FrameOK(Peak)
  BY TypedParts, FrameShapes DEF Returns, Peak
<1>2. EveryOut \in Tri /\ k \in Seg
  BY <1>1 DEF EveryOut, EveryFrame, Tri
<1>3. EveryOn(k) = [is |-> "every", pair |-> Peak.pair, now |-> k, todo |-> Peak.todo \ {k},
                    out |-> EveryOut]
  <2>1. DOMAIN Peak = {"is", "pair", "now", "todo", "out"}
    BY <1>1 DEF EveryFrame
  <2>2. EveryOn(k) = [j \in DOMAIN Peak |-> IF j = "now" THEN k
                       ELSE IF j = "todo" THEN Peak.todo \ {k}
                       ELSE IF j = "out" THEN EveryOut ELSE Peak[j]]
    BY <2>1 DEF EveryOn
  <2> QED BY <1>1, <2>1, <2>2
<1>4. EveryOn(k) \in EveryFrame
  BY <1>1, <1>2, <1>3 DEF EveryFrame
<1>5. FrameOK(EveryOn(k))
  BY <1>1, <1>3 DEF FrameOK
<1>6. Callee(EveryOn(k)) = Every(Peak.pair, k)
  BY <1>3 DEF Callee
<1> QED BY <1>1, <1>3, <1>4, <1>5, <1>6, FrameKinds DEF Swaps

LEMMA EveryNextMoves ==
  ASSUME Typed, EveryNext
  PROVE  \/ Pops
         \/ \E k \in Peak.todo : Swaps(EveryOn(k))
<1>1. /\ ctl.go = "return" /\ ctl.out \in Tri /\ stack # <<>> /\ Peak \in EveryFrame
      /\ Returns("every")
  BY TypedParts, FrameShapes DEF EveryNext, Returns, Peak
<1>2. EveryOut \in Tri
  BY <1>1 DEF EveryOut, EveryFrame, Tri
<1>3. CASE ctl.out # "yes" /\ IsConcrete(Peak.pair[2].form.at[Peak.now])
  BY <1>1, <1>3 DEF EveryNext, Pops, Return, Tri
<1>4. CASE ~(ctl.out # "yes" /\ IsConcrete(Peak.pair[2].form.at[Peak.now])) /\ Peak.todo = {}
  BY <1>1, <1>2, <1>4 DEF EveryNext, EveryOut, Pops, Return
<1>5. CASE ~(ctl.out # "yes" /\ IsConcrete(Peak.pair[2].form.at[Peak.now])) /\ Peak.todo # {}
  <2>1. PICK k \in Peak.todo : /\ stack' = Append(Below(stack), EveryOn(k))
                               /\ ctl' = Call(Every(Peak.pair, k))
    BY <1>5 DEF EveryNext, EveryOn, EveryOut
  <2> QED BY <1>1, <2>1, EveryOnMoves
<1> QED BY <1>3, <1>4, <1>5

SomeOn(k) == [Peak EXCEPT !.now = k, !.todo = @ \ {k}]

LEMMA SomeOnMoves ==
  ASSUME Typed, Returns("some"), NEW k \in Peak.todo,
         stack' = Append(Below(stack), SomeOn(k)), ctl' = Call(Some(Peak.pair, k))
  PROVE  Swaps(SomeOn(k))
<1>1. /\ ctl.go = "return" /\ stack # <<>> /\ Peak.is = "some"
      /\ Peak \in SomeFrame /\ FrameOK(Peak)
  BY TypedParts, FrameShapes DEF Returns, Peak
<1>2. SomeOn(k) = [is |-> "some", pair |-> Peak.pair, now |-> k, todo |-> Peak.todo \ {k}]
  <2>1. DOMAIN Peak = {"is", "pair", "now", "todo"}
    BY <1>1 DEF SomeFrame
  <2>2. SomeOn(k) = [j \in DOMAIN Peak |-> IF j = "now" THEN k
                       ELSE IF j = "todo" THEN Peak.todo \ {k} ELSE Peak[j]]
    BY <2>1 DEF SomeOn
  <2> QED BY <1>1, <2>1, <2>2
<1>3. SomeOn(k) \in SomeFrame
  BY <1>1, <1>2 DEF SomeFrame
<1>4. FrameOK(SomeOn(k))
  BY <1>1, <1>2 DEF FrameOK
<1>5. Callee(SomeOn(k)) = Some(Peak.pair, k)
  BY <1>2 DEF Callee
<1> QED BY <1>1, <1>2, <1>3, <1>4, <1>5, FrameKinds DEF Swaps

LEMMA SomeNextMoves ==
  ASSUME Typed, SomeNext
  PROVE  \/ Pops
         \/ \E k \in Peak.todo : Swaps(SomeOn(k))
<1>1. /\ ctl.go = "return" /\ ctl \in [go : {"return"}, out : Tri] /\ stack # <<>>
      /\ Returns("some")
  BY TypedParts DEF SomeNext, Returns, Typed
<1>2. CASE ctl.out = "yes"
  BY <1>1, <1>2 DEF SomeNext, Pops
<1>3. CASE ctl.out # "yes" /\ Peak.todo = {}
  BY <1>1, <1>3 DEF SomeNext, Pops, Return, Tri
<1>4. CASE ctl.out # "yes" /\ Peak.todo # {}
  <2>1. PICK k \in Peak.todo : /\ stack' = Append(Below(stack), SomeOn(k))
                               /\ ctl' = Call(Some(Peak.pair, k))
    BY <1>4 DEF SomeNext, SomeOn
  <2> QED BY <1>1, <2>1, SomeOnMoves
<1> QED BY <1>2, <1>3, <1>4

EnterFrame ==
  [is |-> "bag", pair |-> ctl.pair, now |-> ctl.pair, todo |-> Tasks(ctl.pair[1], ctl.pair[2]),
   out |-> IF BagFault(ctl.pair[1].form, ctl.pair[2].form) THEN "no" ELSE "yes",
   depth |-> Depth + 1, unfolding |-> unfolding]

LEMMA EnterMoves == ASSUME Typed, Enter PROVE Pushes(EnterFrame)
<1>1. /\ Calls /\ ctl.pair \in Pairs /\ Walked(ctl.pair) /\ ctl.pair[1].form.is = "bag"
      /\ ctl.pair[2].form.is = "bag" /\ gdoc \in Docs /\ sdoc \in Docs
      /\ Depth \in Nat /\ unfolding \subseteq Pairs
  BY TypedParts DEF Enter, BagCall, Walks, Walked, Typed
<1>2. Tasks(ctl.pair[1], ctl.pair[2]) \subseteq Pairs
  BY <1>1, PairFacts
<1>3. EnterFrame \in PairFrame
  BY <1>1, <1>2 DEF EnterFrame, PairFrame, Tri
<1>4. FrameOK(EnterFrame)
  BY <1>1 DEF FrameOK, EnterFrame
<1>5. stack' = Append(stack, EnterFrame) /\ ctl' = Return("yes")
  BY DEF Enter, EnterFrame
<1>6. EnterFrame.is = "bag" /\ EnterFrame.pair = ctl.pair /\ EnterFrame.now = ctl.pair
  BY DEF EnterFrame
<1> QED BY <1>1, <1>3, <1>4, <1>5, <1>6, FrameKinds DEF Pushes

MemberOn(task) ==
  [Peak EXCEPT !.now = task, !.todo = @ \ {task}, !.out = Worse(@, ctl.out)]

LEMMA WorseType ==
  ASSUME NEW a \in Tri, NEW b \in Tri
  PROVE  /\ Worse(a, b) \in Tri
         /\ Worse(a, b) = "yes" <=> a = "yes" /\ b = "yes"
BY DEF Worse, Tri

LEMMA MemberFrame ==
  ASSUME Typed, Returns("bag"), NEW task \in Peak.todo
  PROVE  MemberOn(task) = [is |-> "bag", pair |-> Peak.pair, now |-> task,
           todo |-> Peak.todo \ {task}, out |-> Worse(Peak.out, ctl.out), depth |-> Peak.depth,
           unfolding |-> Peak.unfolding]
<1>1. Peak.is = "bag" /\ Peak \in PairFrame
  BY TypedParts, FrameShapes DEF Returns, Peak
<1>2. DOMAIN Peak = {"is", "pair", "now", "todo", "out", "depth", "unfolding"}
  BY <1>1 DEF PairFrame
<1>3. MemberOn(task) = [j \in DOMAIN Peak |-> IF j = "now" THEN task
                       ELSE IF j = "todo" THEN Peak.todo \ {task}
                       ELSE IF j = "out" THEN Worse(Peak.out, ctl.out) ELSE Peak[j]]
  BY <1>2 DEF MemberOn
<1> QED BY <1>1, <1>2, <1>3

LEMMA MemberMoves ==
  ASSUME Typed, Member
  PROVE  \E task \in Peak.todo : Swaps(MemberOn(task))
<1>1. PICK task \in Peak.todo : stack' = Append(Below(stack), MemberOn(task)) /\ ctl' = Call(task)
  BY DEF Member, MemberOn
<1>2. /\ ctl.go = "return" /\ ctl.out \in Tri /\ stack # <<>> /\ Peak.is = "bag"
      /\ Peak \in PairFrame /\ FrameOK(Peak) /\ Returns("bag")
  BY TypedParts, FrameShapes DEF Returns, Peak, Member
<1>3. Worse(Peak.out, ctl.out) \in Tri
  BY <1>2, WorseType DEF PairFrame
<1> DEFINE x == [is |-> "bag", pair |-> Peak.pair, now |-> task, todo |-> Peak.todo \ {task},
                 out |-> Worse(Peak.out, ctl.out), depth |-> Peak.depth,
                 unfolding |-> Peak.unfolding]
<1>4. MemberOn(task) = x
  BY <1>2, MemberFrame
<1>5. x \in PairFrame
  BY <1>2, <1>3 DEF PairFrame
<1>6. FrameOK(x)
  BY <1>2 DEF FrameOK
<1>7. Callee(x) = task
  BY DEF Callee
<1>8. Swaps(x)
  BY <1>1, <1>2, <1>4, <1>5, <1>6, <1>7, FrameKinds DEF Swaps
<1> QED BY <1>4, <1>8

(***************************************************************************)
(* The frames of the stack that compare bags are those of the pairs being  *)
(* compared, in their order.                                               *)
(***************************************************************************)
BagAt(i) == stack[i].is = "bag"
Counted ==
  /\ \A i \in 1 .. Len(stack) : BagAt(i) =>
       /\ stack[i].depth \in 1 .. Depth
       /\ frames[stack[i].depth].pair = stack[i].pair
  /\ \A i, j \in 1 .. Len(stack) : BagAt(i) /\ BagAt(j) /\ i < j => stack[i].depth < stack[j].depth
  /\ \A d \in 1 .. Depth : \E i \in 1 .. Len(stack) : BagAt(i) /\ stack[i].depth = d

Holds ==
  /\ \A d \in 1 .. Depth :
       /\ frames[d].low \in 1 .. d
       /\ frames[d].pair \notin DOMAIN settled \union DOMAIN pending
       /\ \A e \in 1 .. d - 1 : frames[e].pair # frames[d].pair
       /\ \A e \in 1 .. d - 1 : frames[e].held \intersect frames[d].held = {}
       /\ \A pair \in frames[d].held : pair \in DOMAIN pending /\ frames[d].low <= pending[pair]
  /\ DOMAIN pending = UNION {frames[d].held : d \in 1 .. Depth}
  /\ DOMAIN settled \intersect DOMAIN pending = {}

TypeInv == Typed /\ Counted /\ Holds

\* The bag frame on top is the innermost pair's.
LEMMA PeakIsInnermost ==
  ASSUME Typed, Counted, Returns("bag")
  PROVE  /\ Depth \in Nat \ {0} /\ Peak.depth = Depth /\ frames[Depth].pair = Peak.pair
         /\ frames[Depth] \in BagFrame /\ frames # <<>>
         /\ Peak \in PairFrame /\ Len(stack) \in Nat \ {0}
<1>1. /\ stack # <<>> /\ Peak.is = "bag" /\ Peak \in PairFrame /\ Len(stack) \in Nat \ {0}
      /\ Peak = stack[Len(stack)] /\ Depth = Len(frames) /\ Depth \in Nat
  BY TypedParts, FrameShapes DEF Returns, Peak, Depth
<1> DEFINE n == Len(stack)
<1>2. BagAt(n) /\ n \in 1 .. Len(stack)
  BY <1>1 DEF BagAt
<1>3. stack[n].depth \in 1 .. Depth /\ frames[stack[n].depth].pair = stack[n].pair
  BY <1>2 DEF Counted
<1>4. Depth \in 1 .. Depth
  BY <1>1, <1>3
<1>5. PICK i \in 1 .. Len(stack) : BagAt(i) /\ stack[i].depth = Depth
  BY <1>4 DEF Counted
<1>6. i = n
  <2>1. i < n => stack[i].depth < stack[n].depth
    BY <1>2, <1>5 DEF Counted
  <2> QED BY <1>1, <1>3, <1>5, <2>1
<1>7. frames[Depth] \in BagFrame /\ frames # <<>>
  BY <1>1, <1>4 DEF Typed, Depth
<1> QED BY <1>1, <1>3, <1>4, <1>5, <1>6, <1>7

LEMMA LoweredFacts ==
  ASSUME NEW fs \in Seq(BagFrame), NEW low \in Nat
  PROVE  LET new == Lowered(fs, low)
             n   == Len(fs)
         IN  /\ new \in Seq(BagFrame) /\ Len(new) = n
             /\ \A i \in 1 .. n : /\ new[i].pair = fs[i].pair /\ new[i].held = fs[i].held
                                  /\ new[i].low <= fs[i].low
                                  /\ new[i].low \in {low, fs[i].low}
                                  /\ i < n => new[i] = fs[i]
             /\ fs # <<>> => new[n].low <= low
<1>1. CASE fs = <<>>
  BY <1>1 DEF Lowered
<1>2. CASE fs # <<>>
  <2> DEFINE n == Len(fs)
             top == fs[n]
             less == IF low < top.low THEN low ELSE top.low
             x == [pair |-> top.pair, low |-> less, held |-> top.held]
             new == Lowered(fs, low)
  <2>1. n \in Nat \ {0} /\ top \in BagFrame /\ n \in 1 .. n /\ DOMAIN fs = 1 .. n
    BY <1>2
  <2>2. top = [pair |-> top.pair, low |-> top.low, held |-> top.held] /\ top.low \in Nat
    BY <2>1 DEF BagFrame
  <2>3. [top EXCEPT !.low = less] = x
    <3>1. DOMAIN top = {"pair", "low", "held"}
      BY <2>1 DEF BagFrame
    <3>2. [top EXCEPT !.low = less] = [j \in DOMAIN top |-> IF j = "low" THEN less ELSE top[j]]
      BY <3>1
    <3> QED BY <3>1, <3>2
  <2>4. x \in BagFrame /\ less \in Nat /\ less <= top.low /\ less <= low /\ less \in {low, top.low}
    BY <2>1, <2>2 DEF BagFrame
  <2>5. new = [fs EXCEPT ![n] = x]
    BY <1>2, <2>3 DEF Lowered
  <2>8. x.pair = top.pair /\ x.held = top.held /\ x.low = less
    OBVIOUS
  <2> HIDE DEF x, new, less
  <2>6. new \in Seq(BagFrame) /\ Len(new) = n /\ new[n] = x
    BY <2>1, <2>4, <2>5
  <2>7. \A i \in 1 .. n : i # n => new[i] = fs[i] /\ fs[i].low \in Nat
    <3>1. \A i \in 1 .. n : fs[i] \in BagFrame
      OBVIOUS
    <3>2. \A i \in 1 .. n : fs[i].low \in Nat
      BY <3>1 DEF BagFrame
    <3> QED BY <2>1, <2>5, <3>2
  <2>9. \A i \in 1 .. n : /\ new[i].pair = fs[i].pair /\ new[i].held = fs[i].held
                          /\ new[i].low <= fs[i].low
                          /\ new[i].low \in {low, fs[i].low}
                          /\ i < n => new[i] = fs[i]
    <3>1. TAKE i \in 1 .. n
    <3>2. CASE i = n
      BY <3>2, <2>1, <2>4, <2>6, <2>8
    <3>3. CASE i # n
      <4>1. new[i] = fs[i] /\ fs[i].low \in Nat
        BY <3>3, <2>7
      <4>2. fs[i].low <= fs[i].low
        BY <4>1
      <4> QED BY <4>1, <4>2
    <3> QED BY <3>2, <3>3
  <2>10. new[n].low <= low
    BY <2>4, <2>6, <2>8
  <2> QED BY <2>6, <2>9, <2>10 DEF new
<1> QED BY <1>1, <1>2

LEMMA RecallMoves == ASSUME Typed, Recall PROVE Answers
BY DEF Typed, Recall, Answers, Return, BagCall, Walks

LEMMA AssumeMoves == ASSUME Assume PROVE Answers
BY DEF Assume, Answers, Return, BagCall, Walks, Tri

\* What is assumed is a pair being compared, or one that waits for such.
LEMMA AssumeLowers ==
  ASSUME TypeInv, Assume
  PROVE  /\ \E low \in Nat \ {0} : frames' = Lowered(frames, low)
         /\ frames # <<>>
<1>1. PICK low \in Assumed(ctl.pair) : frames' = Lowered(frames, low)
  BY DEF Assume
<1>2. Depth \in Nat /\ Depth = Len(frames) /\ Typed /\ Holds
  BY TypedParts DEF TypeInv, Depth
<1>3. CASE Running(ctl.pair) # {}
  <2>1. low \in 1 .. Depth
    BY <1>1, <1>3 DEF Assumed, Running
  <2> QED BY <1>1, <1>2, <2>1
<1>4. CASE Running(ctl.pair) = {}
  <2>1. ctl.pair \in DOMAIN pending /\ low = pending[ctl.pair]
    BY <1>1, <1>4 DEF Assumed
  <2>2. PICK d \in 1 .. Depth : ctl.pair \in frames[d].held
    BY <1>2, <2>1 DEF Holds
  <2>3. frames[d].low \in 1 .. d /\ frames[d].low <= pending[ctl.pair]
    BY <1>2, <2>2 DEF Holds
  <2>4. pending[ctl.pair] \in Nat
    BY <1>2, <2>1 DEF Typed
  <2>5. low \in Nat \ {0}
    BY <2>1, <2>3, <2>4
  <2> QED BY <1>1, <1>2, <2>2, <2>5
<1> QED BY <1>3, <1>4

LEMMA SettleMoves == ASSUME Typed, Counted, Settle PROVE Pops
<1>1. /\ ctl.go = "return" /\ ctl.out \in Tri /\ stack # <<>> /\ Peak \in PairFrame
  BY TypedParts, PeakIsInnermost DEF Settle, Returns
<1>2. Worse(Peak.out, ctl.out) \in Tri
  BY <1>1, WorseType DEF PairFrame
<1>3. stack' = Below(stack) /\ ctl' = Return(Worse(Peak.out, ctl.out))
  BY DEF Settle
<1> QED BY <1>1, <1>2, <1>3 DEF Pops, Return

Moves ==
  \/ Answers
  \/ \E x \in StackFrame : Pushes(x) \/ Swaps(x)
  \/ Pops

LEMMA NextMoves == ASSUME TypeInv, Next PROVE Moves
<1>1. Typed /\ Counted
  BY DEF TypeInv
<1>2. \A x : Pushes(x) \/ Swaps(x) => x \in StackFrame
  BY DEF Pushes, Swaps
<1>3. CASE Answer \/ Recall \/ Assume
  BY <1>1, <1>3, AnswerMoves, RecallMoves, AssumeMoves DEF Moves
<1>4. CASE Unfold \/ Enter
  BY <1>1, <1>2, <1>4, UnfoldMoves, EnterMoves DEF Moves
<1>5. CASE DistributeEvery
  BY <1>1, <1>2, <1>5, EveryMoves DEF Moves
<1>6. CASE DistributeSome
  BY <1>1, <1>2, <1>6, SomeMoves DEF Moves
<1>7. CASE EveryNext
  BY <1>1, <1>2, <1>7, EveryNextMoves DEF Moves
<1>8. CASE SomeNext
  BY <1>1, <1>2, <1>8, SomeNextMoves DEF Moves
<1>9. CASE Member
  BY <1>1, <1>2, <1>9, MemberMoves DEF Moves
<1>10. CASE Folded \/ Settle
  BY <1>1, <1>10, FoldedMoves, SettleMoves DEF Moves
<1> QED BY <1>3, <1>4, <1>5, <1>6, <1>7, <1>8, <1>9, <1>10 DEF Next

\* The stack after a move.
LEMMA PushedStack ==
  ASSUME Typed, NEW x, Pushes(x)
  PROVE  /\ stack' \in Seq(StackFrame) /\ stack' # <<>> /\ Len(stack') = Len(stack) + 1
         /\ stack'[Len(stack')] = x /\ Peak' = x
         /\ \A i \in 1 .. Len(stack) : stack'[i] = stack[i]
BY Pushed DEF Typed, Pushes, Peak

LEMMA SwappedStack ==
  ASSUME Typed, NEW x, Swaps(x)
  PROVE  /\ stack' \in Seq(StackFrame) /\ stack' # <<>> /\ Len(stack') = Len(stack)
         /\ stack'[Len(stack)] = x /\ Peak' = x
         /\ \A i \in 1 .. Len(stack) - 1 : stack'[i] = stack[i]
         /\ Len(stack) \in Nat \ {0}
<1>1. Len(stack) \in Nat \ {0}
  BY Popped DEF Typed, Swaps
<1> QED BY <1>1, Swapped DEF Typed, Swaps, Peak

LEMMA PoppedStack ==
  ASSUME Typed, Pops
  PROVE  /\ stack' \in Seq(StackFrame) /\ Len(stack') = Len(stack) - 1
         /\ \A i \in 1 .. Len(stack') : stack'[i] = stack[i]
         /\ Len(stack) \in Nat \ {0}
BY Popped DEF Typed, Pops

LEMMA StackTyped ==
  ASSUME Typed, Moves, UNCHANGED <<gdoc, sdoc>>
  PROVE  /\ (ctl \in [go : {"call"}, pair : Pairs] \union [go : {"return"}, out : Tri])'
         /\ (stack \in Seq(StackFrame))' /\ (\A i \in 1 .. Len(stack) : FrameOK(stack[i]))'
<1>1. Pairs' = Pairs /\ StackFrame' = StackFrame
  BY DEF Pairs, StackFrame
<1>2. \A f : FrameOK(f)' <=> FrameOK(f)
  BY DEF FrameOK
<1>3. CASE Answers
  BY <1>1, <1>2, <1>3 DEF Answers, Typed
<1>4. ASSUME NEW x \in StackFrame, Pushes(x)
      PROVE  /\ ctl' \in [go : {"call"}, pair : Pairs] \union [go : {"return"}, out : Tri]
             /\ stack' \in Seq(StackFrame) /\ \A i \in 1 .. Len(stack') : FrameOK(stack'[i])
  <2>1. Callee(x) \in Pairs
    BY <1>4, CalleeType DEF Typed, Pushes
  <2>2. ctl' \in [go : {"call"}, pair : Pairs] \union [go : {"return"}, out : Tri]
    BY <1>4, <2>1 DEF Pushes, Call, Return, Tri
  <2>3. \A i \in 1 .. Len(stack') : FrameOK(stack'[i])
    BY <1>4, PushedStack, TypedParts DEF Pushes
  <2> QED BY <1>4, <2>2, <2>3, PushedStack
<1>5. ASSUME NEW x \in StackFrame, Swaps(x)
      PROVE  /\ ctl' \in [go : {"call"}, pair : Pairs] \union [go : {"return"}, out : Tri]
             /\ stack' \in Seq(StackFrame) /\ \A i \in 1 .. Len(stack') : FrameOK(stack'[i])
  <2>1. Callee(x) \in Pairs
    BY <1>5, CalleeType DEF Typed, Swaps
  <2>2. ctl' \in [go : {"call"}, pair : Pairs] \union [go : {"return"}, out : Tri]
    BY <1>5, <2>1 DEF Swaps, Call
  <2>3. \A i \in 1 .. Len(stack') : FrameOK(stack'[i])
    BY <1>5, SwappedStack, TypedParts DEF Swaps
  <2> QED BY <1>5, <2>2, <2>3, SwappedStack
<1>6. CASE Pops
  <2>1. ctl' \in [go : {"call"}, pair : Pairs] \union [go : {"return"}, out : Tri]
    BY <1>6 DEF Pops
  <2>2. \A i \in 1 .. Len(stack') : FrameOK(stack'[i])
    BY <1>6, PoppedStack, TypedParts
  <2> QED BY <1>1, <1>2, <1>6, <2>1, <2>2, PoppedStack
<1> QED BY <1>1, <1>2, <1>3, <1>4, <1>5, <1>6 DEF Moves

\* Steps that open and close no bag.
Inside ==
  /\ UNCHANGED <<frames, settled, pending>>
  /\ \/ Answers
     \/ \E x \in StackFrame : x.is # "bag" /\ Pushes(x)
     \/ \E x \in StackFrame : Swaps(x)
     \/ Pops /\ Peak.is # "bag"

LEMMA NextKinds ==
  ASSUME TypeInv, Next
  PROVE  Inside \/ Assume \/ Enter \/ Settle
<1>1. Typed
  BY DEF TypeInv
<1>2. CASE Answer \/ Recall
  <2>1. UNCHANGED <<frames, settled, pending>>
    BY <1>2 DEF Answer, Recall
  <2> QED BY <1>1, <1>2, <2>1, AnswerMoves, RecallMoves DEF Inside
<1>3. CASE Unfold
  <2>1. UNCHANGED <<frames, settled, pending>>
    BY <1>3 DEF Unfold
  <2>2. Pushes([is |-> "unfold", pair |-> ctl.pair])
    BY <1>1, <1>3, UnfoldMoves
  <2> QED BY <2>1, <2>2 DEF Inside, Pushes
<1>4. CASE Folded
  <2>1. UNCHANGED <<frames, settled, pending>> /\ Peak.is = "unfold"
    BY <1>4 DEF Folded, Returns, Peak
  <2> QED BY <1>1, <1>4, <2>1, FoldedMoves DEF Inside
<1>5. CASE DistributeEvery
  <2>1. UNCHANGED <<frames, settled, pending>>
    BY <1>5 DEF DistributeEvery
  <2>2. PICK k \in KeysOf(ctl.pair[2].form) :
          Pushes([is |-> "every", pair |-> ctl.pair, now |-> k,
                  todo |-> KeysOf(ctl.pair[2].form) \ {k}, out |-> "yes"])
    BY <1>1, <1>5, EveryMoves
  <2> QED BY <2>1, <2>2 DEF Inside, Pushes
<1>6. CASE DistributeSome
  <2>1. UNCHANGED <<frames, settled, pending>>
    BY <1>6 DEF DistributeSome
  <2>2. PICK k \in KeysOf(ctl.pair[1].form) :
          Pushes([is |-> "some", pair |-> ctl.pair, now |-> k,
                  todo |-> KeysOf(ctl.pair[1].form) \ {k}])
    BY <1>1, <1>6, SomeMoves
  <2> QED BY <2>1, <2>2 DEF Inside, Pushes
<1>7. CASE EveryNext
  <2>1. UNCHANGED <<frames, settled, pending>> /\ Peak.is = "every"
    BY <1>7 DEF EveryNext, Returns, Peak
  <2>2. Pops \/ \E x : Swaps(x)
    BY <1>1, <1>7, EveryNextMoves
  <2> QED BY <2>1, <2>2 DEF Inside, Swaps
<1>8. CASE SomeNext
  <2>1. UNCHANGED <<frames, settled, pending>> /\ Peak.is = "some"
    BY <1>8 DEF SomeNext, Returns, Peak
  <2>2. Pops \/ \E x : Swaps(x)
    BY <1>1, <1>8, SomeNextMoves
  <2> QED BY <2>1, <2>2 DEF Inside, Swaps
<1>9. CASE Member
  <2>1. UNCHANGED <<frames, settled, pending>>
    BY <1>9 DEF Member
  <2>2. PICK x : Swaps(x)
    BY <1>1, <1>9, MemberMoves
  <2> QED BY <2>1, <2>2 DEF Inside, Swaps
<1> QED BY <1>2, <1>3, <1>4, <1>5, <1>6, <1>7, <1>8, <1>9 DEF Next

LEMMA InsideCounted ==
  ASSUME TypeInv, Inside
  PROVE  Counted' /\ Holds'
<1>1. Typed /\ Counted /\ Holds /\ UNCHANGED <<frames, settled, pending>> /\ Len(stack) \in Nat
  BY TypedParts DEF TypeInv, Inside
<1>2. Holds'
  BY <1>1 DEF Holds, Depth
<1>3. Depth' = Depth
  BY <1>1 DEF Depth
<1>4. CASE Answers
  <2>1. stack' = stack /\ frames' = frames /\ Depth' = Depth
    BY <1>1, <1>3, <1>4 DEF Answers
  <2> QED BY <1>1, <1>2, <2>1 DEF Counted, BagAt
<1>5. ASSUME NEW x \in StackFrame, x.is # "bag", Pushes(x)
      PROVE  Counted'
  <2>1. /\ Len(stack') = Len(stack) + 1 /\ stack'[Len(stack) + 1] = x
        /\ \A i \in 1 .. Len(stack) : stack'[i] = stack[i]
    BY <1>1, <1>5, PushedStack
  <2>2. \A i \in 1 .. Len(stack') : stack'[i].is = "bag" =>
          i \in 1 .. Len(stack) /\ stack'[i] = stack[i]
    BY <1>1, <1>5, <2>1
  <2> QED BY <1>1, <1>3, <2>1, <2>2 DEF Counted, BagAt
<1>6. ASSUME NEW x \in StackFrame, Swaps(x)
      PROVE  Counted'
  <2>1. /\ Len(stack') = Len(stack) /\ stack'[Len(stack)] = x /\ Len(stack) \in Nat \ {0}
        /\ \A i \in 1 .. Len(stack) - 1 : stack'[i] = stack[i]
    BY <1>1, <1>6, SwappedStack
  <2>2. /\ x.is = Peak.is /\ x.pair = Peak.pair /\ x.is = "bag" => x.depth = Peak.depth
        /\ Peak = stack[Len(stack)]
    BY <1>6 DEF Swaps, Peak
  <2>3. \A i \in 1 .. Len(stack) :
          /\ stack'[i].is = stack[i].is /\ stack'[i].pair = stack[i].pair
          /\ stack[i].is = "bag" => stack'[i].depth = stack[i].depth
    <3>1. TAKE i \in 1 .. Len(stack)
    <3>2. CASE i = Len(stack)
      BY <1>6, <3>2, <2>1, <2>2 DEF Swaps
    <3>3. CASE i # Len(stack)
      BY <3>3, <2>1
    <3> QED BY <3>2, <3>3
  <2> QED BY <1>1, <1>3, <2>1, <2>3 DEF Counted, BagAt
<1>7. CASE Pops /\ Peak.is # "bag"
  <2>1. /\ Len(stack') = Len(stack) - 1 /\ Len(stack) \in Nat \ {0}
        /\ \A i \in 1 .. Len(stack') : stack'[i] = stack[i]
    BY <1>1, <1>7, PoppedStack
  <2>2. \A i \in 1 .. Len(stack) : stack[i].is = "bag" => i \in 1 .. Len(stack')
    BY <1>7, <2>1 DEF Peak
  <2>3. \A i \in 1 .. Len(stack') : i \in 1 .. Len(stack)
    BY <2>1
  <2>4. \A i \in 1 .. Len(stack') : BagAt(i)' = BagAt(i)
    BY <2>1 DEF BagAt
  <2>5. \A i \in 1 .. Len(stack') : BagAt(i) =>
          /\ stack[i].depth \in 1 .. Depth
          /\ frames[stack[i].depth].pair = stack[i].pair
    BY <1>1, <2>3 DEF Counted
  <2>6. \A i, j \in 1 .. Len(stack') : BagAt(i) /\ BagAt(j) /\ i < j =>
          stack[i].depth < stack[j].depth
    BY <1>1, <2>3 DEF Counted
  <2>7. \A d \in 1 .. Depth : \E i \in 1 .. Len(stack') : BagAt(i) /\ stack[i].depth = d
    BY <1>1, <2>2 DEF Counted, BagAt
  <2> QED BY <1>1, <1>2, <1>3, <2>1, <2>4, <2>5, <2>6, <2>7 DEF Counted
<1> QED BY <1>2, <1>4, <1>5, <1>6, <1>7 DEF Inside

LEMMA AssumeCounted ==
  ASSUME TypeInv, Assume
  PROVE  Counted' /\ Holds'
<1>1. Typed /\ Counted /\ Holds /\ frames \in Seq(BagFrame) /\ Depth = Len(frames) /\ Depth \in Nat
  BY TypedParts DEF TypeInv, Typed, Depth
<1>2. UNCHANGED <<stack, settled, pending>>
  BY DEF Assume
<1>3. PICK low \in Nat \ {0} : frames' = Lowered(frames, low)
  BY AssumeLowers
<1>4. /\ Depth' = Depth /\ frames # <<>>
      /\ \A d \in 1 .. Depth : /\ frames'[d].pair = frames[d].pair
                               /\ frames'[d].held = frames[d].held
                               /\ frames'[d].low <= frames[d].low
                               /\ frames'[d].low \in {low, frames[d].low}
  BY <1>1, <1>3, LoweredFacts, AssumeLowers DEF Depth
<1>5. Counted'
  BY <1>1, <1>2, <1>4 DEF Counted, BagAt
<1>6. \A d \in 1 .. Depth : frames'[d].low \in 1 .. d
  <2>1. TAKE d \in 1 .. Depth
  <2>2. frames[d].low \in 1 .. d
    BY <1>1 DEF Holds
  <2>3. frames'[d].low \in Nat \ {0} /\ frames'[d].low <= frames[d].low
    BY <1>3, <1>4, <2>2
  <2> QED BY <2>2, <2>3
<1>7. \A d \in 1 .. Depth : \A pair \in frames[d].held :
        pair \in DOMAIN pending /\ frames'[d].low <= pending[pair]
  <2>1. TAKE d \in 1 .. Depth
  <2>2. TAKE pair \in frames[d].held
  <2>3. pair \in DOMAIN pending /\ frames[d].low <= pending[pair] /\ frames[d].low \in 1 .. d
    BY <1>1 DEF Holds
  <2>4. pending[pair] \in Nat /\ frames'[d].low \in 1 .. d /\ frames'[d].low <= frames[d].low
    BY <1>1, <1>4, <1>6, <2>3 DEF Typed
  <2> QED BY <2>3, <2>4
<1>8. Holds'
  <2>1. \A d \in 1 .. Depth : \A e \in 1 .. d - 1 : e \in 1 .. Depth
    BY <1>1
  <2>2. \A d \in 1 .. Depth :
          /\ frames'[d].pair \notin DOMAIN settled \union DOMAIN pending
          /\ \A e \in 1 .. d - 1 : frames'[e].pair # frames'[d].pair
          /\ \A e \in 1 .. d - 1 : frames'[e].held \intersect frames'[d].held = {}
    BY <1>1, <1>4, <2>1 DEF Holds
  <2>3. \A d \in 1 .. Depth : \A pair \in frames'[d].held :
          pair \in DOMAIN pending /\ frames'[d].low <= pending[pair]
    BY <1>4, <1>7
  <2>4. UNION {frames'[d].held : d \in 1 .. Depth} = UNION {frames[d].held : d \in 1 .. Depth}
    BY <1>4
  <2>5. /\ DOMAIN pending = UNION {frames[d].held : d \in 1 .. Depth}
        /\ DOMAIN settled \intersect DOMAIN pending = {}
    BY <1>1 DEF Holds
  <2> QED BY <1>2, <1>4, <1>6, <2>2, <2>3, <2>4, <2>5 DEF Holds
<1> QED BY <1>5, <1>8

LEMMA EnterCounted ==
  ASSUME TypeInv, Enter
  PROVE  Counted' /\ Holds' /\ (frames \in Seq(BagFrame))'
<1>1. Typed /\ Counted /\ Holds /\ frames \in Seq(BagFrame) /\ Depth = Len(frames) /\ Depth \in Nat
  BY TypedParts DEF TypeInv, Typed, Depth
<1>2. UNCHANGED <<settled, pending, gdoc, sdoc>> /\ ctl.pair \in Pairs
  BY <1>1, TypedParts DEF Enter, BagCall, Walks
<1> DEFINE y == [pair |-> ctl.pair, low |-> Depth + 1, held |-> {}]
<1>3. y \in BagFrame /\ y.pair = ctl.pair /\ y.low = Depth + 1 /\ y.held = {}
  BY <1>1, <1>2 DEF BagFrame
<1>4. frames' = Append(frames, y)
  BY DEF Enter
<1> HIDE DEF y
<1>5. /\ frames' \in Seq(BagFrame) /\ Depth' = Depth + 1 /\ frames'[Depth + 1] = y
      /\ \A d \in 1 .. Depth : frames'[d] = frames[d]
  BY <1>1, <1>3, <1>4, Pushed DEF Depth
<1>6. (frames \in Seq(BagFrame))'
  <2>1. BagFrame' = BagFrame
    BY <1>2 DEF BagFrame, Pairs
  <2> QED BY <1>5, <2>1
<1>7. Counted'
  <2>1. /\ Len(stack') = Len(stack) + 1 /\ stack'[Len(stack) + 1] = EnterFrame
        /\ \A i \in 1 .. Len(stack) : stack'[i] = stack[i]
        /\ Len(stack) \in Nat
    BY <1>1, EnterMoves, PushedStack, TypedParts
  <2>2. EnterFrame.is = "bag" /\ EnterFrame.depth = Depth + 1 /\ EnterFrame.pair = ctl.pair
    BY DEF EnterFrame
  <2>3. \A i \in 1 .. Len(stack') : BagAt(i)' =>
          /\ stack'[i].depth \in 1 .. Depth + 1
          /\ frames'[stack'[i].depth].pair = stack'[i].pair
    <3>1. TAKE i \in 1 .. Len(stack')
    <3>2. CASE i = Len(stack) + 1
      BY <3>2, <1>1, <1>3, <1>5, <2>1, <2>2
    <3>3. CASE i # Len(stack) + 1
      <4>1. i \in 1 .. Len(stack) /\ stack'[i] = stack[i]
        BY <3>3, <2>1
      <4>2. BagAt(i)' => stack[i].depth \in 1 .. Depth /\ frames[stack[i].depth].pair = stack[i].pair
        BY <1>1, <4>1 DEF Counted, BagAt
      <4> QED BY <1>1, <1>5, <4>1, <4>2
    <3> QED BY <3>2, <3>3
  <2>4. \A i, j \in 1 .. Len(stack') : BagAt(i)' /\ BagAt(j)' /\ i < j =>
          stack'[i].depth < stack'[j].depth
    <3>1. TAKE i, j \in 1 .. Len(stack')
    <3>2. HAVE BagAt(i)' /\ BagAt(j)' /\ i < j
    <3>3. i \in 1 .. Len(stack) /\ stack'[i] = stack[i] /\ stack[i].depth \in 1 .. Depth
      BY <1>1, <2>1, <3>2 DEF Counted, BagAt
    <3>4. CASE j = Len(stack) + 1
      BY <1>1, <2>1, <2>2, <3>3, <3>4
    <3>5. CASE j # Len(stack) + 1
      <4>1. j \in 1 .. Len(stack) /\ stack'[j] = stack[j]
        BY <3>5, <2>1
      <4> QED BY <1>1, <3>2, <3>3, <4>1 DEF Counted, BagAt
    <3> QED BY <3>4, <3>5
  <2>5. \A d \in 1 .. Depth + 1 : \E i \in 1 .. Len(stack') : BagAt(i)' /\ stack'[i].depth = d
    <3>1. TAKE d \in 1 .. Depth + 1
    <3>2. CASE d = Depth + 1
      <4>1. Len(stack) + 1 \in 1 .. Len(stack')
        BY <2>1
      <4> QED BY <3>2, <2>1, <2>2, <4>1 DEF BagAt
    <3>3. CASE d # Depth + 1
      <4>1. d \in 1 .. Depth
        BY <1>1, <3>3
      <4>2. PICK i \in 1 .. Len(stack) : BagAt(i) /\ stack[i].depth = d
        BY <1>1, <4>1 DEF Counted
      <4>3. i \in 1 .. Len(stack') /\ stack'[i] = stack[i]
        BY <2>1
      <4> QED BY <4>2, <4>3 DEF BagAt
    <3> QED BY <3>2, <3>3
  <2> QED BY <1>5, <2>3, <2>4, <2>5 DEF Counted
<1>8. Holds'
  <2>1. /\ ctl.pair \notin DOMAIN settled /\ Assumed(ctl.pair) = {}
    BY DEF Enter
  <2>2. Running(ctl.pair) = {} /\ ctl.pair \notin DOMAIN pending
    BY <2>1 DEF Assumed
  <2>3. \A d \in 1 .. Depth : frames[d].pair # ctl.pair
    BY <2>2 DEF Running
  <2>4. \A d \in 1 .. Depth + 1 : \A e \in 1 .. d - 1 : e \in 1 .. Depth
    BY <1>1
  <2>5. \A d \in 1 .. Depth + 1 : d = Depth + 1 \/ d \in 1 .. Depth
    BY <1>1
  <2>6. \A d \in 1 .. Depth + 1 :
          /\ frames'[d].low \in 1 .. d
          /\ frames'[d].pair \notin DOMAIN settled \union DOMAIN pending
          /\ \A e \in 1 .. d - 1 : frames'[e].pair # frames'[d].pair
          /\ \A e \in 1 .. d - 1 : frames'[e].held \intersect frames'[d].held = {}
          /\ \A pair \in frames'[d].held : pair \in DOMAIN pending /\ frames'[d].low <= pending[pair]
    <3>1. TAKE d \in 1 .. Depth + 1
    <3>2. CASE d = Depth + 1
      BY <3>2, <1>1, <1>3, <1>5, <2>1, <2>2, <2>3, <2>4
    <3>3. CASE d # Depth + 1
      <4>1. d \in 1 .. Depth /\ frames'[d] = frames[d]
        BY <3>3, <1>5, <2>5
      <4>2. \A e \in 1 .. d - 1 : frames'[e] = frames[e]
        BY <1>5, <2>4
      <4> QED BY <1>1, <4>1, <4>2 DEF Holds
    <3> QED BY <3>2, <3>3
  <2>7. UNION {frames'[d].held : d \in 1 .. Depth + 1} = UNION {frames[d].held : d \in 1 .. Depth}
    <3>1. \A p : (\E d \in 1 .. Depth + 1 : p \in frames'[d].held)
                   <=> \E d \in 1 .. Depth : p \in frames[d].held
      BY <1>1, <1>3, <1>5, <2>5
    <3> QED BY <3>1
  <2> QED BY <1>1, <1>2, <1>5, <2>6, <2>7 DEF Holds
<1> QED BY <1>6, <1>7, <1>8

(***************************************************************************)
(* Settling: the innermost pair and what it holds.                         *)
(***************************************************************************)
Inner == frames[Depth]
Rest == Lowered(Below(frames), Inner.low)
Out == Worse(Peak.out, ctl.out)

LEMMA RestFacts ==
  ASSUME TypeInv, Settle
  PROVE  /\ Depth \in Nat \ {0} /\ Inner \in BagFrame /\ Inner.low \in 1 .. Depth
         /\ Rest \in Seq(BagFrame) /\ Len(Rest) = Depth - 1
         /\ \A d \in 1 .. Depth - 1 : /\ Rest[d].pair = frames[d].pair
                                      /\ Rest[d].held = frames[d].held
                                      /\ Rest[d].low \in 1 .. d /\ Rest[d].low <= frames[d].low
         /\ Depth > 1 => Rest[Depth - 1].low <= Inner.low
         /\ Inner.pair = Peak.pair
<1>1. /\ Depth \in Nat \ {0} /\ frames # <<>> /\ frames[Depth] \in BagFrame /\ Depth = Len(frames)
      /\ Typed /\ Holds /\ frames \in Seq(BagFrame) /\ frames[Depth].pair = Peak.pair
  BY PeakIsInnermost DEF TypeInv, Typed, Depth, Settle
<1>2. Inner.low \in 1 .. Depth /\ Inner.low \in Nat
  BY <1>1 DEF Holds, Inner
<1>3. /\ Below(frames) \in Seq(BagFrame) /\ Len(Below(frames)) = Depth - 1
      /\ \A d \in 1 .. Depth - 1 : Below(frames)[d] = frames[d]
  BY <1>1, Popped
<1> DEFINE fs == Below(frames)
<1>4. /\ Rest \in Seq(BagFrame) /\ Len(Rest) = Len(fs)
      /\ \A d \in 1 .. Len(fs) : /\ Rest[d].pair = fs[d].pair /\ Rest[d].held = fs[d].held
                                 /\ Rest[d].low <= fs[d].low
                                 /\ Rest[d].low \in {Inner.low, fs[d].low}
      /\ fs # <<>> => Rest[Len(fs)].low <= Inner.low
  BY <1>2, <1>3, LoweredFacts DEF Rest
<1>5. \A d \in 1 .. Depth - 1 : Rest[d].low \in 1 .. d /\ Rest[d].low <= frames[d].low
  <2>1. TAKE d \in 1 .. Depth - 1
  <2>2. frames[d].low \in 1 .. d /\ fs[d] = frames[d]
    BY <1>1, <1>3 DEF Holds
  <2>3. Rest[d].low \in Nat \ {0} /\ Rest[d].low <= frames[d].low
    BY <1>2, <1>3, <1>4, <2>2
  <2> QED BY <2>2, <2>3
<1>6. Depth > 1 => Rest[Depth - 1].low <= Inner.low
  BY <1>1, <1>3, <1>4
<1> QED BY <1>1, <1>2, <1>3, <1>4, <1>5, <1>6 DEF Inner

LEMMA WaitsFacts ==
  ASSUME TypeInv, Settle, Waits(Inner.low, Out)
  PROVE  /\ Depth > 1 /\ frames' \in Seq(BagFrame) /\ Depth' = Depth - 1
         /\ \A d \in 1 .. Depth - 1 :
              /\ frames'[d].pair = frames[d].pair
              /\ frames'[d].low = Rest[d].low
              /\ frames'[d].held = IF d = Depth - 1 THEN frames[d].held \cup {Inner.pair} \cup Inner.held
                                   ELSE frames[d].held
<1> DEFINE n == Depth - 1
           more == {Inner.pair} \cup Inner.held
           top == Rest[n]
           x == [pair |-> top.pair, low |-> top.low, held |-> top.held \cup more]
<1>1. /\ Depth \in Nat \ {0} /\ Inner.low \in 1 .. Depth /\ Inner \in BagFrame
      /\ Rest \in Seq(BagFrame) /\ Len(Rest) = n
  BY RestFacts
<1>2. Depth > 1 /\ n \in 1 .. n /\ n \in Nat
  BY <1>1 DEF Waits
<1>3. frames' = Holding(Rest, more)
  BY DEF Settle, Out, Rest, Inner
<1>4. top \in BagFrame /\ more \subseteq Pairs
  <2>1. n \in 1 .. Len(Rest)
    BY <1>1, <1>2
  <2>2. Rest[n] \in BagFrame
    BY <1>1, <2>1
  <2> QED BY <1>1, <2>2 DEF BagFrame
<1>5. [top EXCEPT !.held = @ \cup more] = x
  <2>1. DOMAIN top = {"pair", "low", "held"}
    BY <1>4 DEF BagFrame
  <2>2. [top EXCEPT !.held = @ \cup more]
          = [j \in DOMAIN top |-> IF j = "held" THEN top.held \cup more ELSE top[j]]
    BY <2>1
  <2> QED BY <2>1, <2>2
<1>6. x \in BagFrame /\ x.pair = top.pair /\ x.low = top.low /\ x.held = top.held \cup more
  BY <1>4 DEF BagFrame
<1>7. frames' = [Rest EXCEPT ![n] = x]
  BY <1>1, <1>3, <1>5 DEF Holding
<1> HIDE DEF x
<1>8. frames' \in Seq(BagFrame) /\ Len(frames') = n /\ frames'[n] = x
  BY <1>1, <1>2, <1>6, <1>7
<1>9. \A d \in 1 .. n : d # n => frames'[d] = Rest[d]
  BY <1>1, <1>7
<1>10. \A d \in 1 .. n : Rest[d].pair = frames[d].pair /\ Rest[d].held = frames[d].held
  BY RestFacts
<1>11. \A d \in 1 .. n :
         /\ frames'[d].pair = frames[d].pair
         /\ frames'[d].low = Rest[d].low
         /\ frames'[d].held = IF d = n THEN frames[d].held \cup more ELSE frames[d].held
  <2>1. TAKE d \in 1 .. n
  <2>2. CASE d = n
    BY <2>2, <1>6, <1>8, <1>10
  <2>3. CASE d # n
    BY <2>3, <1>9, <1>10
  <2> QED BY <2>2, <2>3
<1>12. Depth' = n
  BY <1>8 DEF Depth
<1> QED BY <1>2, <1>8, <1>11, <1>12

\* The stack without its top bag, and the pairs without the innermost.
LEMMA SettleCounted ==
  ASSUME TypeInv, Settle, Depth' = Depth - 1,
         \A d \in 1 .. Depth - 1 : frames'[d].pair = frames[d].pair
  PROVE  Counted'
<1>1. /\ Depth \in Nat \ {0} /\ Peak.depth = Depth /\ Typed /\ Counted /\ Returns("bag")
      /\ Len(stack) \in Nat \ {0} /\ Pops
  BY PeakIsInnermost, SettleMoves DEF TypeInv, Settle
<1>2. /\ Len(stack') = Len(stack) - 1 /\ \A i \in 1 .. Len(stack') : stack'[i] = stack[i]
  BY <1>1, PoppedStack
<1>3. \A i \in 1 .. Len(stack') : i \in 1 .. Len(stack) /\ i < Len(stack) /\ BagAt(i)' = BagAt(i)
  BY <1>1, <1>2 DEF BagAt
<1>4. BagAt(Len(stack)) /\ stack[Len(stack)].depth = Depth /\ Len(stack) \in 1 .. Len(stack)
  BY <1>1 DEF Returns, Peak, BagAt
<1>5. \A i \in 1 .. Len(stack') : BagAt(i) =>
        stack[i].depth \in 1 .. Depth - 1 /\ frames[stack[i].depth].pair = stack[i].pair
  <2>1. TAKE i \in 1 .. Len(stack')
  <2>2. HAVE BagAt(i)
  <2>3. /\ stack[i].depth \in 1 .. Depth /\ stack[i].depth < Depth
        /\ frames[stack[i].depth].pair = stack[i].pair
    BY <1>1, <1>3, <1>4, <2>2 DEF Counted
  <2> QED BY <1>1, <2>3
<1>6. \A i, j \in 1 .. Len(stack') : BagAt(i) /\ BagAt(j) /\ i < j =>
        stack[i].depth < stack[j].depth
  BY <1>1, <1>3 DEF Counted
<1>7. \A d \in 1 .. Depth - 1 : \E i \in 1 .. Len(stack') : BagAt(i) /\ stack[i].depth = d
  <2>1. TAKE d \in 1 .. Depth - 1
  <2>2. PICK i \in 1 .. Len(stack) : BagAt(i) /\ stack[i].depth = d
    BY <1>1 DEF Counted
  <2>3. i # Len(stack)
    BY <1>1, <1>4, <2>2
  <2>4. i \in 1 .. Len(stack')
    BY <1>1, <1>2, <2>3
  <2> QED BY <2>2, <2>4
<1>8. \A i \in 1 .. Len(stack') : BagAt(i)' =>
        stack'[i].depth \in 1 .. Depth' /\ frames'[stack'[i].depth].pair = stack'[i].pair
  BY <1>2, <1>3, <1>5
<1>9. \A i, j \in 1 .. Len(stack') : BagAt(i)' /\ BagAt(j)' /\ i < j =>
        stack'[i].depth < stack'[j].depth
  BY <1>2, <1>3, <1>6
<1>10. \A d \in 1 .. Depth' : \E i \in 1 .. Len(stack') : BagAt(i)' /\ stack'[i].depth = d
  BY <1>2, <1>3, <1>7
<1> QED BY <1>8, <1>9, <1>10 DEF Counted

\* What the pairs compared and held have to do with each other.
LEMMA HeldFacts ==
  ASSUME TypeInv, Settle
  PROVE  /\ Inner.pair \notin DOMAIN settled \union DOMAIN pending
         /\ Inner.held \subseteq DOMAIN pending
         /\ \A p \in Inner.held : Inner.low <= pending[p] /\ pending[p] \in Nat
         /\ \A d \in 1 .. Depth - 1 :
              /\ frames[d].pair \notin DOMAIN settled \union DOMAIN pending
              /\ frames[d].pair # Inner.pair
              /\ frames[d].held \subseteq DOMAIN pending
              /\ frames[d].held \intersect Inner.held = {}
              /\ \A p \in frames[d].held : frames[d].low <= pending[p] /\ pending[p] \in Nat
              /\ \A e \in 1 .. d - 1 : /\ frames[e].pair # frames[d].pair
                                       /\ frames[e].held \intersect frames[d].held = {}
                                       /\ e \in 1 .. Depth - 1
         /\ DOMAIN pending = Inner.held \cup UNION {frames[d].held : d \in 1 .. Depth - 1}
         /\ DOMAIN settled \intersect DOMAIN pending = {}
<1>1. Depth \in Nat \ {0} /\ Typed /\ Holds
  BY RestFacts DEF TypeInv
<1>2. Depth \in 1 .. Depth /\ \A d \in 1 .. Depth - 1 : d \in 1 .. Depth
  BY <1>1
<1>3. \A p \in DOMAIN pending : pending[p] \in Nat
  BY <1>1 DEF Typed
<1>4. /\ Inner.pair \notin DOMAIN settled \union DOMAIN pending
      /\ Inner.held \subseteq DOMAIN pending
      /\ \A p \in Inner.held : Inner.low <= pending[p]
      /\ \A e \in 1 .. Depth - 1 : /\ frames[e].pair # Inner.pair
                                   /\ frames[e].held \intersect Inner.held = {}
  BY <1>1, <1>2 DEF Holds, Inner
<1>5. \A d \in 1 .. Depth - 1 :
        /\ frames[d].pair \notin DOMAIN settled \union DOMAIN pending
        /\ frames[d].held \subseteq DOMAIN pending
        /\ \A p \in frames[d].held : frames[d].low <= pending[p]
        /\ \A e \in 1 .. d - 1 : /\ frames[e].pair # frames[d].pair
                                 /\ frames[e].held \intersect frames[d].held = {}
  BY <1>1, <1>2 DEF Holds
<1>6. \A d \in 1 .. Depth - 1 : \A e \in 1 .. d - 1 : e \in 1 .. Depth - 1
  BY <1>1
<1>7. DOMAIN pending = Inner.held \cup UNION {frames[d].held : d \in 1 .. Depth - 1}
  <2>1. \A d \in 1 .. Depth : d = Depth \/ d \in 1 .. Depth - 1
    BY <1>1
  <2>2. \A p : p \in DOMAIN pending <=> \E d \in 1 .. Depth : p \in frames[d].held
    BY <1>1 DEF Holds
  <2>3. \A p : p \in DOMAIN pending
                 <=> p \in Inner.held \/ \E d \in 1 .. Depth - 1 : p \in frames[d].held
    BY <1>2, <2>1, <2>2 DEF Inner
  <2> QED BY <2>3
<1>8. DOMAIN settled \intersect DOMAIN pending = {}
  BY <1>1 DEF Holds
<1> QED BY <1>3, <1>4, <1>5, <1>6, <1>7, <1>8

LEMMA SettleHolds ==
  ASSUME TypeInv, Settle
  PROVE  /\ Counted' /\ Holds' /\ (frames \in Seq(BagFrame))'
         /\ settled' \in [DOMAIN settled' -> Tri] /\ DOMAIN settled' \subseteq Pairs
         /\ pending' \in [DOMAIN pending' -> Nat] /\ DOMAIN pending' \subseteq Pairs
<1> DEFINE held == Inner.held
           pair == Inner.pair
           waiting == Waits(Inner.low, Out)
<1>1. /\ Depth \in Nat \ {0} /\ Inner \in BagFrame /\ Inner.low \in 1 .. Depth
      /\ Typed /\ UNCHANGED <<gdoc, sdoc>>
  BY RestFacts DEF TypeInv, Settle
<1>2. pair \in Pairs /\ held \subseteq Pairs /\ Inner.low \in Nat
  BY <1>1 DEF BagFrame
<1>3. Out \in Tri
  BY SettleMoves DEF Settle, Out, Pops, TypeInv, Return
<1>4. BagFrame' = BagFrame
  BY <1>1 DEF BagFrame, Pairs
<1>5. /\ settled \in [DOMAIN settled -> Tri] /\ DOMAIN settled \subseteq Pairs
      /\ pending \in [DOMAIN pending -> Nat] /\ DOMAIN pending \subseteq Pairs
  BY <1>1 DEF Typed
<1>6. CASE waiting
  <2>1. /\ settled' = settled /\ pending' = With(pending, {pair}, Inner.low)
    BY <1>6 DEF Settle, Out, Inner
  <2>2. /\ Depth > 1 /\ frames' \in Seq(BagFrame) /\ Depth' = Depth - 1
        /\ \A d \in 1 .. Depth - 1 :
             /\ frames'[d].pair = frames[d].pair
             /\ frames'[d].low = Rest[d].low
             /\ frames'[d].held = IF d = Depth - 1 THEN frames[d].held \cup {pair} \cup held
                                  ELSE frames[d].held
    BY <1>6, WaitsFacts
  <2>3. /\ DOMAIN pending' = DOMAIN pending \cup {pair}
        /\ \A p \in DOMAIN pending' : pending'[p] = IF p = pair THEN Inner.low ELSE pending[p]
        /\ pending' \in [DOMAIN pending' -> Nat]
    BY <1>2, <1>5, <2>1 DEF With
  <2>4. Counted'
    BY <2>2, SettleCounted
  <2>5. \A d \in 1 .. Depth - 1 :
          /\ frames'[d].low \in 1 .. d
          /\ frames'[d].pair \notin DOMAIN settled' \union DOMAIN pending'
          /\ \A e \in 1 .. d - 1 : frames'[e].pair # frames'[d].pair
    <3>1. TAKE d \in 1 .. Depth - 1
    <3>2. frames'[d].low \in 1 .. d
      BY <2>2, RestFacts
    <3>3. frames'[d].pair \notin DOMAIN settled' \union DOMAIN pending'
      BY <2>1, <2>2, <2>3, HeldFacts
    <3>4. \A e \in 1 .. d - 1 : e \in 1 .. Depth - 1 /\ frames[e].pair # frames[d].pair
      BY HeldFacts
    <3> QED BY <2>2, <3>2, <3>3, <3>4
  <2>6. \A d \in 1 .. Depth - 1 : \A e \in 1 .. d - 1 :
          frames'[e].held \intersect frames'[d].held = {}
    <3>1. TAKE d \in 1 .. Depth - 1
    <3>2. TAKE e \in 1 .. d - 1
    <3>3. /\ e \in 1 .. Depth - 1 /\ frames[e].held \intersect frames[d].held = {}
          /\ frames[e].held \subseteq DOMAIN pending /\ frames[e].held \intersect held = {}
          /\ pair \notin DOMAIN pending
      BY HeldFacts
    <3>4. frames'[e].held = frames[e].held
      <4>1. e < d /\ d <= Depth - 1 /\ e # Depth - 1
        BY <1>1
      <4> QED BY <2>2, <3>3, <4>1
    <3>5. frames'[d].held \subseteq frames[d].held \cup {pair} \cup held
      BY <2>2
    <3> QED BY <3>3, <3>4, <3>5
  <2>7. \A d \in 1 .. Depth - 1 : \A p \in frames'[d].held :
          p \in DOMAIN pending' /\ frames'[d].low <= pending'[p]
    <3>1. TAKE d \in 1 .. Depth - 1
    <3>2. TAKE p \in frames'[d].held
    <3>3. frames'[d].low = Rest[d].low /\ Rest[d].low \in Nat /\ Rest[d].low <= frames[d].low
      <4>1. Rest[d].low \in 1 .. d /\ Rest[d].low <= frames[d].low
        BY RestFacts
      <4>2. d \in Nat
        BY <1>1
      <4>3. Rest[d].low \in Nat
        BY <4>1, <4>2
      <4>4. frames'[d].low = Rest[d].low
        BY <2>2
      <4> QED BY <4>1, <4>3, <4>4
    <3>4. CASE p \in frames[d].held
      <4>1. /\ p \in DOMAIN pending /\ p # pair /\ frames[d].low <= pending[p] /\ pending[p] \in Nat
        BY <3>4, HeldFacts
      <4>2. frames[d].low \in Nat
        <5>1. d \in 1 .. Len(frames) /\ frames \in Seq(BagFrame)
          BY <1>1 DEF Typed, Depth
        <5>2. frames[d] \in BagFrame
          BY <5>1
        <5> QED BY <5>2 DEF BagFrame
      <4>3. Rest[d].low <= pending[p]
        BY <3>3, <4>1, <4>2
      <4> QED BY <2>3, <3>3, <4>1, <4>3
    <3>5. CASE p \notin frames[d].held
      <4>1. d = Depth - 1 /\ p \in {pair} \cup held
        BY <2>2, <3>5
      <4>2. Rest[d].low <= Inner.low
        BY <2>2, <4>1, RestFacts
      <4>3. CASE p = pair
        BY <2>3, <3>3, <4>2, <4>3
      <4>4. CASE p # pair
        <5>1. p \in DOMAIN pending /\ Inner.low <= pending[p] /\ pending[p] \in Nat
          BY <4>1, <4>4, HeldFacts
        <5>2. Rest[d].low <= pending[p]
          BY <1>2, <3>3, <4>2, <5>1
        <5> QED BY <2>3, <3>3, <4>4, <5>1, <5>2
      <4> QED BY <4>3, <4>4
    <3> QED BY <3>4, <3>5
  <2>8. DOMAIN pending' = UNION {frames'[d].held : d \in 1 .. Depth - 1}
    <3>1. Depth - 1 \in 1 .. Depth - 1
      BY <1>1, <2>2
    <3>2. \A p : p \in DOMAIN pending <=>
                   p \in held \/ \E d \in 1 .. Depth - 1 : p \in frames[d].held
      BY HeldFacts
    <3>3. \A p : p \in DOMAIN pending' <=> \E d \in 1 .. Depth - 1 : p \in frames'[d].held
      BY <2>2, <2>3, <3>1, <3>2
    <3> QED BY <3>3
  <2>9. DOMAIN settled' \intersect DOMAIN pending' = {}
    BY <2>1, <2>3, HeldFacts
  <2>10. Holds'
    BY <2>2, <2>5, <2>6, <2>7, <2>8, <2>9 DEF Holds
  <2> QED BY <1>2, <1>4, <1>5, <2>1, <2>2, <2>3, <2>4, <2>10
<1>7. CASE ~waiting
  <2> DEFINE done == {pair} \cup (IF Out = "yes" THEN held ELSE {})
  <2>1. /\ pending' = Without(pending, held) /\ frames' = Rest
        /\ settled' = IF Distributing THEN settled ELSE With(settled, done, Out)
    BY <1>7 DEF Settle, Out, Inner, Rest
  <2>2. /\ frames' \in Seq(BagFrame) /\ Depth' = Depth - 1
        /\ \A d \in 1 .. Depth - 1 :
             /\ frames'[d].pair = frames[d].pair
             /\ frames'[d].held = frames[d].held
             /\ frames'[d].low \in 1 .. d /\ frames'[d].low <= frames[d].low
    BY <2>1, RestFacts DEF Depth
  <2>3. /\ DOMAIN pending' = DOMAIN pending \ held
        /\ \A p \in DOMAIN pending' : pending'[p] = pending[p]
        /\ pending' \in [DOMAIN pending' -> Nat]
    BY <1>5, <2>1 DEF Without
  <2>4. /\ DOMAIN settled' \subseteq DOMAIN settled \cup {pair} \cup held
        /\ settled' \in [DOMAIN settled' -> Tri]
    <3>1. CASE Distributing
      BY <1>5, <2>1, <3>1
    <3>2. CASE ~Distributing
      <4>1. settled' = [k \in DOMAIN settled \cup done |-> IF k \in done THEN Out ELSE settled[k]]
        BY <2>1, <3>2 DEF With
      <4>2. done \subseteq {pair} \cup held
        OBVIOUS
      <4> HIDE DEF done
      <4> QED BY <1>3, <1>5, <4>1, <4>2
    <3> QED BY <3>1, <3>2
  <2>5. Counted'
    BY <2>2, SettleCounted
  <2>6. \A d \in 1 .. Depth - 1 :
          /\ frames'[d].pair \notin DOMAIN settled' \union DOMAIN pending'
          /\ \A e \in 1 .. d - 1 : frames'[e].pair # frames'[d].pair
          /\ \A e \in 1 .. d - 1 : frames'[e].held \intersect frames'[d].held = {}
    <3>1. TAKE d \in 1 .. Depth - 1
    <3>2. /\ frames[d].pair \notin DOMAIN settled \union DOMAIN pending
          /\ frames[d].pair # pair /\ held \subseteq DOMAIN pending
          /\ \A e \in 1 .. d - 1 : /\ e \in 1 .. Depth - 1 /\ frames[e].pair # frames[d].pair
                                   /\ frames[e].held \intersect frames[d].held = {}
      BY HeldFacts
    <3>3. frames'[d].pair \notin DOMAIN settled' \union DOMAIN pending'
      BY <2>2, <2>3, <2>4, <3>2
    <3> QED BY <2>2, <3>2, <3>3
  <2>7. \A d \in 1 .. Depth - 1 : \A p \in frames'[d].held :
          p \in DOMAIN pending' /\ frames'[d].low <= pending'[p]
    <3>1. TAKE d \in 1 .. Depth - 1
    <3>2. TAKE p \in frames'[d].held
    <3>3. /\ p \in DOMAIN pending /\ p \notin held /\ frames[d].low <= pending[p]
          /\ pending[p] \in Nat
      BY <2>2, HeldFacts
    <3>4. frames[d].low \in Nat /\ frames'[d].low \in Nat /\ frames'[d].low <= frames[d].low
      <4>1. d \in 1 .. Len(frames) /\ frames \in Seq(BagFrame)
        BY <1>1 DEF Typed, Depth
      <4>2. frames[d] \in BagFrame
        BY <4>1
      <4> QED BY <2>2, <4>2 DEF BagFrame
    <3>5. frames'[d].low <= pending[p]
      BY <3>3, <3>4
    <3> QED BY <2>3, <3>3, <3>5
  <2>8. DOMAIN pending' = UNION {frames'[d].held : d \in 1 .. Depth - 1}
    <3>1. \A p : p \in DOMAIN pending <=>
                   p \in held \/ \E d \in 1 .. Depth - 1 : p \in frames[d].held
      BY HeldFacts
    <3>2. \A d \in 1 .. Depth - 1 : frames[d].held \intersect held = {}
      BY HeldFacts
    <3>3. \A p : p \in DOMAIN pending' <=> \E d \in 1 .. Depth - 1 : p \in frames'[d].held
      BY <2>2, <2>3, <3>1, <3>2
    <3> QED BY <3>3
  <2>9. DOMAIN settled' \intersect DOMAIN pending' = {}
    BY <2>3, <2>4, HeldFacts
  <2>10. Holds'
    BY <2>2, <2>6, <2>7, <2>8, <2>9 DEF Holds
  <2> QED BY <1>2, <1>4, <1>5, <2>2, <2>3, <2>4, <2>5, <2>10
<1> QED BY <1>6, <1>7

(***************************************************************************)
(* The types of what the walk remembers.                                   *)
(***************************************************************************)
LEMMA RestTyped ==
  ASSUME TypeInv, Next
  PROVE  /\ Counted' /\ Holds' /\ (frames \in Seq(BagFrame))'
         /\ settled' \in [DOMAIN settled' -> Tri] /\ DOMAIN settled' \subseteq Pairs
         /\ pending' \in [DOMAIN pending' -> Nat] /\ DOMAIN pending' \subseteq Pairs
<1>1. Typed /\ UNCHANGED <<gdoc, sdoc>>
  BY DocsStay DEF TypeInv
<1>2. /\ frames \in Seq(BagFrame) /\ BagFrame' = BagFrame
      /\ settled \in [DOMAIN settled -> Tri] /\ DOMAIN settled \subseteq Pairs
      /\ pending \in [DOMAIN pending -> Nat] /\ DOMAIN pending \subseteq Pairs
  BY <1>1 DEF Typed, BagFrame, Pairs
<1>3. CASE Inside
  BY <1>2, <1>3, InsideCounted DEF Inside
<1>4. CASE Assume
  <2>1. UNCHANGED <<settled, pending>> /\ Counted' /\ Holds'
    BY <1>4, AssumeCounted DEF Assume
  <2>2. frames' \in Seq(BagFrame)
    <3>1. PICK low \in Nat \ {0} : frames' = Lowered(frames, low)
      BY <1>4, AssumeLowers
    <3> QED BY <1>2, <3>1, LoweredFacts
  <2> QED BY <1>2, <2>1, <2>2
<1>5. CASE Enter
  <2>1. UNCHANGED <<settled, pending>> /\ Counted' /\ Holds' /\ (frames \in Seq(BagFrame))'
    BY <1>5, EnterCounted DEF Enter
  <2> QED BY <1>2, <2>1
<1>6. CASE Settle
  BY <1>6, SettleHolds
<1> QED BY <1>3, <1>4, <1>5, <1>6, NextKinds

LEMMA UnfoldingTyped ==
  ASSUME TypeInv, Next
  PROVE  unfolding' \subseteq Pairs /\ overlooked' \in BOOLEAN
<1>1. Typed /\ unfolding \subseteq Pairs /\ overlooked \in BOOLEAN
  BY DEF TypeInv, Typed
<1>2. CASE Unfold
  <2>1. ctl.pair \in Pairs
    BY <1>1, <1>2, TypedParts DEF Unfold
  <2> QED BY <1>1, <1>2, <2>1 DEF Unfold
<1>3. CASE Folded
  BY <1>1, <1>3 DEF Folded
<1>4. CASE Enter
  BY <1>1, <1>4 DEF Enter
<1>5. CASE Settle
  <2>1. Peak \in PairFrame
    BY <1>1, <1>5, FrameShapes, TypedParts DEF Settle, Returns, Peak
  <2> QED BY <1>1, <1>5, <2>1 DEF Settle, PairFrame
<1>6. CASE Answer
  BY <1>1, <1>6 DEF Answer
<1>7. CASE \/ DistributeEvery \/ DistributeSome \/ EveryNext \/ SomeNext \/ Recall \/ Assume \/ Member
  BY <1>1, <1>7 DEF DistributeEvery, DistributeSome, EveryNext, SomeNext, Recall, Assume, Member
<1> QED BY <1>2, <1>3, <1>4, <1>5, <1>6, <1>7 DEF Next

LEMMA RootPairs == ASSUME gdoc \in Docs, sdoc \in Docs PROVE Asked(gdoc, sdoc) \in Pairs
<1>1. \A d \in Docs : "v" \in DOMAIN d /\ d["v"] \in Form[d]
  BY WalkAssumption
<1>2. "v" \in Seg
  BY <1>1 DEF Seg
<1>3. <<"v">> \in Seq(Seg)
  BY <1>2
<1> QED BY <1>1, <1>3 DEF Asked, Root, Node, Pairs, NodesOf

LEMMA TypeStart == Init => TypeInv
<1>1. SUFFICES ASSUME Init PROVE TypeInv
  OBVIOUS
<1>2. gdoc \in Docs /\ sdoc \in Docs /\ ctl = Call(Asked(gdoc, sdoc)) /\ Asked(gdoc, sdoc) \in Pairs
  BY <1>1, RootPairs DEF Init
<1>3. ctl \in [go : {"call"}, pair : Pairs]
  BY <1>2 DEF Call
<1>4. stack = <<>> /\ frames = <<>> /\ settled = <<>> /\ pending = <<>> /\ unfolding = {}
  BY <1>1 DEF Init
<1>5. DOMAIN settled = {} /\ DOMAIN pending = {} /\ Len(stack) = 0 /\ Depth = 0
  BY <1>4 DEF Depth
<1>6. settled \in [DOMAIN settled -> Tri] /\ pending \in [DOMAIN pending -> Nat]
  <2>1. settled = [x \in {} |-> "yes"] /\ pending = [x \in {} |-> 0]
    BY <1>4, <1>5
  <2> QED BY <1>5, <2>1
<1>7. 1 .. Len(stack) = {} /\ 1 .. Depth = {}
  BY <1>5
<1>8. Typed
  <2>1. stack \in Seq(StackFrame) /\ frames \in Seq(BagFrame)
    BY <1>4
  <2>2. unfolding \subseteq Pairs /\ overlooked \in BOOLEAN
    BY <1>1 DEF Init
  <2>3. DOMAIN settled \subseteq Pairs /\ DOMAIN pending \subseteq Pairs
    BY <1>5
  <2>4. \A i \in 1 .. Len(stack) : FrameOK(stack[i])
    BY <1>7
  <2> QED BY <1>2, <1>3, <1>6, <2>1, <2>2, <2>3, <2>4 DEF Typed
<1>9. Counted /\ Holds
  BY <1>5, <1>7 DEF Counted, Holds
<1> QED BY <1>8, <1>9 DEF TypeInv

LEMMA TypeStep == TypeInv /\ [Next]_vars => TypeInv'
<1>1. SUFFICES ASSUME TypeInv, [Next]_vars PROVE TypeInv'
  OBVIOUS
<1>2. CASE Next
  <2>1. UNCHANGED <<gdoc, sdoc>> /\ gdoc \in Docs /\ sdoc \in Docs /\ Pairs' = Pairs /\ Moves
    BY <1>1, <1>2, DocsStay, NextMoves DEF TypeInv, Typed, Pairs
  <2>2. /\ (ctl \in [go : {"call"}, pair : Pairs] \union [go : {"return"}, out : Tri])'
        /\ (stack \in Seq(StackFrame))' /\ (\A i \in 1 .. Len(stack) : FrameOK(stack[i]))'
    BY <1>1, <2>1, StackTyped DEF TypeInv
  <2>3. /\ Counted' /\ Holds' /\ (frames \in Seq(BagFrame))'
        /\ settled' \in [DOMAIN settled' -> Tri] /\ DOMAIN settled' \subseteq Pairs
        /\ pending' \in [DOMAIN pending' -> Nat] /\ DOMAIN pending' \subseteq Pairs
    BY <1>1, <1>2, RestTyped
  <2>4. unfolding' \subseteq Pairs /\ overlooked' \in BOOLEAN
    BY <1>1, <1>2, UnfoldingTyped
  <2>5. gdoc' \in Docs /\ sdoc' \in Docs /\ unfolding' \subseteq Pairs'
        /\ DOMAIN settled' \subseteq Pairs' /\ DOMAIN pending' \subseteq Pairs'
    BY <2>1, <2>3, <2>4
  <2>6. Typed'
    BY <2>2, <2>3, <2>4, <2>5 DEF Typed, Tri
  <2> QED BY <2>3, <2>6 DEF TypeInv
<1>3. CASE UNCHANGED vars
  <2>1. UNCHANGED vars /\ Typed /\ Counted /\ Holds
    BY <1>1, <1>3 DEF TypeInv
  <2>2. Counted'
    BY <2>1 DEF vars, Counted, BagAt, Depth
  <2>3. Holds'
    BY <2>1 DEF vars, Holds, Depth
  <2>4. Pairs' = Pairs /\ StackFrame' = StackFrame /\ BagFrame' = BagFrame
    BY <2>1 DEF vars, Pairs, StackFrame, BagFrame
  <2>5. \A f : FrameOK(f)' <=> FrameOK(f)
    BY DEF FrameOK
  <2>6. Typed'
    BY <2>1, <2>4, <2>5 DEF vars, Typed, Tri
  <2> QED BY <2>2, <2>3, <2>6 DEF TypeInv
<1> QED BY <1>1, <1>2, <1>3

\* What a yes assumed waits with a bag that is being compared, and a pair
\* under comparison has no answer yet: assume, settle and the depth.
THEOREM WalkTypes == Spec => []TypeOK
<1>1. TypeInv => TypeOK
  BY TypedParts DEF TypeInv, Typed, Holds, TypeOK
<1> QED BY <1>1, TypeStart, TypeStep, PTL DEF Spec

(***************************************************************************)
(* The way down: what each call of the walk waits for is what the next one *)
(* is of, and a recursion being unfolded is one of them.                   *)
(***************************************************************************)
Open(i) == {stack[j].pair : j \in 1 .. i - 1}
CalleeAt(i) == IF i = 1 THEN Asked(gdoc, sdoc) ELSE Callee(stack[i - 1])
Current == CalleeAt(Len(stack) + 1)
Recurs(pair) == Recursive(pair[1].form, pair[2].form)
Distributes(i) == stack[i].is \in {"every", "some"}

Chain ==
  /\ \A i \in 1 .. Len(stack) : stack[i].pair = CalleeAt(i)
  /\ Calls => ctl.pair = Current

Spine ==
  /\ \A p \in unfolding : p \in Open(Len(stack) + 1) /\ Recurs(p)
  /\ \A i \in 1 .. Len(stack) : BagAt(i) =>
       \A p \in stack[i].unfolding : p \in Open(i) /\ Recurs(p)
  /\ \A i \in 1 .. Len(stack) : Distributes(i) /\ Recurs(stack[i].pair) => stack[i].pair \in Open(i)

PathInv == TypeInv /\ Chain /\ Spine

LEMMA CalleeStays ==
  ASSUME UNCHANGED <<gdoc, sdoc>>
  PROVE  /\ \A f : Callee(f)' = Callee(f)
         /\ Asked(gdoc, sdoc)' = Asked(gdoc, sdoc)
BY DEF Callee

\* Below the top, what is open and what is waited for stays.
LEMMA OpenStays ==
  ASSUME UNCHANGED <<gdoc, sdoc>>, NEW n \in Nat, \A i \in 1 .. n : stack'[i] = stack[i]
  PROVE  \A i \in 1 .. n + 1 : Open(i)' = Open(i) /\ CalleeAt(i)' = CalleeAt(i)
<1>1. TAKE i \in 1 .. n + 1
<1>2. \A j \in 1 .. i - 1 : stack'[j] = stack[j]
  OBVIOUS
<1>3. Open(i)' = Open(i)
  BY <1>2 DEF Open
<1>4. CASE i = 1
  BY <1>3, <1>4, CalleeStays DEF CalleeAt
<1>5. CASE i # 1
  <2>1. i - 1 \in 1 .. n
    BY <1>5
  <2>2. stack'[i - 1] = stack[i - 1]
    BY <2>1
  <2>3. Callee(stack[i - 1])' = Callee(stack[i - 1])
    BY <2>2 DEF Callee
  <2> QED BY <1>3, <1>5, <2>2, <2>3 DEF CalleeAt
<1> QED BY <1>4, <1>5

LEMMA ChainStep ==
  ASSUME Typed, Chain, Moves, UNCHANGED <<gdoc, sdoc>>
  PROVE  Chain'
<1> DEFINE n == Len(stack)
<1>1. n \in Nat /\ \A i \in 1 .. n : stack[i].pair = CalleeAt(i)
  BY TypedParts DEF Chain
<1>2. CASE Answers
  <2>1. stack' = stack /\ ~Calls'
    BY <1>2 DEF Answers, Calls
  <2>2. \A i \in 1 .. n + 1 : CalleeAt(i)' = CalleeAt(i)
    BY <1>1, <2>1, OpenStays
  <2> QED BY <1>1, <2>1, <2>2 DEF Chain
<1>3. ASSUME NEW x \in StackFrame, Pushes(x)
      PROVE  Chain'
  <2>1. /\ Len(stack') = n + 1 /\ stack'[n + 1] = x
        /\ \A i \in 1 .. n : stack'[i] = stack[i]
    BY <1>3, PushedStack
  <2>2. \A i \in 1 .. n + 1 : CalleeAt(i)' = CalleeAt(i)
    BY <1>1, <2>1, OpenStays
  <2>3. x.pair = CalleeAt(n + 1)
    BY <1>3 DEF Pushes, Chain, Current
  <2>4. \A i \in 1 .. n + 1 : stack'[i].pair = CalleeAt(i)'
    <3>1. TAKE i \in 1 .. n + 1
    <3>2. i = n + 1 \/ i \in 1 .. n
      BY <1>1
    <3> QED BY <1>1, <2>1, <2>2, <2>3, <3>2
  <2>5. Calls' => ctl'.pair = Current'
    <3>1. SUFFICES ASSUME Calls' PROVE ctl'.pair = Current'
      OBVIOUS
    <3>2. ctl' = Call(Callee(x))
      BY <1>3, <3>1 DEF Pushes, Calls, Return
    <3>3. Current' = Callee(x)'
      BY <1>1, <2>1 DEF Current, CalleeAt
    <3>4. Callee(x)' = Callee(x)
      BY CalleeStays
    <3> QED BY <3>2, <3>3, <3>4 DEF Call
  <2> QED BY <2>1, <2>4, <2>5 DEF Chain
<1>4. ASSUME NEW x \in StackFrame, Swaps(x)
      PROVE  Chain'
  <2>1. /\ Len(stack') = n /\ stack'[n] = x /\ n \in Nat \ {0}
        /\ \A i \in 1 .. n - 1 : stack'[i] = stack[i]
    BY <1>4, SwappedStack
  <2>2. \A i \in 1 .. n : CalleeAt(i)' = CalleeAt(i)
    <3>1. PICK m \in Nat : n = m + 1
      BY <2>1
    <3>2. \A i \in 1 .. m : stack'[i] = stack[i]
      BY <2>1, <3>1
    <3>3. \A i \in 1 .. m + 1 : CalleeAt(i)' = CalleeAt(i)
      BY <3>2, OpenStays
    <3> QED BY <3>1, <3>3
  <2>3. x.pair = stack[n].pair
    BY <1>4 DEF Swaps, Peak
  <2>4. \A i \in 1 .. n : stack'[i].pair = CalleeAt(i)'
    <3>1. TAKE i \in 1 .. n
    <3>2. i = n \/ i \in 1 .. n - 1
      BY <1>1
    <3> QED BY <1>1, <2>1, <2>2, <2>3, <3>2
  <2>5. Calls' => ctl'.pair = Current'
    <3>1. ctl' = Call(Callee(x))
      BY <1>4 DEF Swaps
    <3>2. Current' = Callee(x)'
      BY <2>1 DEF Current, CalleeAt
    <3>3. Callee(x)' = Callee(x)
      BY CalleeStays
    <3> QED BY <3>1, <3>2, <3>3 DEF Call
  <2> QED BY <2>1, <2>4, <2>5 DEF Chain
<1>5. CASE Pops
  <2>1. /\ Len(stack') = n - 1 /\ n \in Nat \ {0}
        /\ \A i \in 1 .. n - 1 : stack'[i] = stack[i]
    BY <1>5, PoppedStack
  <2>2. \A i \in 1 .. n : CalleeAt(i)' = CalleeAt(i)
    <3>1. PICK m \in Nat : n = m + 1
      BY <2>1
    <3>2. \A i \in 1 .. m : stack'[i] = stack[i]
      BY <2>1, <3>1
    <3>3. \A i \in 1 .. m + 1 : CalleeAt(i)' = CalleeAt(i)
      BY <3>2, OpenStays
    <3> QED BY <3>1, <3>3
  <2>3. ~Calls'
    BY <1>5 DEF Pops, Calls
  <2>4. \A i \in 1 .. n - 1 : i \in 1 .. n
    BY <1>1
  <2> QED BY <1>1, <2>1, <2>2, <2>3, <2>4 DEF Chain
<1> QED BY <1>2, <1>3, <1>4, <1>5 DEF Moves

\* The pairs of the calls under way.
LEMMA OpenPushed ==
  ASSUME Typed, NEW x, Pushes(x), UNCHANGED <<gdoc, sdoc>>
  PROVE  /\ \A i \in 1 .. Len(stack) + 1 : Open(i)' = Open(i)
         /\ Open(Len(stack) + 1)' = Open(Len(stack) + 1) \cup {x.pair}
<1>1. PICK n \in Nat : n = Len(stack)
  BY TypedParts
<1>2. Len(stack') = n + 1 /\ stack'[n + 1] = x /\ \A i \in 1 .. n : stack'[i] = stack[i]
  BY <1>1, PushedStack
<1>3. \A i \in 1 .. n + 1 : Open(i)' = Open(i)
  BY <1>2, OpenStays
<1>4. \A j : j \in 1 .. n + 1 <=> j \in 1 .. n \/ j = n + 1
  BY <1>1
<1>5. Open(Len(stack) + 1)' = {stack'[j].pair : j \in 1 .. n + 1}
  BY <1>2 DEF Open
<1>6. Open(Len(stack) + 1) = {stack[j].pair : j \in 1 .. n}
  BY <1>1 DEF Open
<1>7. Open(Len(stack) + 1)' = Open(Len(stack) + 1) \cup {x.pair}
  BY <1>2, <1>4, <1>5, <1>6
<1> QED BY <1>1, <1>3, <1>7

LEMMA OpenTop ==
  ASSUME Typed, stack # <<>>
  PROVE  /\ Open(Len(stack) + 1) = Open(Len(stack)) \cup {Peak.pair}
         /\ \A i \in 1 .. Len(stack) : Open(i) \subseteq Open(Len(stack))
         /\ \A i, j \in 1 .. Len(stack) + 1 : i <= j => Open(i) \subseteq Open(j)
<1> DEFINE n == Len(stack)
<1>1. n \in Nat \ {0}
  BY TypedParts
<1>2. \A j : j \in 1 .. n <=> j \in 1 .. n - 1 \/ j = n
  BY <1>1
<1>3. Open(n + 1) = {stack[j].pair : j \in 1 .. n}
  BY <1>1 DEF Open
<1>4. Open(n) = {stack[j].pair : j \in 1 .. n - 1}
  BY <1>1 DEF Open
<1>5. Open(n + 1) = Open(n) \cup {Peak.pair}
  BY <1>2, <1>3, <1>4 DEF Peak
<1>6. ASSUME NEW i \in 1 .. n + 1, NEW j \in 1 .. n + 1, i <= j
      PROVE  Open(i) \subseteq Open(j)
  <2>1. \A k \in 1 .. i - 1 : k \in 1 .. j - 1
    BY <1>1, <1>6
  <2> QED BY <2>1 DEF Open
<1>7. \A i \in 1 .. n : i \in 1 .. n + 1 /\ n \in 1 .. n + 1 /\ i <= n
  BY <1>1
<1> QED BY <1>5, <1>6, <1>7

LEMMA OpenSwapped ==
  ASSUME Typed, NEW x, Swaps(x), UNCHANGED <<gdoc, sdoc>>
  PROVE  /\ \A i \in 1 .. Len(stack) + 1 : Open(i)' = Open(i)
         /\ Open(Len(stack) + 1)' = Open(Len(stack) + 1)
<1>1. PICK n \in Nat \ {0} : n = Len(stack)
  BY SwappedStack
<1>2. /\ Len(stack') = n /\ stack'[n] = x /\ x.pair = stack[n].pair
      /\ \A i \in 1 .. n - 1 : stack'[i] = stack[i]
  BY <1>1, SwappedStack DEF Swaps, Peak
<1>3. \A j \in 1 .. n : stack'[j].pair = stack[j].pair
  <2>1. TAKE j \in 1 .. n
  <2>2. j = n \/ j \in 1 .. n - 1
    OBVIOUS
  <2> QED BY <1>2, <2>2
<1>4. \A i \in 1 .. n + 1 : \A j \in 1 .. i - 1 : j \in 1 .. n
  OBVIOUS
<1>5. \A i \in 1 .. n + 1 : Open(i)' = Open(i)
  BY <1>3, <1>4 DEF Open
<1>6. Open(Len(stack) + 1)' = {stack'[j].pair : j \in 1 .. n}
  BY <1>2 DEF Open
<1>7. Open(Len(stack) + 1) = {stack[j].pair : j \in 1 .. n}
  BY <1>1 DEF Open
<1>8. {stack'[j].pair : j \in 1 .. n} = {stack[j].pair : j \in 1 .. n}
  BY <1>3
<1>9. Open(Len(stack) + 1)' = Open(Len(stack) + 1)
  BY <1>6, <1>7, <1>8
<1> QED BY <1>1, <1>5, <1>9

LEMMA OpenPopped ==
  ASSUME Typed, Pops, UNCHANGED <<gdoc, sdoc>>
  PROVE  /\ \A i \in 1 .. Len(stack) : Open(i)' = Open(i)
         /\ Open(Len(stack) + 1)' = Open(Len(stack))
         /\ Open(Len(stack) + 1) = Open(Len(stack)) \cup {Peak.pair}
<1>1. PICK m \in Nat : /\ Len(stack) = m + 1 /\ Len(stack') = m
                       /\ \A i \in 1 .. m : stack'[i] = stack[i]
  <2>1. /\ Len(stack) \in Nat \ {0} /\ Len(stack') = Len(stack) - 1
        /\ \A i \in 1 .. Len(stack') : stack'[i] = stack[i]
    BY PoppedStack
  <2>2. Len(stack) - 1 \in Nat /\ Len(stack) = (Len(stack) - 1) + 1
    BY <2>1
  <2> QED BY <2>1, <2>2
<1>2. \A i \in 1 .. m + 1 : Open(i)' = Open(i)
  BY <1>1, OpenStays
<1>3. Open(Len(stack) + 1)' = {stack'[j].pair : j \in 1 .. m}
  BY <1>1 DEF Open
<1>4. Open(Len(stack)) = {stack[j].pair : j \in 1 .. m}
  BY <1>1 DEF Open
<1> QED BY <1>1, <1>2, <1>3, <1>4, OpenTop DEF Pops

LEMMA SpinePushed ==
  ASSUME Typed, Spine, NEW x, Pushes(x), UNCHANGED <<gdoc, sdoc>>,
         x.is = "bag" => x.unfolding = unfolding,
         x.is \in {"every", "some"} /\ Recurs(x.pair) => x.pair \in unfolding,
         \A p \in unfolding' : Recurs(p) /\ p \in unfolding \cup {x.pair}
  PROVE  Spine'
<1>1. PICK n \in Nat : n = Len(stack)
  BY TypedParts
<1>2. Len(stack') = n + 1 /\ stack'[n + 1] = x /\ \A i \in 1 .. n : stack'[i] = stack[i]
  BY <1>1, PushedStack
<1>3. /\ \A i \in 1 .. n + 1 : Open(i)' = Open(i)
      /\ Open(Len(stack) + 1)' = Open(n + 1) \cup {x.pair}
  BY <1>1, OpenPushed
<1>4. \A p \in unfolding : p \in Open(n + 1) /\ Recurs(p)
  BY <1>1 DEF Spine
<1>5. \A i \in 1 .. n + 1 : i = n + 1 \/ i \in 1 .. n
  OBVIOUS
<1>6. ASSUME NEW i \in 1 .. n + 1, stack'[i].is = "bag", NEW p \in stack'[i].unfolding
      PROVE  p \in Open(i)' /\ Recurs(p)
  <2>1. CASE i = n + 1
    BY <1>2, <1>3, <1>4, <1>6, <2>1
  <2>2. CASE i \in 1 .. n
    BY <1>1, <1>2, <1>3, <1>6, <2>2 DEF Spine, BagAt
  <2> QED BY <1>5, <2>1, <2>2
<1>7. ASSUME NEW i \in 1 .. n + 1, stack'[i].is \in {"every", "some"}, Recurs(stack'[i].pair)
      PROVE  stack'[i].pair \in Open(i)'
  <2>1. CASE i = n + 1
    BY <1>2, <1>3, <1>4, <1>7, <2>1
  <2>2. CASE i \in 1 .. n
    BY <1>1, <1>2, <1>3, <1>7, <2>2 DEF Spine, Distributes
  <2> QED BY <1>5, <2>1, <2>2
<1>8. \A p \in unfolding' : p \in Open(Len(stack) + 1)' /\ Recurs(p)
  BY <1>3, <1>4
<1> QED BY <1>2, <1>6, <1>7, <1>8 DEF Spine, BagAt, Distributes

LEMMA SpineSwapped ==
  ASSUME Typed, Spine, NEW x, Swaps(x), UNCHANGED <<gdoc, sdoc, unfolding>>
  PROVE  Spine'
<1>1. PICK n \in Nat \ {0} : n = Len(stack)
  BY SwappedStack
<1>2. Len(stack') = n /\ stack'[n] = x /\ \A i \in 1 .. n - 1 : stack'[i] = stack[i]
  BY <1>1, SwappedStack
<1>3. /\ \A i \in 1 .. n + 1 : Open(i)' = Open(i)
      /\ Open(Len(stack) + 1)' = Open(n + 1)
  BY <1>1, OpenSwapped
<1>4. /\ x.is = stack[n].is /\ x.pair = stack[n].pair
      /\ x.is = "bag" => x.unfolding = stack[n].unfolding
  BY <1>1 DEF Swaps, Peak
<1>5. \A i \in 1 .. n : /\ stack'[i].is = stack[i].is /\ stack'[i].pair = stack[i].pair
                        /\ stack'[i].is = "bag" => stack'[i].unfolding = stack[i].unfolding
                        /\ Open(i)' = Open(i)
  <2>1. TAKE i \in 1 .. n
  <2>2. i = n \/ i \in 1 .. n - 1
    OBVIOUS
  <2> QED BY <1>2, <1>3, <1>4, <2>2
<1>6. \A p \in unfolding' : p \in Open(Len(stack) + 1)' /\ Recurs(p)
  BY <1>1, <1>3 DEF Spine
<1>7. \A i \in 1 .. n : stack'[i].is = "bag" =>
        \A p \in stack'[i].unfolding : p \in Open(i)' /\ Recurs(p)
  BY <1>1, <1>5 DEF Spine, BagAt
<1>8. \A i \in 1 .. n : stack'[i].is \in {"every", "some"} /\ Recurs(stack'[i].pair)
                          => stack'[i].pair \in Open(i)'
  BY <1>1, <1>5 DEF Spine, Distributes
<1> QED BY <1>2, <1>6, <1>7, <1>8 DEF Spine, BagAt, Distributes

LEMMA SpinePopped ==
  ASSUME Typed, Spine, Pops, UNCHANGED <<gdoc, sdoc>>,
         \A p \in unfolding' : p \in Open(Len(stack)) /\ Recurs(p)
  PROVE  Spine'
<1>1. PICK n \in Nat \ {0} : n = Len(stack)
  BY PoppedStack
<1>2. Len(stack') = n - 1 /\ \A i \in 1 .. n - 1 : stack'[i] = stack[i]
  BY <1>1, PoppedStack
<1>3. /\ \A i \in 1 .. n : Open(i)' = Open(i)
      /\ Open(Len(stack) + 1)' = Open(n)
  BY <1>1, OpenPopped
<1>4. \A i \in 1 .. n - 1 : i \in 1 .. n /\ stack'[i] = stack[i] /\ Open(i)' = Open(i)
  <2>1. \A i \in 1 .. n - 1 : i \in 1 .. n
    OBVIOUS
  <2> QED BY <1>2, <1>3, <2>1
<1>5. \A i \in 1 .. n - 1 : stack'[i].is = "bag" =>
        \A p \in stack'[i].unfolding : p \in Open(i)' /\ Recurs(p)
  BY <1>1, <1>4 DEF Spine, BagAt
<1>6. \A i \in 1 .. n - 1 : stack'[i].is \in {"every", "some"} /\ Recurs(stack'[i].pair)
                              => stack'[i].pair \in Open(i)'
  BY <1>1, <1>4 DEF Spine, Distributes
<1>7. \A p \in unfolding' : p \in Open(Len(stack) + 1)' /\ Recurs(p)
  BY <1>1, <1>3
<1> QED BY <1>2, <1>5, <1>6, <1>7 DEF Spine, BagAt, Distributes

LEMMA SpineStep ==
  ASSUME PathInv, Next
  PROVE  Spine'
<1>1. Typed /\ Counted /\ Spine /\ UNCHANGED <<gdoc, sdoc>>
  BY DocsStay DEF PathInv, TypeInv
<1>2. \A p \in unfolding : p \in Open(Len(stack) + 1) /\ Recurs(p)
  BY <1>1 DEF Spine
<1>3. CASE Answer \/ Recall \/ Assume
  <2>1. UNCHANGED <<stack, unfolding>>
    BY <1>3 DEF Answer, Recall, Assume
  <2> QED BY <1>1, <2>1 DEF Spine, BagAt, Distributes, Open
<1>4. CASE Unfold
  <2> DEFINE x == [is |-> "unfold", pair |-> ctl.pair]
  <2>1. Pushes(x) /\ unfolding' = unfolding \cup {x.pair} /\ Recurs(x.pair) /\ x.is = "unfold"
    BY <1>1, <1>4, UnfoldMoves DEF Unfold, Unfolds, Recurs
  <2> HIDE DEF x
  <2> QED BY <1>1, <1>2, <2>1, SpinePushed
<1>5. CASE Folded
  <2>1. Pops /\ unfolding' = unfolding \ {Peak.pair}
    BY <1>1, <1>5, FoldedMoves DEF Folded
  <2>2. Open(Len(stack) + 1) = Open(Len(stack)) \cup {Peak.pair}
    BY <1>1, <2>1, OpenPopped
  <2> QED BY <1>1, <1>2, <2>1, <2>2, SpinePopped
<1>6. ASSUME NEW x, Pushes(x), Walks, UNCHANGED unfolding, x.is \in {"every", "some"}
      PROVE  Spine'
  <2>1. Recurs(x.pair) => x.pair \in unfolding
    BY <1>6 DEF Walks, Unfolds, Recurs, Pushes
  <2> QED BY <1>1, <1>2, <1>6, <2>1, SpinePushed
<1>7. CASE DistributeEvery
  <2>1. PICK k \in KeysOf(ctl.pair[2].form) :
          Pushes([is |-> "every", pair |-> ctl.pair, now |-> k,
                  todo |-> KeysOf(ctl.pair[2].form) \ {k}, out |-> "yes"])
    BY <1>1, <1>7, EveryMoves
  <2> QED BY <1>6, <1>7, <2>1 DEF DistributeEvery
<1>8. CASE DistributeSome
  <2>1. PICK k \in KeysOf(ctl.pair[1].form) :
          Pushes([is |-> "some", pair |-> ctl.pair, now |-> k,
                  todo |-> KeysOf(ctl.pair[1].form) \ {k}])
    BY <1>1, <1>8, SomeMoves
  <2> QED BY <1>6, <1>8, <2>1 DEF DistributeSome
<1>9. CASE Enter
  <2>1. Pushes(EnterFrame) /\ EnterFrame.is = "bag" /\ EnterFrame.unfolding = unfolding
        /\ unfolding' = {}
    BY <1>1, <1>9, EnterMoves DEF Enter, EnterFrame
  <2> QED BY <1>1, <2>1, SpinePushed
<1>10. ASSUME NEW x, Swaps(x), UNCHANGED unfolding
       PROVE  Spine'
  BY <1>1, <1>10, SpineSwapped
<1>11. ASSUME Pops, UNCHANGED unfolding, Distributes(Len(stack))
       PROVE  Spine'
  <2>1. Open(Len(stack) + 1) = Open(Len(stack)) \cup {Peak.pair}
    BY <1>1, <1>11, OpenPopped
  <2>2. Recurs(Peak.pair) => Peak.pair \in Open(Len(stack))
    <3>1. Len(stack) \in 1 .. Len(stack)
      BY <1>1, <1>11, PoppedStack
    <3> QED BY <1>1, <1>11, <3>1 DEF Spine, Peak
  <2> QED BY <1>1, <1>2, <1>11, <2>1, <2>2, SpinePopped
<1>12. CASE EveryNext
  <2>1. UNCHANGED unfolding /\ Distributes(Len(stack))
    BY <1>12 DEF EveryNext, Returns, Distributes
  <2>2. Pops \/ \E x : Swaps(x)
    BY <1>1, <1>12, EveryNextMoves
  <2> QED BY <1>10, <1>11, <2>1, <2>2
<1>13. CASE SomeNext
  <2>1. UNCHANGED unfolding /\ Distributes(Len(stack))
    BY <1>13 DEF SomeNext, Returns, Distributes
  <2>2. Pops \/ \E x : Swaps(x)
    BY <1>1, <1>13, SomeNextMoves
  <2> QED BY <1>10, <1>11, <2>1, <2>2
<1>14. CASE Member
  <2>1. PICK x : Swaps(x)
    BY <1>1, <1>14, MemberMoves
  <2> QED BY <1>10, <1>14, <2>1 DEF Member
<1>15. CASE Settle
  <2>1. Pops /\ unfolding' = Peak.unfolding /\ stack # <<>> /\ Peak.is = "bag"
    BY <1>1, <1>15, SettleMoves DEF Settle, Returns, Peak
  <2>2. Len(stack) \in 1 .. Len(stack)
    BY <1>1, <2>1, PoppedStack
  <2>3. \A p \in unfolding' : p \in Open(Len(stack)) /\ Recurs(p)
    BY <1>1, <2>1, <2>2 DEF Spine, BagAt, Peak
  <2> QED BY <1>1, <2>1, <2>3, SpinePopped
<1> QED BY <1>3, <1>4, <1>5, <1>7, <1>8, <1>9, <1>12, <1>13, <1>14, <1>15 DEF Next

LEMMA PathStart == Init => PathInv
<1>1. SUFFICES ASSUME Init PROVE PathInv
  OBVIOUS
<1>2. TypeInv /\ stack = <<>> /\ unfolding = {} /\ ctl = Call(Asked(gdoc, sdoc))
  BY <1>1, TypeStart DEF Init
<1>3. Len(stack) = 0 /\ 1 .. Len(stack) = {}
  BY <1>2
<1>4. Current = Asked(gdoc, sdoc)
  BY <1>3 DEF Current, CalleeAt
<1>5. Chain
  BY <1>2, <1>3, <1>4 DEF Chain, Call
<1>6. Spine
  BY <1>2, <1>3 DEF Spine
<1> QED BY <1>2, <1>5, <1>6 DEF PathInv

LEMMA PathStep == PathInv /\ [Next]_vars => PathInv'
<1>1. SUFFICES ASSUME PathInv, [Next]_vars PROVE PathInv'
  OBVIOUS
<1>2. TypeInv'
  BY <1>1, TypeStep DEF PathInv
<1>3. CASE Next
  <2>1. Spine'
    BY <1>1, <1>3, SpineStep
  <2>2. Chain'
    BY <1>1, <1>3, ChainStep, NextMoves, DocsStay DEF PathInv, TypeInv
  <2> QED BY <1>2, <2>1, <2>2 DEF PathInv
<1>4. CASE UNCHANGED vars
  <2>1. UNCHANGED <<stack, ctl, unfolding, gdoc, sdoc>>
    BY <1>4 DEF vars
  <2>2. Spine'
    BY <1>1, <2>1 DEF PathInv, Spine, BagAt, Distributes, Open
  <2>3. Chain'
    BY <1>1, <2>1 DEF PathInv, Chain, CalleeAt, Callee, Current, Calls
  <2> QED BY <1>2, <2>2, <2>3 DEF PathInv
<1> QED BY <1>1, <1>3, <1>4

(***************************************************************************)
(* A yes is justified: by a set of pairs that the rules answer yes, given  *)
(* that those in it are.  While the walk runs, what is answered yes leans  *)
(* on the pairs that are open as well.                                     *)
(***************************************************************************)
Says(S) == [q \in Pairs |-> IF q \in S THEN "yes" ELSE "no"]
Simulation(S) == \A p \in S : Ruled(gdoc, sdoc, Says(S), p) = "yes"

Backed(S, p) ==
  LET g == p[1]
      s == p[2]
  IN  IF Recurs(p) THEN Unfolded(gdoc, sdoc, p) \in S
      ELSE IF Outright(g.form, s.form) # "walk" THEN Outright(g.form, s.form) = "yes"
      ELSE IF s.form.is = "alts" THEN \A k \in KeysOf(s.form) : Every(p, k) \in S
      ELSE IF g.form.is = "alts" THEN \E k \in KeysOf(g.form) : Some(p, k) \in S
      ELSE ~BagFault(g.form, s.form) /\ Tasks(g, s) \subseteq S

LEMMA BackedMore ==
  ASSUME NEW S, NEW T, S \subseteq T, NEW p, Backed(S, p)
  PROVE  Backed(T, p)
BY DEF Backed

LEMMA BackedStays ==
  ASSUME UNCHANGED <<gdoc, sdoc>>
  PROVE  \A S, p : Backed(S, p)' <=> Backed(S, p)
BY DEF Backed

LEMMA WorstYes ==
  ASSUME NEW A, \A a \in A : a = "yes"
  PROVE  Worst(A) = "yes"
BY DEF Worst

LEMMA BackedRuled ==
  ASSUME gdoc \in Docs, sdoc \in Docs, NEW S, NEW p \in Pairs, Backed(S, p),
         NEW answer, \A q \in Pairs \intersect S : answer[q] = "yes"
  PROVE  Ruled(gdoc, sdoc, answer, p) = "yes"
<1> DEFINE g == p[1]
           s == p[2]
<1>1. \A q \in Pairs : q \in S => answer[q] = "yes"
  OBVIOUS
<1>2. CASE Recurs(p)
  <2>1. Unfolded(gdoc, sdoc, p) \in S /\ Unfolded(gdoc, sdoc, p) \in Pairs
    BY <1>2, PairFacts DEF Backed
  <2>2. answer[Unfolded(gdoc, sdoc, p)] = "yes"
    BY <1>1, <2>1
  <2> QED BY <1>2, <2>2 DEF Ruled, Recurs
<1>3. CASE ~Recurs(p) /\ Outright(g.form, s.form) # "walk"
  BY <1>3 DEF Backed, Ruled, Recurs
<1>4. CASE ~Recurs(p) /\ Outright(g.form, s.form) = "walk" /\ s.form.is = "alts"
  <2> DEFINE A == {IF answer[Every(p, k)] = "yes" THEN "yes"
                   ELSE IF IsConcrete(s.form.at[k]) THEN "no" ELSE "undecided" : k \in KeysOf(s.form)}
  <2>1. \A k \in KeysOf(s.form) : Every(p, k) \in S /\ Every(p, k) \in Pairs
    BY <1>4, PairFacts DEF Backed
  <2>2. \A k \in KeysOf(s.form) : answer[Every(p, k)] = "yes"
    BY <1>1, <2>1
  <2>3. \A a \in A : a = "yes"
    BY <2>2
  <2>4. Ruled(gdoc, sdoc, answer, p) = Worst(A)
    BY <1>4 DEF Ruled, Recurs
  <2> QED BY <2>3, <2>4, WorstYes
<1>5. CASE /\ ~Recurs(p) /\ Outright(g.form, s.form) = "walk" /\ s.form.is # "alts"
           /\ g.form.is = "alts"
  <2>1. PICK k \in KeysOf(g.form) : Some(p, k) \in S
    BY <1>5 DEF Backed
  <2>2. answer[Some(p, k)] = "yes"
    BY <1>1, <1>5, <2>1, PairFacts
  <2> QED BY <1>5, <2>2 DEF Ruled, Recurs
<1>6. CASE /\ ~Recurs(p) /\ Outright(g.form, s.form) = "walk" /\ s.form.is # "alts"
           /\ g.form.is # "alts"
  <2> DEFINE A == {answer[task] : task \in Tasks(g, s)}
                    \union {IF BagFault(g.form, s.form) THEN "no" ELSE "yes"}
  <2>1. ~BagFault(g.form, s.form) /\ Tasks(g, s) \subseteq S
    BY <1>6 DEF Backed
  <2>2. Tasks(g, s) \subseteq Pairs
    BY <1>6, PairFacts DEF Walked
  <2>3. \A task \in Tasks(g, s) : answer[task] = "yes"
    BY <1>1, <2>1, <2>2
  <2>4. \A a \in A : a = "yes"
    BY <2>1, <2>3
  <2>5. Ruled(gdoc, sdoc, answer, p) = Worst(A)
    BY <1>6 DEF Ruled, Recurs
  <2> QED BY <2>4, <2>5, WorstYes
<1> QED BY <1>2, <1>3, <1>4, <1>5, <1>6

\* What a call that may still answer yes has found.
Finished(f, R) ==
  /\ f.is = "bag" /\ f.out = "yes" =>
       /\ ~BagFault(f.pair[1].form, f.pair[2].form)
       /\ Tasks(f.pair[1], f.pair[2]) \subseteq R \union f.todo \union {f.now}
  /\ f.is = "every" /\ f.out = "yes" =>
       \A k \in KeysOf(f.pair[2].form) : k \in f.todo \union {f.now} \/ Every(f.pair, k) \in R

LEMMA FinishedMore ==
  ASSUME NEW S, NEW T, S \subseteq T, NEW f, Finished(f, S)
  PROVE  Finished(f, T)
<1>1. f.is = "bag" /\ f.out = "yes" =>
        /\ ~BagFault(f.pair[1].form, f.pair[2].form)
        /\ Tasks(f.pair[1], f.pair[2]) \subseteq T \union f.todo \union {f.now}
  BY DEF Finished
<1>2. f.is = "every" /\ f.out = "yes" =>
        \A k \in KeysOf(f.pair[2].form) : k \in f.todo \union {f.now} \/ Every(f.pair, k) \in T
  BY DEF Finished
<1> QED BY <1>1, <1>2 DEF Finished

\* A bag that is not inside a choice and does not answer well: neither will
\* the whole walk.
Fails(ok) ==
  \/ \E i \in 1 .. Len(stack) :
       BagAt(i) /\ stack[i].out \notin ok /\ \A j \in 1 .. i : ~Distributes(j)
  \/ ctl.go = "return" /\ ctl.out \notin ok /\ ~Distributing
Broken == Fails({"yes"})

Known == {p \in DOMAIN settled : settled[p] = "yes"} \union DOMAIN pending

Shows(Y) ==
  /\ Y \in [1 .. Len(stack) + 1 -> SUBSET Pairs]
  /\ \A i, j \in 1 .. Len(stack) + 1 : i <= j => Y[i] \subseteq Y[j]
  /\ \A i \in 1 .. Len(stack) + 1 : \A p \in Y[i] : Backed(Y[i] \union Open(i), p)
  /\ \A i \in 1 .. Len(stack) : Finished(stack[i], Y[i + 1] \union Open(i + 1))
  /\ ctl.go = "return" /\ ctl.out = "yes" =>
       Current \in Y[Len(stack) + 1] \union Open(Len(stack) + 1)
  /\ \A i \in 1 .. Len(stack) + 1 : i = Len(stack) + 1 \/ Distributes(i) => Known \subseteq Y[i] \union Open(i)

Justified == Broken \/ \E Y : Shows(Y)

\* The families of sets before and after a step differ at the top only.
LEMMA ShowsNext ==
  ASSUME Typed, NEW Y, Shows(Y), UNCHANGED <<gdoc, sdoc>>,
         NEW n \in Nat, n = Len(stack), NEW m \in Nat, m = Len(stack'), m <= n + 1,
         NEW top \in SUBSET Pairs, \A i \in 1 .. m : Y[i] \subseteq top,
         NEW R, R = top \union Open(Len(stack) + 1)',
         \A p \in top : Backed(R, p),
         \A i \in 1 .. m : Open(i)' = Open(i),
         \A i \in 1 .. m - 1 : stack'[i] = stack[i],
         m # 0 => Finished(stack'[m], R),
         ctl'.go = "return" /\ ctl'.out = "yes" => Current' \in R,
         Known' \subseteq R,
         \A i \in 1 .. m : Distributes(i)' => Known' \subseteq Y[i] \union Open(i)
  PROVE  \E Z : Shows(Z)'
<1> DEFINE Z == [i \in 1 .. m + 1 |-> IF i = m + 1 THEN top ELSE Y[i]]
<1>1. /\ Y \in [1 .. n + 1 -> SUBSET Pairs]
      /\ \A i, j \in 1 .. n + 1 : i <= j => Y[i] \subseteq Y[j]
      /\ \A i \in 1 .. n + 1 : \A p \in Y[i] : Backed(Y[i] \union Open(i), p)
      /\ \A i \in 1 .. n : Finished(stack[i], Y[i + 1] \union Open(i + 1))
  BY DEF Shows
<1>2. /\ \A i \in 1 .. m + 1 : i = m + 1 \/ i \in 1 .. m
      /\ \A i \in 1 .. m : i \in 1 .. n + 1 /\ i # m + 1 /\ i \in 1 .. m + 1
      /\ m + 1 \in 1 .. m + 1
  OBVIOUS
<1>3. Z[m + 1] = top /\ \A i \in 1 .. m : Z[i] = Y[i]
  BY <1>2
<1>4. Z \in [1 .. m + 1 -> SUBSET Pairs]
  BY <1>1, <1>2
<1> HIDE DEF Z
<1>5. ASSUME NEW i \in 1 .. m + 1, NEW j \in 1 .. m + 1, i <= j
      PROVE  Z[i] \subseteq Z[j]
  <2>1. CASE j = m + 1
    BY <1>2, <1>3, <2>1
  <2>2. CASE j \in 1 .. m
    <3>1. i \in 1 .. m
      BY <1>5, <2>2
    <3> QED BY <1>1, <1>2, <1>3, <1>5, <2>2, <3>1
  <2> QED BY <1>2, <2>1, <2>2
<1>6. Open(m + 1)' = Open(Len(stack) + 1)'
  BY DEF Open
<1>7. \A i \in 1 .. m + 1 : \A p \in Z[i] : Backed(Z[i] \union Open(i)', p)
  <2>1. TAKE i \in 1 .. m + 1
  <2>2. TAKE p \in Z[i]
  <2>3. CASE i = m + 1
    BY <1>3, <1>6, <2>3
  <2>4. CASE i \in 1 .. m
    BY <1>1, <1>2, <1>3, <2>4
  <2> QED BY <1>2, <2>3, <2>4
<1>8. \A i \in 1 .. m : Finished(stack'[i], Z[i + 1] \union Open(i + 1)')
  <2>1. TAKE i \in 1 .. m
  <2>2. CASE i = m
    <3>1. Z[i + 1] \union Open(i + 1)' = R
      BY <1>3, <1>6, <2>2
    <3>2. Finished(stack'[i], R)
      BY <2>2
    <3> QED BY <3>1, <3>2
  <2>3. CASE i # m
    <3>1. i \in 1 .. m - 1 /\ i + 1 \in 1 .. m /\ i \in 1 .. n
      BY <2>3
    <3>2. /\ stack'[i] = stack[i] /\ Z[i + 1] = Y[i + 1] /\ Open(i + 1)' = Open(i + 1)
      BY <1>3, <3>1
    <3> QED BY <1>1, <3>1, <3>2
  <2> QED BY <2>2, <2>3
<1>9. \A i \in 1 .. m + 1 : (i = m + 1 \/ Distributes(i)') => Known' \subseteq Z[i] \union Open(i)'
  <2>1. TAKE i \in 1 .. m + 1
  <2>2. CASE i = m + 1
    BY <1>3, <1>6, <2>2
  <2>3. CASE i \in 1 .. m
    BY <1>2, <1>3, <2>3
  <2> QED BY <1>2, <2>2, <2>3
<1>10. Pairs' = Pairs
  BY DEF Pairs
<1>11. \A S, p : Backed(S, p)' <=> Backed(S, p)
  BY BackedStays
<1>12. \A i \in 1 .. m + 1 : \A p \in Z[i] : Backed(Z[i] \union Open(i), p)'
  BY <1>7 DEF Backed
<1>13. \A i \in 1 .. m : Finished(stack[i], Z[i + 1] \union Open(i + 1))'
  BY <1>8
<1>14. ctl'.go = "return" /\ ctl'.out = "yes" => Current' \in Z[m + 1] \union Open(m + 1)'
  BY <1>3, <1>6
<1>15. Shows(Z)'
  <2>1. Len(stack)' = m
    OBVIOUS
  <2>2. (Z \in [1 .. Len(stack) + 1 -> SUBSET Pairs])'
    BY <1>4, <1>10, <2>1
  <2>3. (\A i, j \in 1 .. Len(stack) + 1 : i <= j => Z[i] \subseteq Z[j])'
    BY <1>5, <2>1
  <2>4. (\A i \in 1 .. Len(stack) + 1 : \A p \in Z[i] : Backed(Z[i] \union Open(i), p))'
    BY <1>12, <2>1
  <2>5. (\A i \in 1 .. Len(stack) : Finished(stack[i], Z[i + 1] \union Open(i + 1)))'
    BY <1>13, <2>1
  <2>6. (ctl.go = "return" /\ ctl.out = "yes" =>
           Current \in Z[Len(stack) + 1] \union Open(Len(stack) + 1))'
    BY <1>6, <1>14, <2>1
  <2>7. (\A i \in 1 .. Len(stack) + 1 :
           i = Len(stack) + 1 \/ Distributes(i) => Known \subseteq Z[i] \union Open(i))'
    BY <1>9, <2>1
  <2> QED BY <2>2, <2>3, <2>4, <2>5, <2>6, <2>7 DEF Shows
<1> QED BY <1>15

LEMMA ShowsTop ==
  ASSUME Typed, NEW Y, Shows(Y), NEW n \in Nat, n = Len(stack)
  PROVE  /\ Y[n + 1] \in SUBSET Pairs
         /\ \A i \in 1 .. n + 1 : Y[i] \subseteq Y[n + 1] /\ Y[i] \in SUBSET Pairs
         /\ \A p \in Y[n + 1] : Backed(Y[n + 1] \union Open(n + 1), p)
         /\ \A i \in 1 .. n : Finished(stack[i], Y[i + 1] \union Open(i + 1))
         /\ ctl.go = "return" /\ ctl.out = "yes" => Current \in Y[n + 1] \union Open(n + 1)
         /\ Known \subseteq Y[n + 1] \union Open(n + 1)
         /\ \A i \in 1 .. n : Distributes(i) => Known \subseteq Y[i] \union Open(i)
<1>1. n + 1 \in 1 .. n + 1 /\ \A i \in 1 .. n : i \in 1 .. n + 1
  OBVIOUS
<1>2. \A i \in 1 .. n + 1 : i <= n + 1
  OBVIOUS
<1> QED BY <1>1, <1>2 DEF Shows

LEMMA ShowsAnswer ==
  ASSUME Typed, Chain, NEW Y, Shows(Y), Answers, UNCHANGED <<gdoc, sdoc, settled, pending>>,
         NEW n \in Nat, n = Len(stack),
         ctl'.out = "yes" => \/ ctl.pair \in Y[n + 1] \union Open(n + 1)
                             \/ Backed(Y[n + 1] \union Open(n + 1), ctl.pair)
  PROVE  \E Z : Shows(Z)'
<1> DEFINE p == ctl.pair
           below == Y[n + 1] \union Open(n + 1)
           top == Y[n + 1] \union (IF Backed(below, p) THEN {p} ELSE {})
           R == top \union Open(n + 1)
<1>1. /\ Y[n + 1] \in SUBSET Pairs
      /\ \A i \in 1 .. n : Y[i] \subseteq Y[n + 1]
      /\ \A q \in Y[n + 1] : Backed(below, q)
      /\ \A i \in 1 .. n : Finished(stack[i], Y[i + 1] \union Open(i + 1))
      /\ Known \subseteq below
      /\ \A i \in 1 .. n : Distributes(i) => Known \subseteq Y[i] \union Open(i)
  <2>1. \A i \in 1 .. n : i \in 1 .. n + 1
    OBVIOUS
  <2> QED BY <2>1, ShowsTop
<1>2. /\ Calls /\ p \in Pairs /\ p = Current /\ stack' = stack /\ n = Len(stack')
      /\ ctl' \in [go : {"return"}, out : Tri]
  BY TypedParts DEF Answers, Chain
<1>3. top \in SUBSET Pairs /\ below \subseteq R /\ \A i \in 1 .. n : Y[i] \subseteq top
  BY <1>1, <1>2
<1>4. \A i \in 1 .. n + 1 : Open(i)' = Open(i) /\ CalleeAt(i)' = CalleeAt(i)
  BY <1>2, OpenStays
<1>5. n + 1 \in 1 .. n + 1
  OBVIOUS
<1>6. Open(Len(stack) + 1)' = Open(n + 1) /\ Current' = Current
  BY <1>2, <1>4, <1>5 DEF Open, Current
<1>7. \A q \in top : Backed(R, q)
  <2>1. ASSUME NEW q \in top PROVE Backed(below, q)
    BY <1>1, <2>1
  <2> HIDE DEF top, R, below
  <2> QED BY <1>3, <2>1, BackedMore
<1>8. R = top \union Open(Len(stack) + 1)'
  BY <1>6
<1>9. n # 0 => Finished(stack'[n], R)
  <2>1. SUFFICES ASSUME n # 0 PROVE Finished(stack'[n], R)
    OBVIOUS
  <2>2. n \in 1 .. n
    BY <2>1
  <2>3. Finished(stack[n], below)
    BY <1>1, <2>2
  <2>4. stack'[n] = stack[n]
    BY <1>2
  <2> HIDE DEF R, below
  <2> QED BY <1>3, <2>3, <2>4, FinishedMore
<1>10. ctl'.go = "return" /\ ctl'.out = "yes" => Current' \in R
  <2>1. ctl'.out = "yes" => p \in below \/ Backed(below, p)
    OBVIOUS
  <2> QED BY <1>2, <1>3, <1>6, <2>1
<1>11. Known' = Known
  BY DEF Known
<1>12. \A i \in 1 .. n : Distributes(i)' => Known' \subseteq Y[i] \union Open(i)
  BY <1>1, <1>2, <1>11 DEF Distributes
<1>13. Known' \subseteq R
  BY <1>1, <1>3, <1>11
<1>14. \A i \in 1 .. n : Open(i)' = Open(i)
  BY <1>4
<1>15. n <= n + 1 /\ \A i \in 1 .. n - 1 : stack'[i] = stack[i]
  BY <1>2
<1>16. UNCHANGED <<gdoc, sdoc>>
  OBVIOUS
<1>17. PICK t \in SUBSET Pairs : t = top
  BY <1>3
<1>18. PICK r : r = R
  OBVIOUS
<1> HIDE DEF top, R, below, p
<1>19. /\ \A i \in 1 .. n : Y[i] \subseteq t
       /\ r = t \union Open(Len(stack) + 1)'
       /\ \A q \in t : Backed(r, q)
       /\ n # 0 => Finished(stack'[n], r)
       /\ ctl'.go = "return" /\ ctl'.out = "yes" => Current' \in r
       /\ Known' \subseteq r
  BY <1>3, <1>7, <1>8, <1>9, <1>10, <1>13, <1>17, <1>18
<1>20. n = Len(stack) /\ n = Len(stack') /\ n \in Nat
  BY <1>2
<1> QED BY <1>12, <1>14, <1>15, <1>16, <1>19, <1>20, ShowsNext

LEMMA ShowsPush ==
  ASSUME Typed, NEW Y, Shows(Y), NEW x, Pushes(x), UNCHANGED <<gdoc, sdoc, settled, pending>>,
         Finished(x, {})
  PROVE  \E Z : Shows(Z)'
<1>1. PICK n \in Nat : n = Len(stack)
  BY TypedParts
<1> DEFINE top == Y[n + 1]
           below == top \union Open(n + 1)
           R == top \union Open(Len(stack) + 1)'
<1>2. /\ top \in SUBSET Pairs
      /\ \A i \in 1 .. n + 1 : Y[i] \subseteq top
      /\ \A q \in top : Backed(below, q)
      /\ Known \subseteq below
      /\ \A i \in 1 .. n : Distributes(i) => Known \subseteq Y[i] \union Open(i)
  BY <1>1, ShowsTop
<1>3. Len(stack') = n + 1 /\ stack'[n + 1] = x /\ \A i \in 1 .. n : stack'[i] = stack[i]
  BY <1>1, PushedStack
<1>4. /\ \A i \in 1 .. n + 1 : Open(i)' = Open(i)
      /\ Open(Len(stack) + 1)' = Open(n + 1) \union {x.pair}
  BY <1>1, OpenPushed
<1>5. below \subseteq R
  BY <1>4
<1>6. \A q \in top : Backed(R, q)
  <2> HIDE DEF top, R, below
  <2> QED BY <1>2, <1>5, BackedMore
<1>7. Finished(stack'[n + 1], R)
  BY <1>3, FinishedMore
<1>8. ctl'.go = "return" /\ ctl'.out = "yes" => Current' \in R
  <2>1. SUFFICES ASSUME ctl'.go = "return" PROVE Current' \in R
    OBVIOUS
  <2>2. x.is = "bag" /\ x.now = x.pair
    BY <2>1 DEF Pushes, Call
  <2>3. Current' = Callee(x)'
    BY <1>3 DEF Current, CalleeAt
  <2>4. Callee(x)' = x.pair
    BY <2>2 DEF Callee
  <2>5. x.pair \in R
    BY <1>4
  <2> HIDE DEF R
  <2> QED BY <2>3, <2>4, <2>5
<1>9. Known' = Known
  BY DEF Known
<1>10. Known' \subseteq R
  BY <1>2, <1>5, <1>9
<1>11. \A i \in 1 .. n + 1 : Distributes(i)' => Known' \subseteq Y[i] \union Open(i)
  <2>1. TAKE i \in 1 .. n + 1
  <2>2. CASE i = n + 1
    BY <1>2, <1>9, <2>2
  <2>3. CASE i \in 1 .. n
    BY <1>2, <1>3, <1>9, <2>3 DEF Distributes
  <2> QED BY <2>2, <2>3
<1>12. /\ n + 1 \in Nat /\ n + 1 <= n + 1 /\ n + 1 = Len(stack')
       /\ \A i \in 1 .. (n + 1) - 1 : stack'[i] = stack[i]
  BY <1>3
<1>13. PICK r : r = R
  OBVIOUS
<1>14. PICK t \in SUBSET Pairs : t = top
  BY <1>2
<1> HIDE DEF top, R, below
<1>15. PICK m \in Nat : m = n + 1
  OBVIOUS
<1>16. r = t \union Open(Len(stack) + 1)'
  BY <1>13, <1>14 DEF R
<1> QED BY <1>1, <1>2, <1>4, <1>6, <1>7, <1>8, <1>10, <1>11, <1>12, <1>13, <1>14, <1>15, <1>16,
           ShowsNext

LEMMA ShowsSwap ==
  ASSUME Typed, NEW Y, Shows(Y), NEW x, Swaps(x), UNCHANGED <<gdoc, sdoc, settled, pending>>,
         Finished(x, Y[Len(stack) + 1] \union Open(Len(stack) + 1))
  PROVE  \E Z : Shows(Z)'
<1>1. PICK n \in Nat \ {0} : n = Len(stack)
  BY SwappedStack
<1>2. PICK top \in SUBSET Pairs : top = Y[n + 1]
  BY <1>1, ShowsTop
<1>3. PICK R : R = top \union Open(n + 1)
  OBVIOUS
<1>4. /\ \A i \in 1 .. n : Y[i] \subseteq top
      /\ \A q \in top : Backed(R, q)
      /\ Known \subseteq R
      /\ \A i \in 1 .. n : Distributes(i) => Known \subseteq Y[i] \union Open(i)
  <2>1. n \in Nat /\ \A i \in 1 .. n : i \in 1 .. n + 1
    OBVIOUS
  <2> QED BY <1>1, <1>2, <1>3, <2>1, ShowsTop
<1>5. Len(stack') = n /\ stack'[n] = x /\ \A i \in 1 .. n - 1 : stack'[i] = stack[i]
  BY <1>1, SwappedStack
<1>6. /\ \A i \in 1 .. n : Open(i)' = Open(i)
      /\ Open(Len(stack) + 1)' = Open(n + 1)
  BY <1>1, OpenSwapped
<1>7. ctl'.go # "return" /\ x.is = stack[n].is
  BY <1>1 DEF Swaps, Call, Peak
<1>8. Known' = Known
  BY DEF Known
<1>9. \A i \in 1 .. n : Distributes(i)' => Known' \subseteq Y[i] \union Open(i)
  <2>1. TAKE i \in 1 .. n
  <2>2. i = n \/ i \in 1 .. n - 1
    OBVIOUS
  <2>3. stack'[i].is = stack[i].is
    BY <1>5, <1>7, <2>2
  <2> QED BY <1>4, <1>8, <2>3 DEF Distributes
<1>10. Finished(stack'[n], R)
  BY <1>1, <1>2, <1>3, <1>5
<1>11. R = top \union Open(Len(stack) + 1)' /\ Known' \subseteq R /\ n <= n + 1 /\ n \in Nat
  BY <1>3, <1>4, <1>6, <1>8
<1>12. n = Len(stack') /\ (n # 0 => Finished(stack'[n], R))
  BY <1>5, <1>10
<1>13. ctl'.go = "return" /\ ctl'.out = "yes" => Current' \in R
  BY <1>7
<1>14. UNCHANGED <<gdoc, sdoc>>
  OBVIOUS
<1> QED BY <1>1, <1>4, <1>5, <1>6, <1>9, <1>11, <1>12, <1>13, <1>14, ShowsNext

LEMMA ShowsPop ==
  ASSUME Typed, Chain, NEW Y, Shows(Y), Pops, UNCHANGED <<gdoc, sdoc>>,
         ctl'.out = "yes" =>
           \/ Backed(Y[Len(stack) + 1] \union Open(Len(stack) + 1), Peak.pair)
           \/ Peak.pair \in Open(Len(stack)),
         Known' \subseteq Known \union {Peak.pair},
         (\E i \in 1 .. Len(stack) - 1 : Distributes(i)) => Known' \subseteq Known,
         ctl'.out # "yes" => \E i \in 1 .. Len(stack) - 1 : Distributes(i)
  PROVE  \E Z : Shows(Z)'
<1>1. PICK m \in Nat : Len(stack) = m + 1
  <2>1. Len(stack) \in Nat \ {0}
    BY PoppedStack
  <2>2. Len(stack) - 1 \in Nat /\ Len(stack) = (Len(stack) - 1) + 1
    BY <2>1
  <2> QED BY <2>2
<1>2. PICK p \in Pairs : p = Peak.pair
  <2>1. stack # <<>>
    BY DEF Pops
  <2>2. Peak \in StackFrame
    BY <2>1, TypedParts
  <2> QED BY <2>2, FrameShapes
<1>3. PICK n \in Nat : n = m + 1
  OBVIOUS
<1>4. PICK below : below = Y[n + 1] \union Open(n + 1)
  OBVIOUS
<1>5. /\ Y[n + 1] \in SUBSET Pairs
      /\ \A i \in 1 .. n : Y[i] \subseteq Y[n + 1] /\ Y[i] \in SUBSET Pairs
      /\ \A q \in Y[n + 1] : Backed(below, q)
      /\ \A i \in 1 .. n : Finished(stack[i], Y[i + 1] \union Open(i + 1))
      /\ Known \subseteq below
      /\ \A i \in 1 .. n : Distributes(i) => Known \subseteq Y[i] \union Open(i)
  <2>1. \A i \in 1 .. n : i \in 1 .. n + 1
    OBVIOUS
  <2> QED BY <1>1, <1>3, <1>4, <2>1, ShowsTop
<1>6. /\ \A i \in 1 .. n : \A j \in 1 .. n : i <= j => Y[i] \subseteq Y[j]
      /\ \A i \in 1 .. n : \A q \in Y[i] : Backed(Y[i] \union Open(i), q)
  BY <1>1, <1>3 DEF Shows
<1>7. Len(stack') = m /\ \A i \in 1 .. m : stack'[i] = stack[i]
  BY <1>1, PoppedStack
<1>8. /\ \A i \in 1 .. n : Open(i)' = Open(i)
      /\ Open(Len(stack) + 1)' = Open(n)
      /\ Open(n + 1) = Open(n) \union {p}
  BY <1>1, <1>2, <1>3, OpenPopped
<1>9. Current' = p
  <2>1. \A i \in 1 .. m + 1 : CalleeAt(i)' = CalleeAt(i)
    BY <1>7, OpenStays
  <2>2. n \in 1 .. n /\ n \in 1 .. m + 1
    BY <1>3
  <2>3. stack[n].pair = CalleeAt(n)
    BY <1>1, <1>3, <2>2 DEF Chain
  <2>4. Current' = CalleeAt(n)'
    BY <1>3, <1>7 DEF Current, CalleeAt
  <2> QED BY <1>1, <1>2, <1>3, <2>1, <2>2, <2>3, <2>4 DEF Peak
<1>10. \A i \in 1 .. m : i \in 1 .. n /\ n \in 1 .. n /\ i <= n /\ i \in 1 .. Len(stack) - 1
  BY <1>1, <1>3
<1>11. \A i \in 1 .. m : Distributes(i) => Known' \subseteq Known
  BY <1>10
<1>12. \A i \in 1 .. m : Distributes(i)' => Known' \subseteq Y[i] \union Open(i)
  <2>1. TAKE i \in 1 .. m
  <2>2. Distributes(i)' <=> Distributes(i)
    BY <1>7 DEF Distributes
  <2> QED BY <1>5, <1>10, <1>11, <2>2
<1>13. /\ m <= n + 1 /\ m = Len(stack') /\ n = Len(stack) /\ UNCHANGED <<gdoc, sdoc>>
       /\ \A i \in 1 .. m - 1 : stack'[i] = stack[i]
       /\ \A i \in 1 .. m : Open(i)' = Open(i)
  BY <1>1, <1>3, <1>7, <1>8, <1>10
<1>14. m # 0 => Finished(stack'[m], Y[n] \union Open(n))
  <2>1. SUFFICES ASSUME m # 0 PROVE Finished(stack'[m], Y[n] \union Open(n))
    OBVIOUS
  <2>2. m \in 1 .. m
    BY <2>1
  <2>3. Finished(stack[m], Y[m + 1] \union Open(m + 1)) /\ stack'[m] = stack[m]
    BY <1>5, <1>7, <1>10, <2>2
  <2> QED BY <1>3, <2>3
<1>15. CASE ctl'.out = "yes"
  <2>1. PICK top : top = Y[n + 1] \union (IF Backed(below, p) THEN {p} ELSE {})
    OBVIOUS
  <2>2. PICK R : R = top \union Open(n)
    OBVIOUS
  <2>3. top \in SUBSET Pairs /\ \A i \in 1 .. m : Y[i] \subseteq top
    BY <1>5, <1>10, <2>1
  <2>4. Backed(below, p) \/ p \in Open(n)
    BY <1>1, <1>2, <1>3, <1>4, <1>15
  <2>5. below \subseteq R
    BY <1>4, <1>8, <2>1, <2>2, <2>4
  <2>6. \A q \in top : Backed(R, q)
    <3>1. ASSUME NEW q \in top PROVE Backed(below, q)
      BY <1>5, <2>1, <3>1
    <3> QED BY <2>5, <3>1, BackedMore
  <2>7. m # 0 => Finished(stack'[m], R)
    <3>1. n \in 1 .. n
      BY <1>3
    <3>2. Y[n] \union Open(n) \subseteq R
      BY <1>5, <2>1, <2>2, <3>1
    <3> QED BY <1>14, <3>2, FinishedMore
  <2>8. Known' \subseteq R /\ p \in R
    BY <1>2, <1>4, <1>5, <1>8, <2>5
  <2>9. R = top \union Open(Len(stack) + 1)'
    BY <1>8, <2>2
  <2>10. ctl'.go = "return" /\ ctl'.out = "yes" => Current' \in R
    BY <1>9, <2>8
  <2> QED BY <1>12, <1>13, <2>3, <2>6, <2>7, <2>8, <2>9, <2>10, ShowsNext
<1>16. CASE ctl'.out # "yes"
  <2>1. n \in 1 .. n
    BY <1>3
  <2>2. PICK top \in SUBSET Pairs : top = Y[n]
    BY <1>5, <2>1
  <2>3. PICK R : R = top \union Open(n)
    OBVIOUS
  <2>4. \A i \in 1 .. m : Y[i] \subseteq top
    BY <1>6, <1>10, <2>2
  <2>5. \A q \in top : Backed(R, q)
    BY <1>6, <2>1, <2>2, <2>3
  <2>6. m # 0 => Finished(stack'[m], R)
    BY <1>14, <2>2, <2>3
  <2>7. Known' \subseteq R
    <3>1. PICK i \in 1 .. m : Distributes(i)
      BY <1>1, <1>16
    <3>2. Open(i) \subseteq Open(n)
      <4>1. stack # <<>>
        BY DEF Pops
      <4>2. i \in 1 .. Len(stack)
        BY <1>10, <1>13
      <4> QED BY <1>13, <4>1, <4>2, OpenTop
    <3>3. Y[i] \subseteq top
      BY <2>4
    <3>4. Known' \subseteq Known /\ Known \subseteq Y[i] \union Open(i)
      BY <1>5, <1>10, <1>11, <3>1
    <3> QED BY <2>3, <3>2, <3>3, <3>4
  <2>8. R = top \union Open(Len(stack) + 1)'
    BY <1>8, <2>3
  <2>9. ctl'.go = "return" /\ ctl'.out = "yes" => Current' \in R
    BY <1>16
  <2> QED BY <1>12, <1>13, <2>4, <2>5, <2>6, <2>7, <2>8, <2>9, ShowsNext
<1> QED BY <1>15, <1>16

LEMMA PeakCalls ==
  ASSUME Typed, stack # <<>>
  PROVE  Current = Callee(Peak) /\ Len(stack) \in 1 .. Len(stack)
<1>1. Len(stack) \in Nat \ {0}
  BY TypedParts
<1> QED BY <1>1 DEF Current, CalleeAt, Peak

LEMMA WorseFails ==
  ASSUME NEW a \in Tri, NEW b \in Tri, NEW ok \in {{"yes"}, {"yes", "undecided"}}
  PROVE  Worse(a, b) \in ok <=> a \in ok /\ b \in ok
BY DEF Worse, Tri

\* A call outside every choice that does not answer well fails the walk.
LEMMA PopFails ==
  ASSUME NEW ok, Typed, Pops, ctl'.out \notin ok, ~\E i \in 1 .. Len(stack) - 1 : Distributes(i)
  PROVE  Fails(ok)'
<1>1. /\ Len(stack') = Len(stack) - 1 /\ Len(stack) \in Nat
      /\ \A i \in 1 .. Len(stack') : stack'[i] = stack[i]
  BY PoppedStack
<1>2. \A i \in 1 .. Len(stack') : stack'[i].is \notin {"every", "some"}
  BY <1>1 DEF Distributes
<1>3. ctl'.go = "return"
  BY DEF Pops
<1>4. ~Distributing'
  BY <1>2 DEF Distributing
<1> QED BY <1>3, <1>4 DEF Fails

\* A bag outside every choice that goes on with a bad answer.
LEMMA MemberFails ==
  ASSUME NEW ok, Typed, NEW task \in Peak.todo, Swaps(MemberOn(task)), Returns("bag"),
         Worse(Peak.out, ctl.out) \notin ok, \A j \in 1 .. Len(stack) : ~Distributes(j)
  PROVE  Fails(ok)'
<1>1. PICK n \in Nat \ {0} : n = Len(stack)
  BY SwappedStack
<1>2. /\ Len(stack') = n /\ stack'[n] = MemberOn(task)
      /\ \A i \in 1 .. n - 1 : stack'[i] = stack[i]
  BY <1>1, SwappedStack
<1>3. MemberOn(task).is = "bag" /\ MemberOn(task).out = Worse(Peak.out, ctl.out)
  BY MemberFrame
<1>4. \A j \in 1 .. n : ~Distributes(j)'
  <2>1. TAKE j \in 1 .. n
  <2>2. j = n \/ j \in 1 .. n - 1
    OBVIOUS
  <2> QED BY <1>1, <1>2, <1>3, <2>2 DEF Distributes
<1>5. n \in 1 .. Len(stack') /\ BagAt(n)' /\ stack'[n].out \notin ok
  BY <1>2, <1>3 DEF BagAt
<1> QED BY <1>4, <1>5 DEF Fails

LEMMA FailsStays ==
  ASSUME PathInv, NEW ok \in {{"yes"}, {"yes", "undecided"}}, Fails(ok), Next
  PROVE  Fails(ok)'
<1>1. Typed /\ Counted /\ Moves
  BY NextMoves DEF PathInv, TypeInv
<1>2. Len(stack) \in Nat
  BY <1>1, TypedParts
<1>3. ASSUME NEW i \in 1 .. Len(stack), BagAt(i), stack[i].out \notin ok, \A j \in 1 .. i : ~Distributes(j),
             i \in 1 .. Len(stack'), \A j \in 1 .. i : stack'[j] = stack[j]
      PROVE  Fails(ok)'
  <2>1. \A j \in 1 .. i : ~Distributes(j)'
    BY <1>3 DEF Distributes
  <2>2. i \in 1 .. i
    BY <1>2
  <2>3. BagAt(i)' /\ stack'[i].out \notin ok
    BY <1>3, <2>2 DEF BagAt
  <2> QED BY <1>3, <2>1, <2>3 DEF Fails
<1>4. ASSUME NEW i \in 1 .. Len(stack), BagAt(i), stack[i].out \notin ok, \A j \in 1 .. i : ~Distributes(j)
      PROVE  Fails(ok)'
  <2>1. CASE Answers
    BY <1>3, <1>4, <2>1 DEF Answers
  <2>2. ASSUME NEW x, Pushes(x) PROVE Fails(ok)'
    <3>1. Len(stack') = Len(stack) + 1 /\ \A j \in 1 .. Len(stack) : stack'[j] = stack[j]
      BY <1>1, <2>2, PushedStack
    <3>2. i \in 1 .. Len(stack') /\ \A j \in 1 .. i : j \in 1 .. Len(stack)
      BY <1>2, <3>1
    <3> QED BY <1>3, <1>4, <3>1, <3>2
  <2>3. CASE i \in 1 .. Len(stack) - 1
    <3>1. CASE \E x \in StackFrame : Swaps(x)
      <4>1. Len(stack') = Len(stack) /\ \A j \in 1 .. Len(stack) - 1 : stack'[j] = stack[j]
        BY <1>1, <3>1, SwappedStack
      <4>2. i \in 1 .. Len(stack') /\ \A j \in 1 .. i : j \in 1 .. Len(stack) - 1
        BY <1>2, <2>3, <4>1
      <4> QED BY <1>3, <1>4, <4>1, <4>2
    <3>2. CASE Pops
      <4>1. Len(stack') = Len(stack) - 1 /\ \A j \in 1 .. Len(stack') : stack'[j] = stack[j]
        BY <1>1, <3>2, PoppedStack
      <4>2. i \in 1 .. Len(stack') /\ \A j \in 1 .. i : j \in 1 .. Len(stack')
        BY <1>2, <2>3, <4>1
      <4> QED BY <1>3, <1>4, <4>1, <4>2
    <3> QED BY <1>1, <2>1, <2>2, <3>1, <3>2 DEF Moves
  <2>4. CASE i = Len(stack) /\ ctl.go = "return"
    <3>1. Peak.is = "bag" /\ Peak.out \notin ok /\ Returns("bag") /\ stack # <<>>
      BY <1>2, <1>4, <2>4 DEF Peak, BagAt, Returns
    <3>2. Worse(Peak.out, ctl.out) \notin ok
      <4>1. Peak \in PairFrame /\ ctl.out \in Tri
        BY <1>1, <2>4, <3>1, TypedParts, FrameShapes
      <4> QED BY <3>1, <4>1, WorseFails DEF PairFrame
    <3>3. Member \/ Settle
      BY <2>4, <3>1 DEF Next, Answer, Unfold, Folded, DistributeEvery, DistributeSome, EveryNext, SomeNext,
                        Recall, Assume, Enter, BagCall, Walks, Calls, Returns, Peak
    <3>4. CASE Member
      BY <1>1, <1>4, <2>4, <3>1, <3>2, <3>4, MemberMoves, MemberFails
    <3>5. CASE Settle
      <4>1. Pops /\ ctl' = Return(Worse(Peak.out, ctl.out))
        BY <1>1, <3>5, SettleMoves DEF Settle
      <4>2. ctl'.out \notin ok
        BY <3>2, <4>1 DEF Return
      <4>3. \A j \in 1 .. Len(stack) - 1 : ~Distributes(j)
        BY <1>2, <1>4, <2>4
      <4> QED BY <1>1, <4>1, <4>2, <4>3, PopFails
    <3> QED BY <3>3, <3>4, <3>5
  <2>5. CASE i = Len(stack) /\ ctl.go # "return"
    <3>1. ~Pops /\ ~\E x : Swaps(x)
      BY <2>5 DEF Pops, Swaps
    <3> QED BY <1>1, <2>1, <2>2, <3>1 DEF Moves
  <2>6. i \in 1 .. Len(stack) - 1 \/ i = Len(stack)
    BY <1>2
  <2> QED BY <2>3, <2>4, <2>5, <2>6
<1>5. ASSUME ctl.go = "return", ctl.out \notin ok, ~Distributing
      PROVE  Fails(ok)'
  <2>1. \A j \in 1 .. Len(stack) : ~Distributes(j)
    BY <1>5 DEF Distributing, Distributes
  <2>2. ~Returns("every") /\ ~Returns("some")
    <3>1. SUFFICES ASSUME stack # <<>> PROVE stack[Len(stack)].is \notin {"every", "some"}
      BY DEF Returns
    <3>2. Len(stack) \in 1 .. Len(stack)
      BY <1>1, <3>1, PeakCalls
    <3> QED BY <2>1, <3>2 DEF Distributes
  <2>3. Folded \/ Member \/ Settle
    BY <1>5, <2>2 DEF Next, Answer, Unfold, DistributeEvery, DistributeSome, EveryNext, SomeNext,
                      Recall, Assume, Enter, BagCall, Walks, Calls
  <2>4. \A j \in 1 .. Len(stack) - 1 : ~Distributes(j)
    BY <1>2, <2>1
  <2>5. CASE Folded
    <3>1. Pops /\ ctl' = ctl
      BY <1>1, <2>5, FoldedMoves DEF Folded
    <3> QED BY <1>1, <1>5, <2>4, <3>1, PopFails
  <2>6. ASSUME Returns("bag") PROVE Worse(Peak.out, ctl.out) \notin ok
    <3>1. Peak \in PairFrame /\ ctl.out \in Tri
      BY <1>1, <1>5, <2>6, TypedParts, FrameShapes DEF Returns, Peak
    <3> QED BY <1>5, <3>1, WorseFails DEF PairFrame
  <2>7. CASE Member
    <3>1. Returns("bag")
      BY <2>7 DEF Member
    <3> QED BY <1>1, <2>1, <2>6, <2>7, <3>1, MemberMoves, MemberFails
  <2>8. CASE Settle
    <3>1. Pops /\ ctl' = Return(Worse(Peak.out, ctl.out)) /\ Returns("bag")
      BY <1>1, <2>8, SettleMoves DEF Settle
    <3>2. ctl'.out \notin ok
      BY <2>6, <3>1 DEF Return
    <3> QED BY <1>1, <2>4, <3>1, <3>2, PopFails
  <2> QED BY <2>3, <2>5, <2>7, <2>8
<1> QED BY <1>4, <1>5 DEF Fails

LEMMA BrokenStays ==
  ASSUME PathInv, Broken, Next
  PROVE  Broken'
BY FailsStays DEF Broken

\* What a call adds to what is known, and what a choice does not.
LEMMA SettleKnown ==
  ASSUME PathInv, Settle
  PROVE  /\ Known' \subseteq Known \union {Peak.pair}
         /\ Distributing => Known' \subseteq Known
<1>1. TypeInv /\ Inner.pair = Peak.pair /\ Inner.held \subseteq DOMAIN pending
  BY HeldFacts, RestFacts DEF PathInv
<1>2. CASE Waits(Inner.low, Out)
  <2>1. settled' = settled /\ pending' = With(pending, {Inner.pair}, Inner.low) /\ ~Distributing
    BY <1>2 DEF Settle, Out, Inner, Waits
  <2>2. DOMAIN pending' = DOMAIN pending \union {Inner.pair}
    BY <2>1 DEF With
  <2> QED BY <1>1, <2>1, <2>2 DEF Known
<1>3. CASE ~Waits(Inner.low, Out)
  <2> DEFINE done == {Inner.pair} \union (IF Out = "yes" THEN Inner.held ELSE {})
  <2>1. /\ pending' = Without(pending, Inner.held)
        /\ settled' = IF Distributing THEN settled ELSE With(settled, done, Out)
    BY <1>3 DEF Settle, Out, Inner
  <2>2. DOMAIN pending' \subseteq DOMAIN pending
    BY <2>1 DEF Without
  <2>3. CASE Distributing
    BY <2>1, <2>2, <2>3 DEF Known
  <2>4. CASE ~Distributing
    <3>1. /\ DOMAIN settled' = DOMAIN settled \union done
          /\ \A q \in DOMAIN settled' : settled'[q] = IF q \in done THEN Out ELSE settled[q]
      BY <2>1, <2>4 DEF With
    <3>2. ASSUME NEW q \in DOMAIN settled', settled'[q] = "yes"
          PROVE  q \in Known \union {Peak.pair}
      <4>1. CASE q \in done
        BY <1>1, <3>1, <3>2, <4>1 DEF Known
      <4>2. CASE q \notin done
        <5> HIDE DEF done
        <5> QED BY <3>1, <3>2, <4>2 DEF Known
      <4> QED BY <4>1, <4>2
    <3>3. DOMAIN pending' \subseteq Known
      BY <2>2 DEF Known
    <3> HIDE DEF done
    <3> QED BY <2>4, <3>2, <3>3 DEF Known
  <2> QED BY <2>3, <2>4
<1> QED BY <1>2, <1>3

\* An answer given at once.
LEMMA AnswerShows ==
  ASSUME PathInv, NEW Y, Shows(Y), Answer \/ Recall \/ Assume
  PROVE  \E Z : Shows(Z)'
<1>1. /\ Typed /\ Counted /\ Chain /\ Spine /\ Answers /\ UNCHANGED <<gdoc, sdoc, settled, pending>>
  <2>1. Typed /\ Counted /\ Chain /\ Spine
    BY DEF PathInv, TypeInv
  <2> QED BY <2>1, AnswerMoves, RecallMoves, AssumeMoves DEF Answer, Recall, Assume
<1>2. PICK n \in Nat : n = Len(stack)
  BY <1>1, TypedParts
<1> DEFINE below == Y[n + 1] \union Open(n + 1)
<1>3. Known \subseteq below
  BY <1>1, <1>2, ShowsTop
<1>4. ASSUME ctl'.out = "yes" PROVE ctl.pair \in below \/ Backed(below, ctl.pair)
  <2>1. CASE Answer
    <3>1. ~Unfolds(ctl.pair) /\ Outright(ctl.pair[1].form, ctl.pair[2].form) = "yes"
      BY <1>4, <2>1 DEF Answer, Return
    <3>2. CASE Recurs(ctl.pair)
      <4>1. ctl.pair \in unfolding
        BY <3>1, <3>2 DEF Unfolds, Recurs
      <4> QED BY <1>1, <1>2, <4>1 DEF Spine
    <3>3. CASE ~Recurs(ctl.pair)
      BY <3>1, <3>3 DEF Backed
    <3> QED BY <3>2, <3>3
  <2>2. CASE Recall
    <3>1. ctl.pair \in Known
      BY <1>4, <2>2 DEF Recall, Return, Known
    <3> QED BY <1>3, <3>1
  <2>3. CASE Assume
    <3>1. ctl.pair \in DOMAIN pending \/ Running(ctl.pair) # {}
      BY <2>3 DEF Assume, Assumed
    <3>2. CASE ctl.pair \in DOMAIN pending
      BY <1>3, <3>2 DEF Known
    <3>3. CASE Running(ctl.pair) # {}
      <4>1. PICK d \in 1 .. Depth : frames[d].pair = ctl.pair
        BY <3>3 DEF Running
      <4>2. PICK i \in 1 .. n : stack[i].pair = frames[d].pair
        BY <1>1, <1>2 DEF Counted
      <4> QED BY <4>1, <4>2 DEF Open
    <3> QED BY <3>1, <3>2, <3>3
  <2> QED BY <2>1, <2>2, <2>3
<1> QED BY <1>1, <1>2, <1>4, ShowsAnswer

\* A call begun: it has found nothing yet.
LEMMA PushShows ==
  ASSUME PathInv, NEW Y, Shows(Y), Unfold \/ DistributeEvery \/ DistributeSome \/ Enter
  PROVE  \E Z : Shows(Z)'
<1>1. Typed
  BY DEF PathInv, TypeInv
<1>2. UNCHANGED <<gdoc, sdoc, settled, pending>>
  BY DEF Unfold, DistributeEvery, DistributeSome, Enter
<1>3. CASE Unfold
  <2> DEFINE x == [is |-> "unfold", pair |-> ctl.pair]
  <2>1. Pushes(x)
    BY <1>1, <1>3, UnfoldMoves
  <2>2. Finished(x, {})
    BY DEF Finished
  <2> QED BY <1>1, <1>2, <2>1, <2>2, ShowsPush
<1>4. CASE DistributeEvery
  <2> DEFINE keys == KeysOf(ctl.pair[2].form)
             x(k) == [is |-> "every", pair |-> ctl.pair, now |-> k, todo |-> keys \ {k}, out |-> "yes"]
  <2>1. PICK k \in keys : Pushes(x(k))
    BY <1>1, <1>4, EveryMoves
  <2>2. Finished(x(k), {})
    BY DEF Finished
  <2> QED BY <1>1, <1>2, <2>1, <2>2, ShowsPush
<1>5. CASE DistributeSome
  <2> DEFINE keys == KeysOf(ctl.pair[1].form)
             x(k) == [is |-> "some", pair |-> ctl.pair, now |-> k, todo |-> keys \ {k}]
  <2>1. PICK k \in keys : Pushes(x(k))
    BY <1>1, <1>5, SomeMoves
  <2>2. Finished(x(k), {})
    BY DEF Finished
  <2> QED BY <1>1, <1>2, <2>1, <2>2, ShowsPush
<1>6. CASE Enter
  <2>1. Pushes(EnterFrame)
    BY <1>1, <1>6, EnterMoves
  <2>2. Finished(EnterFrame, {})
    BY DEF Finished, EnterFrame
  <2> QED BY <1>1, <1>2, <2>1, <2>2, ShowsPush
<1> QED BY <1>3, <1>4, <1>5, <1>6

\* What the top call has found, with the answer it has just been given.
LEMMA PeakFound ==
  ASSUME PathInv, NEW Y, Shows(Y), ctl.go = "return", ctl.out = "yes", stack # <<>>
  PROVE  LET R == Y[Len(stack) + 1] \union Open(Len(stack) + 1)
         IN  /\ Finished(Peak, R)
             /\ Callee(Peak) \in R
<1>1. Typed
  BY DEF PathInv, TypeInv
<1>2. PICK n \in Nat : n = Len(stack)
  BY <1>1, TypedParts
<1>3. n \in 1 .. n /\ Current = Callee(Peak)
  BY <1>1, <1>2, PeakCalls
<1>4. /\ \A i \in 1 .. n : Finished(stack[i], Y[i + 1] \union Open(i + 1))
      /\ Current \in Y[n + 1] \union Open(n + 1)
  BY <1>1, <1>2, ShowsTop
<1> QED BY <1>2, <1>3, <1>4 DEF Peak

LEMMA SwapShows ==
  ASSUME PathInv, NEW Y, Shows(Y),
         \/ \E k \in Peak.todo : Swaps(EveryOn(k)) /\ EveryNext
         \/ \E k \in Peak.todo : Swaps(SomeOn(k)) /\ SomeNext
         \/ Member
  PROVE  \E Z : Shows(Z)'
<1>1. Typed
  BY DEF PathInv, TypeInv
<1>2. UNCHANGED <<gdoc, sdoc, settled, pending>>
  BY DEF EveryNext, SomeNext, Member
<1> DEFINE R == Y[Len(stack) + 1] \union Open(Len(stack) + 1)
<1>3. ASSUME NEW k \in Peak.todo, Swaps(EveryOn(k)), EveryNext
      PROVE  \E Z : Shows(Z)'
  <2>1. /\ ctl.go = "return" /\ stack # <<>> /\ Peak \in EveryFrame /\ Peak.is = "every"
        /\ ctl.out \in Tri
    BY <1>1, <1>3, TypedParts, FrameShapes DEF EveryNext, Returns, Peak
  <2>2. EveryOn(k).is = "every" /\ EveryOn(k).pair = Peak.pair /\ EveryOn(k).now = k
        /\ EveryOn(k).todo = Peak.todo \ {k} /\ EveryOn(k).out = EveryOut
    BY <2>1 DEF EveryOn, EveryFrame
  <2>3. ASSUME EveryOut = "yes", NEW j \in KeysOf(Peak.pair[2].form)
        PROVE  j \in (Peak.todo \ {k}) \union {k} \/ Every(Peak.pair, j) \in R
    <3>1. ctl.out = "yes" /\ Peak.out = "yes"
      BY <2>3 DEF EveryOut
    <3>2. Finished(Peak, R) /\ Callee(Peak) \in R
      BY <2>1, <3>1, PeakFound
    <3>3. Callee(Peak) = Every(Peak.pair, Peak.now)
      BY <2>1 DEF Callee
    <3> HIDE DEF R
    <3> QED BY <2>1, <3>1, <3>2, <3>3 DEF Finished
  <2>4. Finished(EveryOn(k), R)
    <3> HIDE DEF R
    <3> QED BY <2>2, <2>3 DEF Finished
  <2> QED BY <1>1, <1>2, <1>3, <2>4, ShowsSwap
<1>4. ASSUME NEW k \in Peak.todo, Swaps(SomeOn(k)), SomeNext
      PROVE  \E Z : Shows(Z)'
  <2>1. SomeOn(k).is = "some"
    BY <1>4 DEF Swaps, SomeNext, Returns, Peak
  <2>2. Finished(SomeOn(k), R)
    BY <2>1 DEF Finished
  <2> QED BY <1>1, <1>2, <1>4, <2>2, ShowsSwap
<1>5. CASE Member
  <2>1. PICK task \in Peak.todo : Swaps(MemberOn(task))
    BY <1>1, <1>5, MemberMoves
  <2>2. /\ ctl.go = "return" /\ stack # <<>> /\ Peak \in PairFrame /\ Peak.is = "bag"
        /\ ctl.out \in Tri /\ Returns("bag")
    BY <1>1, <1>5, TypedParts, FrameShapes DEF Member, Returns, Peak
  <2>3. /\ MemberOn(task).is = "bag" /\ MemberOn(task).pair = Peak.pair /\ MemberOn(task).now = task
        /\ MemberOn(task).todo = Peak.todo \ {task}
        /\ MemberOn(task).out = Worse(Peak.out, ctl.out)
    BY <1>1, <2>2, MemberFrame
  <2>4. ASSUME Worse(Peak.out, ctl.out) = "yes"
        PROVE  /\ ~BagFault(Peak.pair[1].form, Peak.pair[2].form)
               /\ Tasks(Peak.pair[1], Peak.pair[2]) \subseteq R \union (Peak.todo \ {task}) \union {task}
    <3>1. ctl.out = "yes" /\ Peak.out = "yes"
      BY <2>2, <2>4, WorseType DEF PairFrame
    <3>2. Finished(Peak, R) /\ Callee(Peak) \in R
      BY <2>2, <3>1, PeakFound
    <3>3. Callee(Peak) = Peak.now
      BY <2>2 DEF Callee
    <3> HIDE DEF R
    <3> QED BY <2>2, <3>1, <3>2, <3>3 DEF Finished
  <2>5. Finished(MemberOn(task), R)
    <3> HIDE DEF R
    <3> QED BY <2>3, <2>4 DEF Finished
  <2> QED BY <1>1, <1>2, <2>1, <2>5, ShowsSwap
<1> QED BY <1>3, <1>4, <1>5

\* A call that ends: its pair is answered by what it found, or it was open
\* already; outside every choice it answers yes or breaks the walk.
LEMMA PopShows ==
  ASSUME PathInv, NEW Y, Shows(Y), Pops, UNCHANGED <<gdoc, sdoc>>,
         ctl'.out = "yes" =>
           \/ Backed(Y[Len(stack) + 1] \union Open(Len(stack) + 1), Peak.pair)
           \/ Peak.pair \in Open(Len(stack)),
         \/ UNCHANGED <<settled, pending>>
         \/ Settle
  PROVE  Justified'
<1>1. Typed /\ Chain /\ stack # <<>>
  BY DEF PathInv, TypeInv, Pops
<1>2. /\ Known' \subseteq Known \union {Peak.pair}
      /\ (\E i \in 1 .. Len(stack) - 1 : Distributes(i)) => Known' \subseteq Known
  <2>1. CASE UNCHANGED <<settled, pending>>
    BY <2>1 DEF Known
  <2>2. CASE Settle
    <3>1. Len(stack) \in Nat \ {0}
      BY <1>1, TypedParts
    <3>2. \A i \in 1 .. Len(stack) - 1 : i \in 1 .. Len(stack)
      BY <3>1
    <3>3. (\E i \in 1 .. Len(stack) - 1 : Distributes(i)) => Distributing
      BY <3>2 DEF Distributes, Distributing
    <3> QED BY <2>2, <3>3, SettleKnown
  <2> QED BY <2>1, <2>2
<1>3. CASE ctl'.out # "yes" => \E i \in 1 .. Len(stack) - 1 : Distributes(i)
  <2>1. \E Z : Shows(Z)'
    BY <1>1, <1>2, <1>3, ShowsPop
  <2> QED BY <2>1 DEF Justified
<1>4. CASE ctl'.out # "yes" /\ ~\E i \in 1 .. Len(stack) - 1 : Distributes(i)
  BY <1>1, <1>4, PopFails DEF Justified, Broken
<1> QED BY <1>3, <1>4

LEMMA FoldedShows ==
  ASSUME PathInv, NEW Y, Shows(Y), Folded
  PROVE  Justified'
<1>1. /\ Pops /\ UNCHANGED <<gdoc, sdoc, settled, pending>> /\ ctl' = ctl
      /\ ctl.go = "return" /\ stack # <<>> /\ Peak.is = "unfold" /\ FrameOK(Peak)
  BY FoldedMoves, TypedParts DEF PathInv, TypeInv, Folded, Returns, Peak
<1> DEFINE R == Y[Len(stack) + 1] \union Open(Len(stack) + 1)
<1>2. ctl'.out = "yes" => Backed(R, Peak.pair)
  <2>1. SUFFICES ASSUME ctl.out = "yes" PROVE Backed(R, Peak.pair)
    BY <1>1
  <2>2. Callee(Peak) \in R
    BY <1>1, <2>1, PeakFound
  <2>3. Callee(Peak) = Unfolded(gdoc, sdoc, Peak.pair) /\ Recurs(Peak.pair)
    BY <1>1 DEF Callee, FrameOK, Recurs
  <2> HIDE DEF R
  <2> QED BY <2>2, <2>3 DEF Backed
<1> QED BY <1>1, <1>2, PopShows

\* A choice that has been made: on a recursion, the recursion is open.
LEMMA ChoiceOpen ==
  ASSUME PathInv, stack # <<>>, Peak.is \in {"every", "some"}, Recurs(Peak.pair)
  PROVE  Peak.pair \in Open(Len(stack))
<1>1. Len(stack) \in 1 .. Len(stack)
  BY PeakCalls DEF PathInv, TypeInv
<1> QED BY <1>1 DEF PathInv, Spine, Distributes, Peak

LEMMA EveryShows ==
  ASSUME PathInv, NEW Y, Shows(Y), EveryNext
  PROVE  Justified'
<1>1. /\ Typed /\ UNCHANGED <<gdoc, sdoc, settled, pending>> /\ ctl.go = "return" /\ ctl.out \in Tri
      /\ stack # <<>> /\ Peak.is = "every" /\ FrameOK(Peak) /\ Peak \in EveryFrame /\ Returns("every")
  BY TypedParts, FrameShapes DEF PathInv, TypeInv, EveryNext, Returns, Peak
<1> DEFINE R == Y[Len(stack) + 1] \union Open(Len(stack) + 1)
           fails == ctl.out # "yes" /\ IsConcrete(Peak.pair[2].form.at[Peak.now])
<1>2. CASE fails
  <2>1. stack' = Below(stack) /\ ctl' = Return("no")
    BY <1>2 DEF EveryNext
  <2>2. Pops /\ ctl'.out # "yes"
    BY <1>1, <2>1 DEF Pops, Return, Tri
  <2> QED BY <1>1, <2>2, PopShows
<1>3. CASE ~fails /\ Peak.todo = {}
  <2>1. stack' = Below(stack) /\ ctl' = Return(EveryOut)
    BY <1>3 DEF EveryNext, EveryOut
  <2>2. EveryOut \in Tri
    BY <1>1 DEF EveryOut, EveryFrame, Tri
  <2>3. Pops
    BY <1>1, <2>1, <2>2 DEF Pops, Return
  <2>4. ASSUME ctl'.out = "yes"
        PROVE  Backed(R, Peak.pair) \/ Peak.pair \in Open(Len(stack))
    <3>1. ctl.out = "yes" /\ Peak.out = "yes"
      BY <2>1, <2>4 DEF EveryOut, Return
    <3>2. Finished(Peak, R) /\ Callee(Peak) \in R
      BY <1>1, <3>1, PeakFound
    <3>3. Callee(Peak) = Every(Peak.pair, Peak.now)
      BY <1>1 DEF Callee
    <3>4. \A k \in KeysOf(Peak.pair[2].form) : Every(Peak.pair, k) \in R
      <4> HIDE DEF R
      <4> QED BY <1>1, <1>3, <3>1, <3>2, <3>3 DEF Finished
    <3>5. CASE Recurs(Peak.pair)
      BY <1>1, <3>5, ChoiceOpen
    <3>6. CASE ~Recurs(Peak.pair)
      <4> HIDE DEF R
      <4> QED BY <1>1, <3>4, <3>6 DEF Backed, FrameOK, Walked
    <3> QED BY <3>5, <3>6
  <2> QED BY <1>1, <2>3, <2>4, PopShows
<1>4. CASE ~fails /\ Peak.todo # {}
  <2>1. PICK k \in Peak.todo : /\ stack' = Append(Below(stack), EveryOn(k))
                               /\ ctl' = Call(Every(Peak.pair, k))
    BY <1>4 DEF EveryNext, EveryOn, EveryOut
  <2>2. Swaps(EveryOn(k))
    BY <1>1, <2>1, EveryOnMoves
  <2> QED BY <2>2, SwapShows DEF Justified
<1> QED BY <1>2, <1>3, <1>4

LEMMA SomeShows ==
  ASSUME PathInv, NEW Y, Shows(Y), SomeNext
  PROVE  Justified'
<1>1. /\ Typed /\ UNCHANGED <<gdoc, sdoc, settled, pending>> /\ ctl.go = "return" /\ ctl.out \in Tri
      /\ ctl \in [go : {"return"}, out : Tri]
      /\ stack # <<>> /\ Peak.is = "some" /\ FrameOK(Peak) /\ Peak \in SomeFrame /\ Returns("some")
  BY TypedParts, FrameShapes DEF PathInv, TypeInv, Typed, SomeNext, Returns, Peak
<1> DEFINE R == Y[Len(stack) + 1] \union Open(Len(stack) + 1)
<1>2. CASE ctl.out = "yes"
  <2>1. Pops
    BY <1>1, <1>2 DEF SomeNext, Pops
  <2>2. Callee(Peak) \in R
    BY <1>1, <1>2, PeakFound
  <2>3. Callee(Peak) = Some(Peak.pair, Peak.now) /\ Peak.now \in KeysOf(Peak.pair[1].form)
    BY <1>1 DEF Callee, FrameOK
  <2>4. Backed(R, Peak.pair) \/ Peak.pair \in Open(Len(stack))
    <3>1. CASE Recurs(Peak.pair)
      BY <1>1, <3>1, ChoiceOpen
    <3>2. CASE ~Recurs(Peak.pair)
      <4> HIDE DEF R
      <4> QED BY <1>1, <2>2, <2>3, <3>2 DEF Backed, FrameOK, Walked
    <3> QED BY <3>1, <3>2
  <2> QED BY <1>1, <2>1, <2>4, PopShows
<1>3. CASE ctl.out # "yes" /\ Peak.todo = {}
  <2>1. stack' = Below(stack) /\ ctl' = Return(IF IsConcrete(Peak.pair[2].form) THEN "no" ELSE "undecided")
    BY <1>3 DEF SomeNext
  <2>2. Pops /\ ctl'.out # "yes"
    BY <1>1, <2>1 DEF Pops, Return, Tri
  <2> QED BY <1>1, <2>2, PopShows
<1>4. CASE ctl.out # "yes" /\ Peak.todo # {}
  <2>1. PICK k \in Peak.todo : /\ stack' = Append(Below(stack), SomeOn(k))
                               /\ ctl' = Call(Some(Peak.pair, k))
    BY <1>4 DEF SomeNext, SomeOn
  <2>2. Swaps(SomeOn(k))
    BY <1>1, <2>1, SomeOnMoves
  <2> QED BY <2>2, SwapShows DEF Justified
<1> QED BY <1>2, <1>3, <1>4

LEMMA SettleShows ==
  ASSUME PathInv, NEW Y, Shows(Y), Settle
  PROVE  Justified'
<1>1. /\ Typed /\ UNCHANGED <<gdoc, sdoc>> /\ ctl.go = "return" /\ ctl.out \in Tri /\ Pops
      /\ stack # <<>> /\ Peak.is = "bag" /\ FrameOK(Peak) /\ Peak \in PairFrame /\ Peak.todo = {}
      /\ ctl' = Return(Worse(Peak.out, ctl.out))
  BY TypedParts, FrameShapes, SettleMoves DEF PathInv, TypeInv, Settle, Returns, Peak
<1> DEFINE R == Y[Len(stack) + 1] \union Open(Len(stack) + 1)
<1>2. ASSUME ctl'.out = "yes" PROVE Backed(R, Peak.pair)
  <2>1. ctl.out = "yes" /\ Peak.out = "yes"
    BY <1>1, <1>2, WorseType DEF PairFrame, Return
  <2>2. Finished(Peak, R) /\ Callee(Peak) \in R
    BY <1>1, <2>1, PeakFound
  <2>3. Callee(Peak) = Peak.now
    BY <1>1 DEF Callee
  <2> HIDE DEF R
  <2>4. /\ ~BagFault(Peak.pair[1].form, Peak.pair[2].form)
        /\ Tasks(Peak.pair[1], Peak.pair[2]) \subseteq R
    BY <1>1, <2>1, <2>2, <2>3 DEF Finished
  <2>5. Peak.pair[1].form.is = "bag" /\ Peak.pair[2].form.is = "bag" /\ Walked(Peak.pair)
    BY <1>1 DEF FrameOK
  <2> QED BY <2>4, <2>5 DEF Backed, Recurs, Recursive, Walked
<1> QED BY <1>1, <1>2, PopShows

LEMMA JustifiedStep ==
  ASSUME PathInv, Justified, [Next]_vars
  PROVE  Justified'
<1>1. CASE Next
  <2>1. CASE Broken
    BY <1>1, <2>1, BrokenStays DEF Justified
  <2>2. ASSUME NEW Y, Shows(Y) PROVE Justified'
    <3>1. CASE Answer \/ Recall \/ Assume
      BY <2>2, <3>1, AnswerShows DEF Justified
    <3>2. CASE Unfold \/ DistributeEvery \/ DistributeSome \/ Enter
      BY <2>2, <3>2, PushShows DEF Justified
    <3>3. CASE Folded
      BY <2>2, <3>3, FoldedShows
    <3>4. CASE EveryNext
      BY <2>2, <3>4, EveryShows
    <3>5. CASE SomeNext
      BY <2>2, <3>5, SomeShows
    <3>6. CASE Member
      BY <2>2, <3>6, SwapShows DEF Justified
    <3>7. CASE Settle
      BY <2>2, <3>7, SettleShows
    <3> QED BY <1>1, <3>1, <3>2, <3>3, <3>4, <3>5, <3>6, <3>7 DEF Next
  <2> QED BY <2>1, <2>2 DEF Justified
<1>2. CASE UNCHANGED vars
  <2>1. UNCHANGED <<gdoc, sdoc, ctl, stack, settled, pending>>
    BY <1>2 DEF vars
  <2>2. CASE Broken
    BY <2>1, <2>2 DEF Justified, Broken, Fails, BagAt, Distributes, Distributing
  <2>3. ASSUME NEW Y, Shows(Y) PROVE Justified'
    <3>1. /\ Pairs' = Pairs /\ Known' = Known /\ Current' = Current
          /\ \A i : Open(i)' = Open(i) /\ (Distributes(i)' <=> Distributes(i))
      BY <2>1 DEF Pairs, Known, Current, CalleeAt, Callee, Open, Distributes
    <3>2. (\A i \in 1 .. Len(stack) + 1 : \A p \in Y[i] : Backed(Y[i] \union Open(i), p))'
      BY <2>1, <2>3, <3>1 DEF Shows, Backed
    <3>3. Shows(Y)'
      BY <2>1, <2>3, <3>1, <3>2 DEF Shows
    <3> QED BY <3>3 DEF Justified
  <2> QED BY <2>2, <2>3 DEF Justified
<1> QED BY <1>1, <1>2

LEMMA JustifiedStart == Init => Justified
<1>1. SUFFICES ASSUME Init PROVE Justified
  OBVIOUS
<1>2. /\ stack = <<>> /\ settled = <<>> /\ pending = <<>> /\ ctl.go = "call"
      /\ Len(stack) = 0
  BY <1>1 DEF Init, Call
<1>3. Known = {}
  BY <1>2 DEF Known
<1> DEFINE Y == [i \in 1 .. 1 |-> {}]
<1>4. /\ Y \in [1 .. Len(stack) + 1 -> SUBSET Pairs]
      /\ \A i \in 1 .. Len(stack) + 1 : Y[i] = {}
  BY <1>2
<1> HIDE DEF Y
<1>5. Shows(Y)
  BY <1>2, <1>3, <1>4 DEF Shows
<1> QED BY <1>5 DEF Justified

(***************************************************************************)
(* A yes of the walk is a simulation: there is a set of pairs, the one     *)
(* asked about among them, each of which the rules answer yes when those   *)
(* in the set do.  Whatever was assumed and remembered on the way, and     *)
(* whichever order the members came in, nothing was assumed for nothing    *)
(* (subsume.ts, assume and settle).                                        *)
(***************************************************************************)
YesIsSimulated ==
  Done /\ ctl.out = "yes" =>
    \E S \in SUBSET Pairs : Asked(gdoc, sdoc) \in S /\ Simulation(S)

\* Whatever walk of the query ends in a yes has found a simulation.
THEOREM WalkYes == Spec => []YesIsSimulated
<1>1. Init => PathInv /\ Justified
  BY PathStart, JustifiedStart
<1>2. PathInv /\ Justified /\ [Next]_vars => (PathInv /\ Justified)'
  BY PathStep, JustifiedStep
<1>3. PathInv /\ Justified => YesIsSimulated
  <2>1. SUFFICES ASSUME PathInv, Justified, Done, ctl.out = "yes"
                 PROVE  \E S \in SUBSET Pairs : Asked(gdoc, sdoc) \in S /\ Simulation(S)
    BY DEF YesIsSimulated
  <2>2. stack = <<>> /\ ctl.go = "return" /\ Len(stack) = 0 /\ Typed /\ gdoc \in Docs /\ sdoc \in Docs
    BY <2>1 DEF Done, PathInv, TypeInv, Typed
  <2>3. ~Broken
    BY <2>1, <2>2 DEF Broken, Fails
  <2>4. PICK Y : Shows(Y)
    BY <2>1, <2>3 DEF Justified
  <2>5. Open(1) = {} /\ Current = Asked(gdoc, sdoc)
    BY <2>2 DEF Open, Current, CalleeAt
  <2>6. /\ Y[1] \in SUBSET Pairs /\ Asked(gdoc, sdoc) \in Y[1]
        /\ \A p \in Y[1] : Backed(Y[1], p)
    BY <2>1, <2>2, <2>4, <2>5 DEF Shows
  <2>7. Simulation(Y[1])
    BY <2>2, <2>6, BackedRuled DEF Simulation, Says
  <2> QED BY <2>6, <2>7
<1> QED BY <1>1, <1>2, <1>3, PTL DEF Spec

(***************************************************************************)
(* Documents whose recursions each meet a bag before they meet themselves: *)
(* the pairs can be ranked so that unfolding lowers the rank and a choice  *)
(* does not raise it, and no recursion is met again between two bags.      *)
(***************************************************************************)
Grades(r, d) ==
  \A f \in Form[d] :
    /\ f.is = "rec" => r[d[f.to]] < r[f]
    /\ f.is = "alts" => \A k \in KeysOf(f) : r[f.at[k]] <= r[f]
Graded(d) == \E r \in [AnyForm -> Nat] : Grades(r, d)

Falls(R) ==
  \A p \in Pairs :
    /\ Recurs(p) => R[Unfolded(gdoc, sdoc, p)] < R[p]
    /\ p[2].form.is = "alts" => \A k \in KeysOf(p[2].form) : R[Every(p, k)] <= R[p]
    /\ p[1].form.is = "alts" => \A k \in KeysOf(p[1].form) : R[Some(p, k)] <= R[p]

LEMMA GradedFalls ==
  ASSUME gdoc \in Docs, sdoc \in Docs, Graded(gdoc), Graded(sdoc)
  PROVE  \E R \in [Pairs -> Nat] : Falls(R)
<1>1. PICK r \in [AnyForm -> Nat] : Grades(r, gdoc)
  BY DEF Graded
<1>2. PICK q \in [AnyForm -> Nat] : Grades(q, sdoc)
  BY DEF Graded
<1>3. Form[gdoc] \subseteq AnyForm /\ Form[sdoc] \subseteq AnyForm /\ Any \in AnyForm
  BY DEF AnyForm
<1> DEFINE R == [p \in Pairs |-> r[p[1].form] + q[p[2].form]]
<1>4. \A p \in Pairs : /\ p[1].form \in Form[gdoc] /\ p[2].form \in Form[sdoc] \union {Any}
                       /\ r[p[1].form] \in Nat /\ q[p[2].form] \in Nat
                       /\ R[p] = r[p[1].form] + q[p[2].form]
  BY <1>3 DEF Pairs, NodesOf
<1>5. R \in [Pairs -> Nat]
  BY <1>4
<1> HIDE DEF R
<1>6. Any.is = "any"
  BY DEF Any
<1>7. ASSUME NEW p \in Pairs, Recurs(p)
      PROVE  R[Unfolded(gdoc, sdoc, p)] < R[p]
  <2>1. Unfolded(gdoc, sdoc, p) \in Pairs
    BY PairFacts
  <2>2. /\ r[Target(gdoc, p[1]).form] <= r[p[1].form]
        /\ p[1].form.is = "rec" => r[Target(gdoc, p[1]).form] < r[p[1].form]
    <3>1. CASE p[1].form.is = "rec"
      <4>1. r[gdoc[p[1].form.to]] < r[p[1].form] /\ gdoc[p[1].form.to] \in Form[gdoc]
        BY <1>1, <1>4, <3>1, FormFacts DEF Grades
      <4>2. r[gdoc[p[1].form.to]] \in Nat
        BY <1>3, <4>1
      <4>3. Target(gdoc, p[1]).form = gdoc[p[1].form.to]
        BY <3>1 DEF Target, Node
      <4> QED BY <1>4, <4>1, <4>2, <4>3
    <3>2. CASE p[1].form.is # "rec"
      BY <1>4, <3>2 DEF Target
    <3> QED BY <3>1, <3>2
  <2>3. /\ q[Target(sdoc, p[2]).form] <= q[p[2].form]
        /\ p[2].form.is = "rec" => q[Target(sdoc, p[2]).form] < q[p[2].form]
    <3>1. CASE p[2].form.is = "rec"
      <4>1. p[2].form \in Form[sdoc]
        BY <1>4, <1>6, <3>1
      <4>2. q[sdoc[p[2].form.to]] < q[p[2].form] /\ sdoc[p[2].form.to] \in Form[sdoc]
        BY <1>2, <3>1, <4>1, FormFacts DEF Grades
      <4>3. q[sdoc[p[2].form.to]] \in Nat
        BY <1>3, <4>2
      <4>4. Target(sdoc, p[2]).form = sdoc[p[2].form.to]
        BY <3>1 DEF Target, Node
      <4> QED BY <1>4, <4>2, <4>3, <4>4
    <3>2. CASE p[2].form.is # "rec"
      BY <1>4, <3>2 DEF Target
    <3> QED BY <3>1, <3>2
  <2>4. p[1].form.is = "rec" \/ p[2].form.is = "rec"
    BY <1>7 DEF Recurs, Recursive
  <2>5. /\ R[Unfolded(gdoc, sdoc, p)] = r[Target(gdoc, p[1]).form] + q[Target(sdoc, p[2]).form]
        /\ r[Target(gdoc, p[1]).form] \in Nat /\ q[Target(sdoc, p[2]).form] \in Nat
    BY <1>4, <2>1 DEF Unfolded
  <2> QED BY <1>4, <2>2, <2>3, <2>4, <2>5
<1>8. ASSUME NEW p \in Pairs, p[2].form.is = "alts", NEW k \in KeysOf(p[2].form)
      PROVE  R[Every(p, k)] <= R[p]
  <2>1. Every(p, k) \in Pairs /\ p[2].form \in Form[sdoc]
    BY <1>4, <1>6, <1>8, PairFacts
  <2>2. q[p[2].form.at[k]] <= q[p[2].form]
    BY <1>2, <1>8, <2>1 DEF Grades
  <2>3. /\ R[Every(p, k)] = r[p[1].form] + q[p[2].form.at[k]]
        /\ q[p[2].form.at[k]] \in Nat
    BY <1>4, <2>1 DEF Every, Child, Node
  <2> QED BY <1>4, <2>2, <2>3
<1>9. ASSUME NEW p \in Pairs, p[1].form.is = "alts", NEW k \in KeysOf(p[1].form)
      PROVE  R[Some(p, k)] <= R[p]
  <2>1. Some(p, k) \in Pairs
    BY <1>9, PairFacts
  <2>2. r[p[1].form.at[k]] <= r[p[1].form]
    BY <1>1, <1>4, <1>9 DEF Grades
  <2>3. /\ R[Some(p, k)] = r[p[1].form.at[k]] + q[p[2].form]
        /\ r[p[1].form.at[k]] \in Nat
    BY <1>4, <2>1 DEF Some, Child, Node
  <2> QED BY <1>4, <2>2, <2>3
<1> QED BY <1>5, <1>7, <1>8, <1>9 DEF Falls

NoBag(calls, i, j) == \A k \in i .. j : calls[k].is # "bag"

\* Each recursion being unfolded is a call with no bag above it, up to n.
Unrolled(calls, U, n) ==
  \A p \in U : \E i \in 1 .. n : calls[i].is = "unfold" /\ calls[i].pair = p /\ NoBag(calls, i, n)

Unrolls ==
  /\ Unrolled(stack, unfolding, Len(stack))
  /\ \A b \in 1 .. Len(stack) : BagAt(b) => Unrolled(stack, stack[b].unfolding, b - 1)

Descends(R) ==
  \A j \in 1 .. Len(stack) + 1 : \A i \in 1 .. j - 1 :
    NoBag(stack, i, j - 1) =>
      /\ R[CalleeAt(j)] <= R[stack[i].pair]
      /\ stack[i].is = "unfold" => R[CalleeAt(j)] < R[stack[i].pair]

LEMMA UnrolledSame ==
  ASSUME NEW old, NEW new, NEW n \in Nat, NEW U, Unrolled(old, U, n),
         \A i \in 1 .. n : new[i].is = old[i].is /\ new[i].pair = old[i].pair
  PROVE  Unrolled(new, U, n)
<1>1. ASSUME NEW p \in U
      PROVE  \E i \in 1 .. n : new[i].is = "unfold" /\ new[i].pair = p /\ NoBag(new, i, n)
  <2>1. PICK i \in 1 .. n : old[i].is = "unfold" /\ old[i].pair = p /\ NoBag(old, i, n)
    BY <1>1 DEF Unrolled
  <2>2. \A k \in i .. n : k \in 1 .. n
    OBVIOUS
  <2>3. NoBag(new, i, n)
    BY <2>1, <2>2 DEF NoBag
  <2> QED BY <2>1, <2>3
<1> QED BY <1>1 DEF Unrolled

\* One call more that is no bag, or one less.
LEMMA UnrolledMore ==
  ASSUME NEW calls, NEW n \in Nat, NEW U, Unrolled(calls, U, n), calls[n + 1].is # "bag"
  PROVE  Unrolled(calls, U, n + 1)
<1>1. ASSUME NEW p \in U
      PROVE  \E i \in 1 .. n + 1 :
               calls[i].is = "unfold" /\ calls[i].pair = p /\ NoBag(calls, i, n + 1)
  <2>1. PICK i \in 1 .. n : calls[i].is = "unfold" /\ calls[i].pair = p /\ NoBag(calls, i, n)
    BY <1>1 DEF Unrolled
  <2>2. \A k \in i .. n + 1 : k \in i .. n \/ k = n + 1
    OBVIOUS
  <2>3. NoBag(calls, i, n + 1)
    BY <2>1, <2>2 DEF NoBag
  <2> QED BY <2>1, <2>3
<1> QED BY <1>1 DEF Unrolled

LEMMA UnrolledLess ==
  ASSUME NEW calls, NEW n \in Nat \ {0}, NEW U, Unrolled(calls, U, n),
         calls[n].is = "unfold" => calls[n].pair \notin U
  PROVE  Unrolled(calls, U, n - 1)
<1>1. ASSUME NEW p \in U
      PROVE  \E i \in 1 .. n - 1 :
               calls[i].is = "unfold" /\ calls[i].pair = p /\ NoBag(calls, i, n - 1)
  <2>1. PICK i \in 1 .. n : calls[i].is = "unfold" /\ calls[i].pair = p /\ NoBag(calls, i, n)
    BY <1>1 DEF Unrolled
  <2>2. i # n
    BY <1>1, <2>1
  <2>3. i \in 1 .. n - 1 /\ \A k \in i .. n - 1 : k \in i .. n
    BY <2>2
  <2>4. NoBag(calls, i, n - 1)
    BY <2>1, <2>3 DEF NoBag
  <2> QED BY <2>1, <2>3, <2>4
<1> QED BY <1>1 DEF Unrolled

LEMMA UnrollsPushed ==
  ASSUME Typed, Unrolls, NEW x, Pushes(x),
         x.is = "bag" => x.unfolding = unfolding /\ unfolding' = {},
         x.is # "bag" => \A p \in unfolding' : p \in unfolding \/ (x.is = "unfold" /\ p = x.pair)
  PROVE  Unrolls'
<1>1. PICK n \in Nat : n = Len(stack)
  BY TypedParts
<1>2. PICK old, new : old = stack /\ new = stack'
  OBVIOUS
<1>3. /\ Len(stack') = n + 1 /\ new[n + 1] = x /\ \A i \in 1 .. n : new[i] = old[i]
  BY <1>1, <1>2, PushedStack
<1>4. /\ Unrolled(old, unfolding, n)
      /\ \A b \in 1 .. n : old[b].is = "bag" => Unrolled(old, old[b].unfolding, b - 1)
  BY <1>1, <1>2 DEF Unrolls, BagAt
<1>5. ASSUME NEW k \in 0 .. n, NEW U, Unrolled(old, U, k)
      PROVE  Unrolled(new, U, k)
  <2>1. k \in Nat /\ \A i \in 1 .. k : i \in 1 .. n
    OBVIOUS
  <2>2. \A i \in 1 .. k : new[i].is = old[i].is /\ new[i].pair = old[i].pair
    BY <1>3, <2>1
  <2> QED BY <1>5, <2>1, <2>2, UnrolledSame
<1>6. PICK U : U = unfolding
  OBVIOUS
<1>7. Unrolled(new, U, n)
  BY <1>4, <1>5, <1>6
<1>8. Unrolled(new, unfolding', n + 1)
  <2>1. CASE x.is = "bag"
    BY <2>1 DEF Unrolled
  <2>2. CASE x.is # "bag"
    <3>1. Unrolled(new, U, n + 1)
      BY <1>3, <1>7, <2>2, UnrolledMore
    <3>2. ASSUME NEW p \in unfolding'
          PROVE  \E i \in 1 .. n + 1 :
                   new[i].is = "unfold" /\ new[i].pair = p /\ NoBag(new, i, n + 1)
      <4>1. CASE p \in U
        BY <3>1, <4>1 DEF Unrolled
      <4>2. CASE p \notin U
        <5>1. x.is = "unfold" /\ p = x.pair
          BY <1>6, <2>2, <3>2, <4>2
        <5>2. NoBag(new, n + 1, n + 1)
          BY <1>3, <5>1 DEF NoBag
        <5>3. n + 1 \in 1 .. n + 1
          OBVIOUS
        <5> QED BY <1>3, <5>1, <5>2, <5>3
      <4> QED BY <4>1, <4>2
    <3> QED BY <3>2 DEF Unrolled
  <2> QED BY <2>1, <2>2
<1>9. \A b \in 1 .. n + 1 : new[b].is = "bag" => Unrolled(new, new[b].unfolding, b - 1)
  <2>1. TAKE b \in 1 .. n + 1
  <2>2. HAVE new[b].is = "bag"
  <2>3. CASE b = n + 1
    BY <1>3, <1>6, <1>7, <2>2, <2>3
  <2>4. CASE b \in 1 .. n
    <3>1. new[b] = old[b] /\ b - 1 \in 0 .. n
      BY <1>3, <2>4
    <3>2. PICK V : V = old[b].unfolding
      OBVIOUS
    <3>3. Unrolled(new, V, b - 1)
      BY <1>4, <1>5, <2>2, <2>4, <3>1, <3>2
    <3> QED BY <3>1, <3>2, <3>3
  <2> QED BY <2>3, <2>4
<1> QED BY <1>2, <1>3, <1>8, <1>9 DEF Unrolls, BagAt

LEMMA UnrollsSwapped ==
  ASSUME Typed, Unrolls, NEW x, Swaps(x), UNCHANGED unfolding
  PROVE  Unrolls'
<1>1. PICK n \in Nat \ {0} : n = Len(stack)
  BY SwappedStack
<1>2. PICK old, new, U : old = stack /\ new = stack' /\ U = unfolding
  OBVIOUS
<1>3. Len(stack') = n /\ new[n] = x /\ \A i \in 1 .. n - 1 : new[i] = old[i]
  BY <1>1, <1>2, SwappedStack
<1>4. /\ x.is = old[n].is /\ x.pair = old[n].pair
      /\ x.is = "bag" => x.unfolding = old[n].unfolding
  BY <1>1, <1>2 DEF Swaps, Peak
<1>5. \A i \in 1 .. n : /\ new[i].is = old[i].is /\ new[i].pair = old[i].pair
                        /\ new[i].is = "bag" => new[i].unfolding = old[i].unfolding
  <2>1. TAKE i \in 1 .. n
  <2>2. i = n \/ i \in 1 .. n - 1
    OBVIOUS
  <2> QED BY <1>3, <1>4, <2>2
<1>6. /\ Unrolled(old, U, n)
      /\ \A b \in 1 .. n : old[b].is = "bag" => Unrolled(old, old[b].unfolding, b - 1)
  BY <1>1, <1>2 DEF Unrolls, BagAt
<1>7. ASSUME NEW k \in 0 .. n, NEW V, Unrolled(old, V, k)
      PROVE  Unrolled(new, V, k)
  <2>1. k \in Nat /\ \A i \in 1 .. k : i \in 1 .. n
    OBVIOUS
  <2>2. \A i \in 1 .. k : new[i].is = old[i].is /\ new[i].pair = old[i].pair
    BY <1>5, <2>1
  <2> QED BY <1>7, <2>1, <2>2, UnrolledSame
<1>8. Unrolled(new, U, n)
  BY <1>6, <1>7
<1>9. \A b \in 1 .. n : new[b].is = "bag" => Unrolled(new, new[b].unfolding, b - 1)
  <2>1. TAKE b \in 1 .. n
  <2>2. HAVE new[b].is = "bag"
  <2>3. PICK V : V = old[b].unfolding
    OBVIOUS
  <2>4. b - 1 \in 0 .. n /\ Unrolled(old, V, b - 1) /\ new[b].unfolding = V
    BY <1>5, <1>6, <2>2, <2>3
  <2> QED BY <1>7, <2>4
<1> QED BY <1>2, <1>3, <1>8, <1>9 DEF Unrolls, BagAt

LEMMA UnrollsPopped ==
  ASSUME Typed, Unrolls, Pops, Unrolled(stack, unfolding', Len(stack) - 1)
  PROVE  Unrolls'
<1>1. PICK n \in Nat \ {0} : n = Len(stack)
  BY PoppedStack
<1>2. PICK old, new, U : old = stack /\ new = stack' /\ U = unfolding'
  OBVIOUS
<1>3. Len(stack') = n - 1 /\ \A i \in 1 .. n - 1 : new[i] = old[i]
  BY <1>1, <1>2, PoppedStack
<1>4. /\ Unrolled(old, U, n - 1)
      /\ \A b \in 1 .. n : old[b].is = "bag" => Unrolled(old, old[b].unfolding, b - 1)
  BY <1>1, <1>2 DEF Unrolls, BagAt
<1>5. ASSUME NEW k \in 0 .. n - 1, NEW V, Unrolled(old, V, k)
      PROVE  Unrolled(new, V, k)
  <2>1. k \in Nat /\ \A i \in 1 .. k : i \in 1 .. n - 1
    OBVIOUS
  <2>2. \A i \in 1 .. k : new[i].is = old[i].is /\ new[i].pair = old[i].pair
    BY <1>3, <2>1
  <2> QED BY <1>5, <2>1, <2>2, UnrolledSame
<1>6. n - 1 \in 0 .. n - 1
  OBVIOUS
<1>7. Unrolled(new, U, n - 1)
  BY <1>4, <1>5, <1>6
<1>8. \A b \in 1 .. n - 1 : new[b].is = "bag" => Unrolled(new, new[b].unfolding, b - 1)
  <2>1. TAKE b \in 1 .. n - 1
  <2>2. HAVE new[b].is = "bag"
  <2>3. PICK V : V = old[b].unfolding
    OBVIOUS
  <2>4. b - 1 \in 0 .. n - 1 /\ b \in 1 .. n /\ new[b] = old[b]
    BY <1>3
  <2>5. Unrolled(old, V, b - 1)
    BY <1>4, <2>2, <2>3, <2>4
  <2> QED BY <1>5, <2>3, <2>4, <2>5
<1> QED BY <1>2, <1>3, <1>7, <1>8 DEF Unrolls, BagAt

LEMMA UnrollsStart == Init => Unrolls
<1>1. SUFFICES ASSUME Init PROVE Unrolls
  OBVIOUS
<1>2. unfolding = {} /\ Len(stack) = 0 /\ 1 .. Len(stack) = {}
  BY <1>1 DEF Init
<1> QED BY <1>2 DEF Unrolls, Unrolled

LEMMA UnrollsStep ==
  ASSUME PathInv, Unrolls, Next
  PROVE  Unrolls'
<1>1. Typed /\ Counted /\ UNCHANGED <<gdoc, sdoc>>
  BY DocsStay DEF PathInv, TypeInv
<1>2. CASE Answer \/ Recall \/ Assume
  <2>1. UNCHANGED <<stack, unfolding>>
    BY <1>2 DEF Answer, Recall, Assume
  <2> QED BY <2>1 DEF Unrolls, BagAt
<1>3. CASE Unfold
  <2> DEFINE x == [is |-> "unfold", pair |-> ctl.pair]
  <2>1. Pushes(x) /\ unfolding' = unfolding \cup {x.pair} /\ x.is = "unfold"
    BY <1>1, <1>3, UnfoldMoves DEF Unfold
  <2> HIDE DEF x
  <2> QED BY <1>1, <2>1, UnrollsPushed
<1>4. ASSUME NEW x, Pushes(x), UNCHANGED unfolding, x.is \in {"every", "some"}
      PROVE  Unrolls'
  BY <1>1, <1>4, UnrollsPushed
<1>5. CASE DistributeEvery
  <2>1. PICK k \in KeysOf(ctl.pair[2].form) :
          Pushes([is |-> "every", pair |-> ctl.pair, now |-> k,
                  todo |-> KeysOf(ctl.pair[2].form) \ {k}, out |-> "yes"])
    BY <1>1, <1>5, EveryMoves
  <2> QED BY <1>4, <1>5, <2>1 DEF DistributeEvery
<1>6. CASE DistributeSome
  <2>1. PICK k \in KeysOf(ctl.pair[1].form) :
          Pushes([is |-> "some", pair |-> ctl.pair, now |-> k,
                  todo |-> KeysOf(ctl.pair[1].form) \ {k}])
    BY <1>1, <1>6, SomeMoves
  <2> QED BY <1>4, <1>6, <2>1 DEF DistributeSome
<1>7. CASE Enter
  <2>1. Pushes(EnterFrame) /\ EnterFrame.is = "bag" /\ EnterFrame.unfolding = unfolding
        /\ unfolding' = {}
    BY <1>1, <1>7, EnterMoves DEF Enter, EnterFrame
  <2> QED BY <1>1, <2>1, UnrollsPushed
<1>8. ASSUME NEW x, Swaps(x), UNCHANGED unfolding
      PROVE  Unrolls'
  BY <1>1, <1>8, UnrollsSwapped
<1>9. ASSUME Pops, unfolding' \subseteq unfolding,
             Peak.is = "unfold" => Peak.pair \notin unfolding'
      PROVE  Unrolls'
  <2>1. PICK n \in Nat \ {0} : n = Len(stack)
    BY <1>1, <1>9, PoppedStack
  <2> DEFINE U == unfolding
             V == unfolding'
  <2>2. Unrolled(stack, U, n) /\ V \subseteq U
    BY <1>9, <2>1 DEF Unrolls
  <2>3. Unrolled(stack, V, n)
    BY <2>2 DEF Unrolled
  <2>4. stack[n].is = "unfold" => stack[n].pair \notin V
    BY <1>9, <2>1 DEF Peak
  <2>5. Unrolled(stack, V, n - 1)
    BY <2>3, <2>4, UnrolledLess
  <2> QED BY <1>1, <1>9, <2>1, <2>5, UnrollsPopped
<1>10. CASE Folded
  <2>1. Pops /\ unfolding' = unfolding \ {Peak.pair}
    BY <1>1, <1>10, FoldedMoves DEF Folded
  <2> QED BY <1>9, <2>1
<1>11. CASE EveryNext
  <2>1. UNCHANGED unfolding /\ Peak.is # "unfold"
    BY <1>11 DEF EveryNext, Returns, Peak
  <2>2. Pops \/ \E x : Swaps(x)
    BY <1>1, <1>11, EveryNextMoves
  <2> QED BY <1>8, <1>9, <2>1, <2>2
<1>12. CASE SomeNext
  <2>1. UNCHANGED unfolding /\ Peak.is # "unfold"
    BY <1>12 DEF SomeNext, Returns, Peak
  <2>2. Pops \/ \E x : Swaps(x)
    BY <1>1, <1>12, SomeNextMoves
  <2> QED BY <1>8, <1>9, <2>1, <2>2
<1>13. CASE Member
  <2>1. PICK x : Swaps(x)
    BY <1>1, <1>13, MemberMoves
  <2> QED BY <1>8, <1>13, <2>1 DEF Member
<1>14. CASE Settle
  <2>1. Pops /\ unfolding' = Peak.unfolding /\ stack # <<>> /\ Peak.is = "bag"
    BY <1>1, <1>14, SettleMoves DEF Settle, Returns, Peak
  <2>2. Len(stack) \in 1 .. Len(stack)
    BY <1>1, <2>1, PoppedStack
  <2>3. Unrolled(stack, unfolding', Len(stack) - 1)
    BY <2>1, <2>2 DEF Unrolls, BagAt, Peak
  <2> QED BY <1>1, <2>1, <2>3, UnrollsPopped
<1> QED BY <1>2, <1>3, <1>5, <1>6, <1>7, <1>10, <1>11, <1>12, <1>13, <1>14 DEF Next

\* What a call other than of a bag waits for ranks no higher than its own
\* pair, and lower if it unfolds.
LEMMA CalleeFalls ==
  ASSUME gdoc \in Docs, sdoc \in Docs, NEW R \in [Pairs -> Nat], Falls(R),
         NEW f \in StackFrame, FrameOK(f), f.is # "bag"
  PROVE  /\ R[Callee(f)] \in Nat /\ R[f.pair] \in Nat
         /\ R[Callee(f)] <= R[f.pair]
         /\ f.is = "unfold" => R[Callee(f)] < R[f.pair]
<1>1. f.pair \in Pairs /\ Callee(f) \in Pairs /\ f.is \in {"unfold", "every", "some", "bag"}
  BY CalleeType, FrameShapes
<1>2. R[Callee(f)] \in Nat /\ R[f.pair] \in Nat
  BY <1>1
<1>3. CASE f.is = "unfold"
  <2>1. Callee(f) = Unfolded(gdoc, sdoc, f.pair) /\ Recurs(f.pair)
    BY <1>3 DEF Callee, FrameOK, Recurs
  <2>2. R[Callee(f)] < R[f.pair]
    BY <1>1, <2>1 DEF Falls
  <2> QED BY <1>2, <2>2
<1>4. CASE f.is = "every"
  <2>1. /\ Callee(f) = Every(f.pair, f.now) /\ f.pair[2].form.is = "alts"
        /\ f.now \in KeysOf(f.pair[2].form)
    BY <1>4 DEF Callee, FrameOK
  <2> QED BY <1>1, <1>2, <1>4, <2>1 DEF Falls
<1>5. CASE f.is = "some"
  <2>1. /\ Callee(f) = Some(f.pair, f.now) /\ f.pair[1].form.is = "alts"
        /\ f.now \in KeysOf(f.pair[1].form)
    BY <1>5 DEF Callee, FrameOK
  <2> QED BY <1>1, <1>2, <1>5, <2>1 DEF Falls
<1> QED BY <1>1, <1>3, <1>4, <1>5

LEMMA DescendsTop ==
  ASSUME Typed, NEW R \in [Pairs -> Nat], Falls(R), Descends(R), NEW x \in StackFrame, FrameOK(x),
         NEW m \in 1 .. Len(stack) + 1, x.pair = CalleeAt(m), NEW new, new[m] = x,
         \A i \in 1 .. m - 1 : new[i] = stack[i]
  PROVE  \A i \in 1 .. m : NoBag(new, i, m) =>
           /\ R[Callee(x)] <= R[new[i].pair]
           /\ new[i].is = "unfold" => R[Callee(x)] < R[new[i].pair]
<1>1. TAKE i \in 1 .. m
<1>2. HAVE NoBag(new, i, m)
<1>3. m \in Nat /\ Len(stack) \in Nat /\ gdoc \in Docs /\ sdoc \in Docs
  BY TypedParts DEF Typed
<1>4. m \in i .. m
  BY <1>3
<1>5. x.is # "bag"
  BY <1>2, <1>4 DEF NoBag
<1>6. /\ R[Callee(x)] \in Nat /\ R[x.pair] \in Nat /\ R[Callee(x)] <= R[x.pair]
      /\ x.is = "unfold" => R[Callee(x)] < R[x.pair]
  BY <1>3, <1>5, CalleeFalls
<1>7. CASE i = m
  BY <1>6, <1>7
<1>8. CASE i # m
  <2>1. i \in 1 .. m - 1 /\ i \in 1 .. Len(stack) /\ new[i] = stack[i]
    BY <1>3, <1>8
  <2>2. \A k \in i .. m - 1 : k \in i .. m /\ k \in 1 .. m - 1
    BY <1>3, <2>1
  <2>3. NoBag(stack, i, m - 1)
    BY <1>2, <2>2 DEF NoBag
  <2>4. /\ R[x.pair] <= R[stack[i].pair]
        /\ stack[i].is = "unfold" => R[x.pair] < R[stack[i].pair]
    BY <2>1, <2>3 DEF Descends
  <2>5. R[stack[i].pair] \in Nat
    BY <2>1, TypedParts, FrameShapes
  <2> QED BY <1>6, <2>1, <2>4, <2>5
<1> QED BY <1>7, <1>8

LEMMA DescendsStep ==
  ASSUME Typed, Chain, Moves, UNCHANGED <<gdoc, sdoc>>,
         NEW R \in [Pairs -> Nat], Falls(R), Descends(R)
  PROVE  Descends(R)'
<1>1. PICK n \in Nat : n = Len(stack)
  BY TypedParts
<1>2. PICK new : new = stack'
  OBVIOUS
\* The calls below m stay, and the one at m, if there is one, is x.
<1>3. ASSUME NEW m \in 0 .. n + 1, \A i \in 1 .. m - 1 : new[i] = stack[i]
      PROVE  \A j \in 1 .. m : \A i \in 1 .. j - 1 : NoBag(new, i, j - 1) =>
               /\ R[CalleeAt(j)'] <= R[new[i].pair]
               /\ new[i].is = "unfold" => R[CalleeAt(j)'] < R[new[i].pair]
  <2>1. TAKE j \in 1 .. m
  <2>2. TAKE i \in 1 .. j - 1
  <2>3. HAVE NoBag(new, i, j - 1)
  <2>4. /\ j \in 1 .. n + 1 /\ i \in 1 .. m - 1 /\ m - 1 \in Nat
        /\ \A k \in i .. j - 1 : k \in 1 .. m - 1
    OBVIOUS
  <2>5. CalleeAt(j)' = CalleeAt(j)
    <3>1. PICK l \in Nat : l = m - 1
      BY <2>4
    <3>2. \A k \in 1 .. l : stack'[k] = stack[k]
      BY <1>2, <1>3, <3>1
    <3>3. \A k \in 1 .. l + 1 : CalleeAt(k)' = CalleeAt(k)
      BY <3>2, OpenStays
    <3> QED BY <3>1, <3>3
  <2>6. NoBag(stack, i, j - 1)
    BY <1>3, <2>3, <2>4 DEF NoBag
  <2>7. new[i] = stack[i]
    BY <1>3, <2>4
  <2> QED BY <1>1, <2>4, <2>5, <2>6, <2>7 DEF Descends
<1>4. ASSUME NEW m \in 1 .. n + 1, NEW x \in StackFrame, FrameOK(x), x.pair = CalleeAt(m),
             Len(stack') = m, new[m] = x, \A i \in 1 .. m - 1 : new[i] = stack[i]
      PROVE  Descends(R)'
  <2>1. CalleeAt(m + 1)' = Callee(x)
    <3>1. CalleeAt(m + 1)' = Callee(x)'
      BY <1>2, <1>4 DEF CalleeAt
    <3> QED BY <3>1, CalleeStays
  <2>2. \A i \in 1 .. m : NoBag(new, i, m) =>
          /\ R[Callee(x)] <= R[new[i].pair]
          /\ new[i].is = "unfold" => R[Callee(x)] < R[new[i].pair]
    BY <1>1, <1>4, DescendsTop
  <2>3. ASSUME NEW j \in 1 .. m + 1, NEW i \in 1 .. j - 1, NoBag(new, i, j - 1)
        PROVE  /\ R[CalleeAt(j)'] <= R[new[i].pair]
               /\ new[i].is = "unfold" => R[CalleeAt(j)'] < R[new[i].pair]
    <3>1. CASE j = m + 1
      BY <2>1, <2>2, <2>3, <3>1
    <3>2. CASE j # m + 1
      <4>1. j \in 1 .. m /\ m \in 0 .. n + 1
        BY <3>2
      <4> QED BY <1>3, <1>4, <2>3, <4>1
    <3> QED BY <3>1, <3>2
  <2> QED BY <1>2, <1>4, <2>3 DEF Descends
<1>5. CASE Answers
  <2>1. stack' = stack /\ n + 1 \in 0 .. n + 1
    BY <1>1, <1>5 DEF Answers
  <2> QED BY <1>1, <1>2, <1>3, <2>1 DEF Descends
<1>6. ASSUME NEW x \in StackFrame, Pushes(x)
      PROVE  Descends(R)'
  <2>1. Len(stack') = n + 1 /\ new[n + 1] = x /\ \A i \in 1 .. n : new[i] = stack[i]
    BY <1>1, <1>2, <1>6, PushedStack
  <2>2. x.pair = CalleeAt(n + 1) /\ FrameOK(x)
    BY <1>1, <1>6 DEF Pushes, Chain, Current
  <2>3. n + 1 \in 1 .. n + 1 /\ n + 1 - 1 = n
    OBVIOUS
  <2> QED BY <1>4, <2>1, <2>2, <2>3
<1>7. ASSUME NEW x \in StackFrame, Swaps(x)
      PROVE  Descends(R)'
  <2>1. /\ n \in Nat \ {0} /\ Len(stack') = n /\ new[n] = x
        /\ \A i \in 1 .. n - 1 : new[i] = stack[i]
    BY <1>1, <1>2, <1>7, SwappedStack
  <2>2. n \in 1 .. n /\ n \in 1 .. n + 1
    BY <2>1
  <2>3. x.pair = CalleeAt(n) /\ FrameOK(x)
    BY <1>1, <1>7, <2>2 DEF Swaps, Chain, Peak
  <2> QED BY <1>4, <2>1, <2>2, <2>3
<1>8. CASE Pops
  <2>1. /\ n \in Nat \ {0} /\ Len(stack') = n - 1
        /\ \A i \in 1 .. n - 1 : new[i] = stack[i]
    BY <1>1, <1>2, <1>8, PoppedStack
  <2>2. n \in 0 .. n + 1 /\ Len(stack') + 1 = n
    BY <2>1
  <2> QED BY <1>2, <1>3, <2>1, <2>2 DEF Descends
<1> QED BY <1>5, <1>6, <1>7, <1>8 DEF Moves

(***************************************************************************)
(* With ranks, a recursion met is never one being unfolded.                *)
(***************************************************************************)
Ranked == \E R \in [Pairs -> Nat] : Falls(R)
Fresh == \A i \in 1 .. Len(stack) : Distributes(i) => ~Recurs(stack[i].pair)
RankInv == /\ Unrolls
           /\ \A R \in [Pairs -> Nat] : Falls(R) => Descends(R)
           /\ Ranked => Fresh

LEMMA Unrecursed ==
  ASSUME PathInv, RankInv, Ranked, Calls
  PROVE  ctl.pair \notin unfolding
<1>1. SUFFICES ASSUME ctl.pair \in unfolding PROVE FALSE
  OBVIOUS
<1>2. PICK R \in [Pairs -> Nat] : Falls(R)
  BY DEF Ranked
<1>3. Descends(R) /\ Unrolls /\ Typed /\ Chain
  BY <1>2 DEF RankInv, PathInv, TypeInv
<1>4. PICK n \in Nat : n = Len(stack)
  BY <1>3, TypedParts
<1>5. PICK i \in 1 .. n : /\ stack[i].is = "unfold" /\ stack[i].pair = ctl.pair
                          /\ NoBag(stack, i, n)
  BY <1>1, <1>3, <1>4 DEF Unrolls, Unrolled
<1>6. n + 1 \in 1 .. n + 1 /\ i \in 1 .. n + 1 - 1 /\ n + 1 - 1 = n
  OBVIOUS
<1>7. R[CalleeAt(n + 1)] < R[stack[i].pair]
  BY <1>3, <1>4, <1>5, <1>6 DEF Descends
<1>8. ctl.pair = CalleeAt(n + 1) /\ ctl.pair \in Pairs
  BY <1>3, <1>4, TypedParts DEF Chain, Current
<1>9. R[ctl.pair] \in Nat
  BY <1>8
<1> QED BY <1>5, <1>7, <1>8, <1>9

LEMMA FreshMoves ==
  ASSUME Typed, Fresh, UNCHANGED <<gdoc, sdoc>>,
         \/ Answers
         \/ \E x \in StackFrame : \/ Swaps(x)
                                  \/ Pushes(x) /\ (x.is \in {"every", "some"} => ~Recurs(x.pair))
         \/ Pops
  PROVE  Fresh'
<1>1. PICK n \in Nat : n = Len(stack)
  BY TypedParts
<1>2. PICK old, new : old = stack /\ new = stack'
  OBVIOUS
<1>3. \A i \in 1 .. n : old[i].is \in {"every", "some"} => ~Recurs(old[i].pair)
  BY <1>1, <1>2 DEF Fresh, Distributes
<1>4. SUFFICES \A i \in 1 .. Len(new) : new[i].is \in {"every", "some"} => ~Recurs(new[i].pair)
  BY <1>2 DEF Fresh, Distributes
<1>5. CASE Answers
  BY <1>1, <1>2, <1>3, <1>5 DEF Answers
<1>6. ASSUME NEW x, Pushes(x), x.is \in {"every", "some"} => ~Recurs(x.pair)
      PROVE  \A i \in 1 .. Len(new) : new[i].is \in {"every", "some"} => ~Recurs(new[i].pair)
  <2>1. Len(new) = n + 1 /\ new[n + 1] = x /\ \A i \in 1 .. n : new[i] = old[i]
    BY <1>1, <1>2, <1>6, PushedStack
  <2>2. \A i \in 1 .. n + 1 : i = n + 1 \/ i \in 1 .. n
    OBVIOUS
  <2> QED BY <1>3, <1>6, <2>1, <2>2
<1>7. ASSUME NEW x, Swaps(x)
      PROVE  \A i \in 1 .. Len(new) : new[i].is \in {"every", "some"} => ~Recurs(new[i].pair)
  <2>1. Len(new) = n /\ n \in Nat \ {0} /\ new[n] = x /\ \A i \in 1 .. n - 1 : new[i] = old[i]
    BY <1>1, <1>2, <1>7, SwappedStack
  <2>2. x.is = old[n].is /\ x.pair = old[n].pair
    BY <1>1, <1>2, <1>7 DEF Swaps, Peak
  <2>3. \A i \in 1 .. n : i = n \/ i \in 1 .. n - 1
    OBVIOUS
  <2> QED BY <1>3, <2>1, <2>2, <2>3
<1>8. CASE Pops
  <2>1. Len(new) = n - 1 /\ \A i \in 1 .. n - 1 : new[i] = old[i] /\ i \in 1 .. n
    BY <1>1, <1>2, <1>8, PoppedStack
  <2> QED BY <1>3, <2>1
<1> QED BY <1>5, <1>6, <1>7, <1>8

LEMMA FreshStep ==
  ASSUME PathInv, RankInv, Ranked, Next
  PROVE  Fresh'
<1>1. Typed /\ Counted /\ Fresh /\ TypeInv /\ UNCHANGED <<gdoc, sdoc>>
  BY DocsStay DEF PathInv, TypeInv, RankInv
<1>2. Walks => ~Recurs(ctl.pair)
  BY Unrecursed DEF Walks, Unfolds, Recurs
<1>3. \A x : Pushes(x) \/ Swaps(x) => x \in StackFrame
  BY DEF Pushes, Swaps
<1>4. CASE Answer \/ Recall \/ Assume
  BY <1>1, <1>4, AnswerMoves, RecallMoves, AssumeMoves, FreshMoves
<1>5. CASE Unfold \/ Enter
  <2>1. \E x : Pushes(x) /\ x.is \notin {"every", "some"}
    BY <1>1, <1>5, UnfoldMoves, EnterMoves DEF EnterFrame
  <2> QED BY <1>1, <1>3, <2>1, FreshMoves
<1>6. CASE DistributeEvery
  <2>1. PICK x : Pushes(x)
    BY <1>1, <1>6, EveryMoves
  <2>2. ~Recurs(x.pair)
    BY <1>2, <1>6, <2>1 DEF Pushes, DistributeEvery
  <2> QED BY <1>1, <1>3, <2>1, <2>2, FreshMoves
<1>7. CASE DistributeSome
  <2>1. PICK x : Pushes(x)
    BY <1>1, <1>7, SomeMoves
  <2>2. ~Recurs(x.pair)
    BY <1>2, <1>7, <2>1 DEF Pushes, DistributeSome
  <2> QED BY <1>1, <1>3, <2>1, <2>2, FreshMoves
<1>8. CASE EveryNext \/ SomeNext \/ Member
  <2>1. Pops \/ \E x : Swaps(x)
    BY <1>1, <1>8, EveryNextMoves, SomeNextMoves, MemberMoves
  <2> QED BY <1>1, <1>3, <2>1, FreshMoves
<1>9. CASE Folded \/ Settle
  BY <1>1, <1>9, FoldedMoves, SettleMoves, FreshMoves
<1> QED BY <1>4, <1>5, <1>6, <1>7, <1>8, <1>9 DEF Next

LEMMA RankStays ==
  ASSUME UNCHANGED <<gdoc, sdoc>>
  PROVE  /\ Pairs' = Pairs /\ (Ranked' <=> Ranked)
         /\ \A R : Falls(R)' <=> Falls(R)
<1>1. Pairs' = Pairs
  BY DEF Pairs
<1>2. \A R : Falls(R)' <=> Falls(R)
  BY <1>1 DEF Falls
<1>3. Ranked' <=> Ranked
  BY <1>1, <1>2 DEF Ranked
<1> QED BY <1>1, <1>2, <1>3

LEMMA RankStart == Init => RankInv
<1>1. SUFFICES ASSUME Init PROVE RankInv
  OBVIOUS
<1>2. Len(stack) = 0 /\ 1 .. Len(stack) = {}
  BY <1>1 DEF Init
<1>3. \A j \in 1 .. Len(stack) + 1 : 1 .. j - 1 = {}
  BY <1>2
<1>4. \A R : Descends(R)
  BY <1>3 DEF Descends
<1> QED BY <1>1, <1>2, <1>4, UnrollsStart DEF RankInv, Fresh

LEMMA RankStep == PathInv /\ RankInv /\ [Next]_vars => RankInv'
<1>1. SUFFICES ASSUME PathInv, RankInv, [Next]_vars PROVE RankInv'
  OBVIOUS
<1>2. CASE Next
  <2>1. Typed /\ Chain /\ Moves /\ UNCHANGED <<gdoc, sdoc>>
    BY <1>1, <1>2, NextMoves, DocsStay DEF PathInv, TypeInv
  <2>2. Unrolls'
    BY <1>1, <1>2, UnrollsStep DEF RankInv
  <2>3. ASSUME NEW R \in [Pairs -> Nat], Falls(R)
        PROVE  Descends(R)'
    BY <1>1, <2>1, <2>3, DescendsStep DEF RankInv
  <2>4. Ranked => Fresh'
    BY <1>1, <1>2, FreshStep
  <2> QED BY <2>1, <2>2, <2>3, <2>4, RankStays DEF RankInv
<1>3. CASE UNCHANGED vars
  <2>1. gdoc' = gdoc /\ sdoc' = sdoc /\ stack' = stack /\ unfolding' = unfolding
    BY <1>3 DEF vars
  <2>2. Unrolls'
    BY <1>1, <2>1 DEF RankInv, Unrolls, BagAt
  <2>3. \A i : CalleeAt(i)' = CalleeAt(i)
    BY <2>1 DEF CalleeAt, Callee
  <2>4. \A R : Descends(R) => Descends(R)'
    BY <2>1, <2>3 DEF Descends
  <2>5. Fresh => Fresh'
    BY <2>1 DEF Fresh, Distributes
  <2> QED BY <1>1, <2>1, <2>2, <2>4, <2>5, RankStays DEF RankInv
<1> QED BY <1>1, <1>2, <1>3

(***************************************************************************)
(* No claim says more than the walk answers.  A claim is an answer to      *)
(* every pair that the rules, given those answers, bear out.               *)
(***************************************************************************)
AtMost(a, b) == a = "no" \/ b = "yes" \/ a = b
Claim(T) == \A p \in Pairs : AtMost(T[p], Ruled(gdoc, sdoc, T, p))

\* What a claim says of a pair of alternatives.
AdmitsEach(T, p, k) ==
  /\ T[p] = "yes" => T[Every(p, k)] = "yes"
  /\ T[p] # "no" /\ IsConcrete(p[2].form.at[k]) => T[Every(p, k)] = "yes"
NeedsOne(T, p) == T[p] = "yes" \/ (T[p] = "undecided" /\ IsConcrete(p[2].form))

LEMMA WorstFacts ==
  ASSUME NEW A \in SUBSET Tri
  PROVE  /\ Worst(A) \in Tri
         /\ Worst(A) = "yes" => \A a \in A : a = "yes"
         /\ Worst(A) # "no" => "no" \notin A
         /\ \A a \in A : AtMost(Worst(A), a)
BY DEF Worst, Tri, AtMost

LEMMA ClaimFacts ==
  ASSUME gdoc \in Docs, sdoc \in Docs, NEW T \in [Pairs -> Tri], Claim(T), NEW p \in Pairs
  PROVE  LET g == p[1].form
             s == p[2].form
         IN  /\ Recurs(p) => AtMost(T[p], T[Unfolded(gdoc, sdoc, p)])
             /\ ~Recurs(p) /\ ~Walked(p) => AtMost(T[p], Outright(g, s))
             /\ ~Recurs(p) /\ Walked(p) /\ s.is = "alts" => \A k \in KeysOf(s) : AdmitsEach(T, p, k)
             /\ ~Recurs(p) /\ Walked(p) /\ s.is # "alts" /\ g.is = "alts" /\ NeedsOne(T, p) =>
                  \E k \in KeysOf(g) : T[Some(p, k)] = "yes"
             /\ ~Recurs(p) /\ Walked(p) /\ s.is = "bag" /\ g.is = "bag" =>
                  /\ BagFault(g, s) => T[p] = "no"
                  /\ \A t \in Tasks(p[1], p[2]) : AtMost(T[p], T[t])
<1> DEFINE g == p[1].form
           s == p[2].form
           r == Ruled(gdoc, sdoc, T, p)
<1>1. AtMost(T[p], r) /\ T[p] \in Tri
  BY DEF Claim
<1>2. Recurs(p) => r = T[Unfolded(gdoc, sdoc, p)]
  BY DEF Ruled, Recurs
<1>3. ~Recurs(p) /\ ~Walked(p) => r = Outright(g, s)
  BY DEF Ruled, Recurs, Walked
<1>4. ASSUME ~Recurs(p), Walked(p), s.is = "alts"
      PROVE  \A k \in KeysOf(s) : AdmitsEach(T, p, k)
  <2> DEFINE a(k) == IF T[Every(p, k)] = "yes" THEN "yes"
                     ELSE IF IsConcrete(s.at[k]) THEN "no" ELSE "undecided"
  <2>1. r = Worst({a(k) : k \in KeysOf(s)})
    BY <1>4 DEF Ruled, Recurs, Walked
  <2>2. {a(k) : k \in KeysOf(s)} \in SUBSET Tri
    BY DEF Tri
  <2>3. \A k \in KeysOf(s) : AtMost(r, a(k))
    BY <2>1, <2>2, WorstFacts
  <2>4. \A k \in KeysOf(s) : AtMost(T[p], a(k))
    BY <1>1, <2>3 DEF AtMost
  <2>5. ASSUME NEW k \in KeysOf(s)
        PROVE  AdmitsEach(T, p, k)
    <3>1. AtMost(T[p], a(k))
      BY <2>4
    <3> QED BY <3>1 DEF AdmitsEach, AtMost
  <2> QED BY <2>5
<1>5. ASSUME ~Recurs(p), Walked(p), s.is # "alts", g.is = "alts", NeedsOne(T, p)
      PROVE  \E k \in KeysOf(g) : T[Some(p, k)] = "yes"
  <2>1. r = IF \E k \in KeysOf(g) : T[Some(p, k)] = "yes" THEN "yes"
            ELSE IF IsConcrete(s) THEN "no" ELSE "undecided"
    BY <1>5 DEF Ruled, Recurs, Walked
  <2> QED BY <1>1, <1>5, <2>1 DEF AtMost, NeedsOne
<1>6. ASSUME ~Recurs(p), Walked(p), s.is = "bag", g.is = "bag"
      PROVE  /\ BagFault(g, s) => T[p] = "no"
             /\ \A t \in Tasks(p[1], p[2]) : AtMost(T[p], T[t])
  <2> DEFINE A == {T[t] : t \in Tasks(p[1], p[2])}
                    \union {IF BagFault(g, s) THEN "no" ELSE "yes"}
  <2>1. r = Worst(A)
    BY <1>6 DEF Ruled, Recurs, Walked
  <2>2. Tasks(p[1], p[2]) \subseteq Pairs
    BY <1>6, PairFacts
  <2>3. A \in SUBSET Tri
    BY <2>2 DEF Tri
  <2>4. \A a \in A : AtMost(r, a)
    BY <2>1, <2>3, WorstFacts
  <2>5. \A a \in A : AtMost(T[p], a)
    BY <1>1, <2>4 DEF AtMost
  <2>6. ASSUME NEW t \in Tasks(p[1], p[2])
        PROVE  AtMost(T[p], T[t])
    BY <2>5
  <2>7. ASSUME BagFault(g, s)
        PROVE  T[p] = "no"
    <3>1. "no" \in A
      BY <2>7
    <3> QED BY <2>5, <3>1 DEF AtMost
  <2> QED BY <2>6, <2>7
<1> QED BY <1>1, <1>2, <1>3, <1>4, <1>5, <1>6

\* What a call leaves the claim: it has found nothing against it so far.
Bounds(T, f) ==
  /\ f.is = "unfold" => AtMost(T[f.pair], T[Callee(f)])
  /\ f.is \in {"every", "bag"} => AtMost(T[f.pair], f.out)
  /\ f.is = "bag" => \A t \in f.todo \union {f.now} : AtMost(T[f.pair], T[t])
  /\ f.is = "every" => \A k \in f.todo \union {f.now} : AdmitsEach(T, f.pair, k)
  /\ f.is = "some" /\ NeedsOne(T, f.pair) =>
       \E k \in f.todo \union {f.now} : T[Some(f.pair, k)] = "yes"

Fits(T) ==
  /\ \A i \in 1 .. Len(stack) : Bounds(T, stack[i])
  /\ ctl.go = "return" => AtMost(T[Current], ctl.out)
  /\ \A p \in DOMAIN settled : AtMost(T[p], settled[p])

LEMMA FitsMoves ==
  ASSUME Typed, Chain, UNCHANGED <<gdoc, sdoc>>, NEW T \in [Pairs -> Tri], Fits(T),
         \A p \in DOMAIN settled' : AtMost(T[p], settled'[p]),
         \/ Answers /\ AtMost(T[ctl.pair], ctl'.out)
         \/ \E x \in StackFrame : (Pushes(x) \/ Swaps(x)) /\ Bounds(T, x)
         \/ Pops /\ AtMost(T[Peak.pair], ctl'.out)
  PROVE  Fits(T)'
<1>1. PICK n \in Nat : n = Len(stack)
  BY TypedParts
<1>2. PICK old, new : old = stack /\ new = stack'
  OBVIOUS
<1>3. \A f : Bounds(T, f)' <=> Bounds(T, f)
  BY CalleeStays DEF Bounds
<1>4. \A i \in 1 .. n : Bounds(T, old[i])
  BY <1>1, <1>2 DEF Fits
<1>5. SUFFICES /\ \A i \in 1 .. Len(new) : Bounds(T, new[i])
               /\ ctl'.go = "return" => AtMost(T[Current'], ctl'.out)
  BY <1>2, <1>3 DEF Fits
<1>6. CASE Answers /\ AtMost(T[ctl.pair], ctl'.out)
  <2>1. Current' = ctl.pair
    BY <1>1, <1>6, OpenStays DEF Answers, Chain, Current, CalleeAt, Callee
  <2> QED BY <1>1, <1>2, <1>4, <1>6, <2>1 DEF Answers
<1>7. ASSUME NEW x, Pushes(x), Bounds(T, x)
      PROVE  /\ \A i \in 1 .. Len(new) : Bounds(T, new[i])
             /\ ctl'.go = "return" => AtMost(T[Current'], ctl'.out)
  <2>1. Len(new) = n + 1 /\ new[n + 1] = x /\ \A i \in 1 .. n : new[i] = old[i]
    BY <1>1, <1>2, <1>7, PushedStack
  <2>2. \A i \in 1 .. n + 1 : i = n + 1 \/ i \in 1 .. n
    OBVIOUS
  <2>3. ctl'.go = "return" => ctl'.out = "yes"
    BY <1>7 DEF Pushes, Call, Return
  <2> QED BY <1>4, <1>7, <2>1, <2>2, <2>3 DEF AtMost
<1>8. ASSUME NEW x, Swaps(x), Bounds(T, x)
      PROVE  /\ \A i \in 1 .. Len(new) : Bounds(T, new[i])
             /\ ctl'.go = "return" => AtMost(T[Current'], ctl'.out)
  <2>1. Len(new) = n /\ n \in Nat \ {0} /\ new[n] = x /\ \A i \in 1 .. n - 1 : new[i] = old[i]
    BY <1>1, <1>2, <1>8, SwappedStack
  <2>2. \A i \in 1 .. n : i = n \/ i \in 1 .. n - 1
    OBVIOUS
  <2>3. ctl'.go # "return"
    BY <1>8 DEF Swaps, Call
  <2>4. \A i \in 1 .. n - 1 : i \in 1 .. n
    BY <2>1
  <2> QED BY <1>4, <1>8, <2>1, <2>2, <2>3, <2>4
<1>9. CASE Pops /\ AtMost(T[Peak.pair], ctl'.out)
  <2>1. Len(new) = n - 1 /\ n \in Nat \ {0} /\ \A i \in 1 .. n - 1 : new[i] = old[i] /\ i \in 1 .. n
    BY <1>1, <1>2, <1>9, PoppedStack
  <2>2. CalleeAt(n)' = CalleeAt(n)
    <3>1. n - 1 \in Nat /\ n \in 1 .. (n - 1) + 1
      BY <2>1
    <3>2. \A i \in 1 .. n - 1 : stack'[i] = stack[i]
      BY <1>2, <2>1
    <3> QED BY <3>1, <3>2, OpenStays
  <2>3. Current' = CalleeAt(n)'
    <3>1. Len(stack') + 1 = n
      BY <1>2, <2>1
    <3> QED BY <3>1 DEF Current
  <2>4. Peak.pair = CalleeAt(n)
    BY <1>1, <2>1 DEF Peak, Chain
  <2> QED BY <1>4, <1>9, <2>1, <2>2, <2>3, <2>4
<1> QED BY <1>6, <1>7, <1>8, <1>9

LEMMA FitsAnswer ==
  ASSUME PathInv, RankInv, Ranked, NEW T \in [Pairs -> Tri], Claim(T), Fits(T),
         Answer \/ Recall \/ Assume
  PROVE  Fits(T)'
<1>1. /\ Typed /\ Counted /\ Chain /\ gdoc \in Docs /\ sdoc \in Docs
      /\ UNCHANGED <<gdoc, sdoc, settled>> /\ Answers
  BY AnswerMoves, RecallMoves, AssumeMoves DEF PathInv, TypeInv, Typed, Answer, Recall, Assume
<1>2. ctl.pair \in Pairs /\ Calls
  BY <1>1, TypedParts DEF Answers
<1>3. AtMost(T[ctl.pair], ctl'.out)
  <2>1. CASE Answer
    <3>1. /\ ~Unfolds(ctl.pair) /\ ctl'.out = Outright(ctl.pair[1].form, ctl.pair[2].form)
          /\ ~Walked(ctl.pair)
      BY <2>1 DEF Answer, Return, Walked
    <3>2. ~Recurs(ctl.pair)
      BY <1>2, <3>1, Unrecursed DEF Unfolds, Recurs
    <3> QED BY <1>1, <1>2, <3>1, <3>2, ClaimFacts
  <2>2. CASE Recall
    BY <2>2 DEF Recall, Return, Fits
  <2>3. CASE Assume
    BY <2>3 DEF Assume, Return, AtMost
  <2> QED BY <2>1, <2>2, <2>3
<1>4. \A p \in DOMAIN settled' : AtMost(T[p], settled'[p])
  BY <1>1 DEF Fits
<1> QED BY <1>1, <1>3, <1>4, FitsMoves

\* What is begun asks what the rules ask.
LEMMA FitsBegun ==
  ASSUME PathInv, RankInv, Ranked, NEW T \in [Pairs -> Tri], Claim(T), Fits(T),
         Unfold \/ DistributeEvery \/ DistributeSome \/ Enter
  PROVE  Fits(T)'
<1>1. /\ Typed /\ Chain /\ gdoc \in Docs /\ sdoc \in Docs /\ Calls
      /\ UNCHANGED <<gdoc, sdoc, settled>>
  BY DEF PathInv, TypeInv, Typed, Unfold, DistributeEvery, DistributeSome, Enter, Walks, BagCall
<1>2. ctl.pair \in Pairs
  BY <1>1, TypedParts
<1> DEFINE p == ctl.pair
<1>3. \A q \in DOMAIN settled' : AtMost(T[q], settled'[q])
  BY <1>1 DEF Fits
<1>4. SUFFICES \E x : Pushes(x) /\ Bounds(T, x)
  BY <1>1, <1>3, FitsMoves DEF Pushes
<1>5. CASE Unfold
  <2> DEFINE x == [is |-> "unfold", pair |-> ctl.pair]
  <2>1. Pushes(x) /\ Recurs(p)
    BY <1>1, <1>5, UnfoldMoves DEF Unfold, Unfolds, Recurs
  <2>2. AtMost(T[p], T[Unfolded(gdoc, sdoc, p)])
    BY <1>1, <1>2, <2>1, ClaimFacts
  <2>3. Callee(x) = Unfolded(gdoc, sdoc, p)
    BY DEF Callee
  <2>4. Bounds(T, x)
    BY <2>2, <2>3 DEF Bounds
  <2> QED BY <2>1, <2>4
<1>6. Walks => ~Recurs(p) /\ Walked(p)
  BY <1>1, Unrecursed DEF Walks, Unfolds, Recurs, Walked
<1>7. CASE DistributeEvery
  <2> DEFINE keys == KeysOf(ctl.pair[2].form)
             x(k) == [is |-> "every", pair |-> ctl.pair, now |-> k, todo |-> keys \ {k}, out |-> "yes"]
  <2>1. PICK k \in keys : Pushes(x(k))
    BY <1>1, <1>7, EveryMoves
  <2>2. \A j \in keys : AdmitsEach(T, p, j)
    BY <1>1, <1>2, <1>6, <1>7, ClaimFacts DEF DistributeEvery
  <2>3. Bounds(T, x(k))
    BY <2>2 DEF Bounds, AtMost
  <2> QED BY <2>1, <2>3
<1>8. CASE DistributeSome
  <2> DEFINE keys == KeysOf(ctl.pair[1].form)
             x(k) == [is |-> "some", pair |-> ctl.pair, now |-> k, todo |-> keys \ {k}]
  <2>1. PICK k \in keys : Pushes(x(k))
    BY <1>1, <1>8, SomeMoves
  <2>2. NeedsOne(T, p) => \E j \in keys : T[Some(p, j)] = "yes"
    BY <1>1, <1>2, <1>6, <1>8, ClaimFacts DEF DistributeSome
  <2>3. Bounds(T, x(k))
    BY <2>2 DEF Bounds
  <2> QED BY <2>1, <2>3
<1>9. CASE Enter
  <2>1. Pushes(EnterFrame)
    BY <1>1, <1>9, EnterMoves
  <2>2. /\ BagFault(p[1].form, p[2].form) => T[p] = "no"
        /\ \A t \in Tasks(p[1], p[2]) : AtMost(T[p], T[t])
    BY <1>1, <1>2, <1>6, <1>9, ClaimFacts DEF Enter, BagCall
  <2>3. Bounds(T, EnterFrame)
    BY <2>2 DEF Bounds, EnterFrame, AtMost
  <2> QED BY <2>1, <2>3
<1> QED BY <1>5, <1>7, <1>8, <1>9

LEMMA TopFits ==
  ASSUME PathInv, NEW T \in [Pairs -> Tri], Fits(T), ctl.go = "return", stack # <<>>
  PROVE  /\ Bounds(T, Peak) /\ AtMost(T[Callee(Peak)], ctl.out) /\ ctl.out \in Tri
         /\ T[Peak.pair] \in Tri /\ T[Callee(Peak)] \in Tri
<1>1. Typed /\ gdoc \in Docs /\ sdoc \in Docs
  BY DEF PathInv, TypeInv, Typed
<1>2. Current = Callee(Peak) /\ Len(stack) \in 1 .. Len(stack)
  BY <1>1, PeakCalls
<1>3. Peak \in StackFrame /\ FrameOK(Peak)
  BY <1>1, TypedParts
<1>4. Peak.pair \in Pairs /\ Callee(Peak) \in Pairs
  BY <1>1, <1>3, FrameShapes, CalleeType
<1> QED BY <1>1, <1>2, <1>4, TypedParts DEF Fits, Peak

LEMMA FitsEvery ==
  ASSUME PathInv, NEW T \in [Pairs -> Tri], Fits(T), EveryNext
  PROVE  Fits(T)'
<1>1. /\ Typed /\ Chain /\ UNCHANGED <<gdoc, sdoc, settled>> /\ ctl.go = "return" /\ ctl.out \in Tri
      /\ stack # <<>> /\ Peak.is = "every" /\ FrameOK(Peak) /\ Peak \in EveryFrame /\ Returns("every")
  BY TypedParts, FrameShapes DEF PathInv, TypeInv, EveryNext, Returns, Peak
<1>2. PICK p, at : p = Peak.pair /\ at = Peak.now
  OBVIOUS
<1> DEFINE fails == ctl.out # "yes" /\ IsConcrete(Peak.pair[2].form.at[Peak.now])
<1>3. Bounds(T, Peak) /\ AtMost(T[Every(p, at)], ctl.out) /\ T[p] \in Tri /\ T[Every(p, at)] \in Tri
  BY <1>1, <1>2, TopFits DEF Callee
<1>4. AtMost(T[p], Peak.out) /\ \A k \in Peak.todo \union {at} : AdmitsEach(T, p, k)
  BY <1>1, <1>2, <1>3 DEF Bounds
<1>5. \A q \in DOMAIN settled' : AtMost(T[q], settled'[q])
  BY <1>1 DEF Fits
<1>6. AtMost(T[p], EveryOut) /\ EveryOut \in Tri
  <2>1. AdmitsEach(T, p, at)
    BY <1>4
  <2> QED BY <1>1, <1>3, <1>4, <2>1 DEF AdmitsEach, AtMost, EveryOut, Tri, EveryFrame
<1>7. CASE fails
  <2>1. stack' = Below(stack) /\ ctl' = Return("no")
    BY <1>7 DEF EveryNext
  <2>2. Pops
    BY <1>1, <2>1 DEF Pops, Return, Tri
  <2>3. T[p] = "no"
    <3>1. AdmitsEach(T, p, at)
      BY <1>4
    <3> QED BY <1>2, <1>3, <1>7, <3>1 DEF AdmitsEach, AtMost
  <2>4. AtMost(T[Peak.pair], ctl'.out)
    BY <1>2, <2>3 DEF AtMost
  <2> QED BY <1>1, <1>5, <2>2, <2>4, FitsMoves
<1>8. CASE ~fails /\ Peak.todo = {}
  <2>1. stack' = Below(stack) /\ ctl' = Return(EveryOut)
    BY <1>8 DEF EveryNext, EveryOut
  <2>2. Pops
    BY <1>1, <1>6, <2>1 DEF Pops, Return
  <2>3. AtMost(T[Peak.pair], ctl'.out)
    BY <1>2, <1>6, <2>1 DEF Return
  <2> QED BY <1>1, <1>5, <2>2, <2>3, FitsMoves
<1>9. CASE ~fails /\ Peak.todo # {}
  <2>1. PICK k \in Peak.todo : /\ stack' = Append(Below(stack), EveryOn(k))
                               /\ ctl' = Call(Every(Peak.pair, k))
    BY <1>9 DEF EveryNext, EveryOn, EveryOut
  <2>2. Swaps(EveryOn(k))
    BY <1>1, <2>1, EveryOnMoves
  <2>3. /\ EveryOn(k).is = "every" /\ EveryOn(k).pair = p /\ EveryOn(k).out = EveryOut
        /\ EveryOn(k).now = k /\ EveryOn(k).todo = Peak.todo \ {k}
    BY <1>1, <1>2 DEF EveryOn, EveryFrame
  <2>4. Bounds(T, EveryOn(k))
    BY <1>4, <1>6, <2>3 DEF Bounds
  <2> QED BY <1>1, <1>5, <2>2, <2>4, FitsMoves DEF Swaps
<1> QED BY <1>7, <1>8, <1>9

LEMMA FitsSome ==
  ASSUME PathInv, NEW T \in [Pairs -> Tri], Fits(T), SomeNext
  PROVE  Fits(T)'
<1>1. /\ Typed /\ Chain /\ UNCHANGED <<gdoc, sdoc, settled>> /\ ctl.go = "return" /\ ctl.out \in Tri
      /\ ctl \in [go : {"return"}, out : Tri]
      /\ stack # <<>> /\ Peak.is = "some" /\ FrameOK(Peak) /\ Peak \in SomeFrame /\ Returns("some")
  BY TypedParts, FrameShapes DEF PathInv, TypeInv, Typed, SomeNext, Returns, Peak
<1>2. PICK p, at : p = Peak.pair /\ at = Peak.now
  OBVIOUS
<1>3. Bounds(T, Peak) /\ AtMost(T[Some(p, at)], ctl.out) /\ T[p] \in Tri /\ T[Some(p, at)] \in Tri
  BY <1>1, <1>2, TopFits DEF Callee
<1>4. NeedsOne(T, p) => \E k \in Peak.todo \union {at} : T[Some(p, k)] = "yes"
  BY <1>1, <1>2, <1>3 DEF Bounds
<1>5. \A q \in DOMAIN settled' : AtMost(T[q], settled'[q])
  BY <1>1 DEF Fits
<1>6. CASE ctl.out = "yes"
  <2>1. Pops /\ ctl' = ctl
    BY <1>1, <1>6 DEF SomeNext, Pops
  <2> QED BY <1>1, <1>5, <1>6, <2>1, FitsMoves DEF AtMost
<1>7. ctl.out # "yes" => T[Some(p, at)] # "yes"
  BY <1>3 DEF AtMost
<1>8. CASE ctl.out # "yes" /\ Peak.todo = {}
  <2> DEFINE out == IF IsConcrete(Peak.pair[2].form) THEN "no" ELSE "undecided"
  <2>1. stack' = Below(stack) /\ ctl' = Return(out)
    BY <1>8 DEF SomeNext
  <2>2. Pops
    BY <1>1, <2>1 DEF Pops, Return, Tri
  <2>3. ~NeedsOne(T, p)
    BY <1>4, <1>7, <1>8
  <2>4. AtMost(T[p], out)
    BY <1>2, <1>3, <2>3 DEF NeedsOne, AtMost, Tri
  <2>5. AtMost(T[Peak.pair], ctl'.out)
    BY <1>2, <2>1, <2>4 DEF Return
  <2> QED BY <1>1, <1>5, <2>2, <2>5, FitsMoves
<1>9. CASE ctl.out # "yes" /\ Peak.todo # {}
  <2>1. PICK k \in Peak.todo : /\ stack' = Append(Below(stack), SomeOn(k))
                               /\ ctl' = Call(Some(Peak.pair, k))
    BY <1>9 DEF SomeNext, SomeOn
  <2>2. Swaps(SomeOn(k))
    BY <1>1, <2>1, SomeOnMoves
  <2>3. /\ SomeOn(k).is = "some" /\ SomeOn(k).pair = p
        /\ SomeOn(k).now = k /\ SomeOn(k).todo = Peak.todo \ {k}
    BY <1>1, <1>2 DEF SomeOn, SomeFrame
  <2>4. Bounds(T, SomeOn(k))
    BY <1>4, <1>7, <1>9, <2>3 DEF Bounds
  <2> QED BY <1>1, <1>5, <2>2, <2>4, FitsMoves DEF Swaps
<1> QED BY <1>6, <1>8, <1>9

LEMMA AtMostWorse ==
  ASSUME NEW a \in Tri, NEW b \in Tri, NEW c \in Tri, AtMost(a, b), AtMost(a, c)
  PROVE  AtMost(a, Worse(b, c))
BY DEF AtMost, Worse, Tri

LEMMA AtMostTrans ==
  ASSUME NEW a \in Tri, NEW b \in Tri, NEW c \in Tri, AtMost(a, b), AtMost(b, c)
  PROVE  AtMost(a, c)
BY DEF AtMost, Tri

LEMMA FitsFolded ==
  ASSUME PathInv, NEW T \in [Pairs -> Tri], Fits(T), Folded
  PROVE  Fits(T)'
<1>1. /\ Typed /\ Chain /\ UNCHANGED <<gdoc, sdoc, settled, ctl>> /\ ctl.go = "return"
      /\ stack # <<>> /\ Peak.is = "unfold" /\ Pops
  BY FoldedMoves DEF PathInv, TypeInv, Folded, Returns, Peak
<1>2. /\ Bounds(T, Peak) /\ AtMost(T[Callee(Peak)], ctl.out) /\ ctl.out \in Tri
      /\ T[Peak.pair] \in Tri /\ T[Callee(Peak)] \in Tri
  BY <1>1, TopFits
<1>3. AtMost(T[Peak.pair], T[Callee(Peak)])
  BY <1>1, <1>2 DEF Bounds
<1>4. AtMost(T[Peak.pair], ctl'.out)
  BY <1>1, <1>2, <1>3, AtMostTrans
<1>5. \A q \in DOMAIN settled' : AtMost(T[q], settled'[q])
  BY <1>1 DEF Fits
<1> QED BY <1>1, <1>4, <1>5, FitsMoves

\* The members compared so far, the one just answered included.
LEMMA BagFits ==
  ASSUME PathInv, NEW T \in [Pairs -> Tri], Fits(T), Returns("bag")
  PROVE  /\ Out \in Tri /\ AtMost(T[Peak.pair], Out)
         /\ \A t \in Peak.todo : AtMost(T[Peak.pair], T[t])
<1>1. /\ Typed /\ ctl.go = "return" /\ stack # <<>> /\ Peak.is = "bag" /\ Peak \in PairFrame
  BY TypedParts, FrameShapes DEF PathInv, TypeInv, Returns, Peak
<1>2. /\ Bounds(T, Peak) /\ AtMost(T[Peak.now], ctl.out) /\ ctl.out \in Tri
      /\ T[Peak.pair] \in Tri /\ T[Peak.now] \in Tri
  BY <1>1, TopFits DEF Callee
<1>3. /\ AtMost(T[Peak.pair], Peak.out) /\ AtMost(T[Peak.pair], T[Peak.now])
      /\ \A t \in Peak.todo : AtMost(T[Peak.pair], T[t])
  BY <1>1, <1>2 DEF Bounds
<1>4. AtMost(T[Peak.pair], ctl.out)
  BY <1>2, <1>3, AtMostTrans
<1>5. Peak.out \in Tri
  BY <1>1 DEF PairFrame
<1>6. Out \in Tri
  BY <1>2, <1>5, WorseType DEF Out
<1> QED BY <1>2, <1>3, <1>4, <1>5, <1>6, AtMostWorse DEF Out

LEMMA FitsMember ==
  ASSUME PathInv, NEW T \in [Pairs -> Tri], Fits(T), Member
  PROVE  Fits(T)'
<1>1. /\ Typed /\ Chain /\ UNCHANGED <<gdoc, sdoc, settled>> /\ Returns("bag")
  BY DEF PathInv, TypeInv, Member
<1>2. PICK task \in Peak.todo : Swaps(MemberOn(task))
  BY <1>1, MemberMoves
<1>3. MemberOn(task) = [is |-> "bag", pair |-> Peak.pair, now |-> task,
        todo |-> Peak.todo \ {task}, out |-> Out, depth |-> Peak.depth, unfolding |-> Peak.unfolding]
  BY <1>1, MemberFrame DEF Out
<1>4. AtMost(T[Peak.pair], Out) /\ \A t \in Peak.todo : AtMost(T[Peak.pair], T[t])
  BY <1>1, BagFits
<1>5. Bounds(T, MemberOn(task))
  BY <1>3, <1>4 DEF Bounds
<1>6. \A q \in DOMAIN settled' : AtMost(T[q], settled'[q])
  BY <1>1 DEF Fits
<1> QED BY <1>1, <1>2, <1>5, <1>6, FitsMoves DEF Swaps

LEMMA FitsSettle ==
  ASSUME PathInv, NEW T \in [Pairs -> Tri], Fits(T), Settle
  PROVE  Fits(T)'
<1>1. /\ Typed /\ Counted /\ Chain /\ UNCHANGED <<gdoc, sdoc>> /\ Returns("bag")
      /\ ctl' = Return(Out) /\ Pops
  BY SettleMoves DEF PathInv, TypeInv, Settle, Out
<1>2. Out \in Tri /\ AtMost(T[Peak.pair], Out)
  BY <1>1, BagFits
<1>3. AtMost(T[Peak.pair], ctl'.out)
  BY <1>1, <1>2 DEF Return
<1>4. Inner.pair = Peak.pair
  BY <1>1, PeakIsInnermost DEF Inner
<1>5. \A q \in DOMAIN settled : AtMost(T[q], settled[q])
  BY DEF Fits
<1> DEFINE keys == {Inner.pair} \union (IF Out = "yes" THEN Inner.held ELSE {})
<1>6. settled' = settled \/ settled' = With(settled, keys, Out)
  BY DEF Settle, Inner, Out
<1>7. \A q \in DOMAIN settled' : AtMost(T[q], settled'[q])
  <2>1. CASE settled' = settled
    BY <1>5, <2>1
  <2>2. CASE settled' = With(settled, keys, Out)
    <3>1. DOMAIN settled' = DOMAIN settled \union keys
      BY <2>2 DEF With
    <3>2. ASSUME NEW q \in DOMAIN settled'
          PROVE  AtMost(T[q], settled'[q])
      <4>1. settled'[q] = IF q \in keys THEN Out ELSE settled[q]
        BY <2>2, <3>1 DEF With
      <4>2. CASE q \notin keys
        BY <1>5, <3>1, <4>1, <4>2
      <4>3. CASE q \in keys
        <5>1. settled'[q] = Out
          BY <4>1, <4>3
        <5>2. q = Peak.pair \/ Out = "yes"
          BY <1>4, <4>3
        <5> QED BY <1>2, <5>1, <5>2 DEF AtMost
      <4> QED BY <4>2, <4>3
    <3> QED BY <3>2
  <2> QED BY <1>6, <2>1, <2>2
<1> QED BY <1>1, <1>3, <1>7, FitsMoves

FitInv == Ranked => \A T \in [Pairs -> Tri] : Claim(T) => Fits(T)

LEMMA ClaimStays ==
  ASSUME UNCHANGED <<gdoc, sdoc>>
  PROVE  \A T : Claim(T)' <=> Claim(T)
BY DEF Claim, Pairs

LEMMA FitStart == Init => FitInv
<1>1. SUFFICES ASSUME Init PROVE FitInv
  OBVIOUS
<1>2. 1 .. Len(stack) = {} /\ ctl.go # "return" /\ DOMAIN settled = {}
  BY <1>1 DEF Init, Call
<1> QED BY <1>2 DEF FitInv, Fits

LEMMA FitStep == PathInv /\ RankInv /\ FitInv /\ [Next]_vars => FitInv'
<1>1. SUFFICES ASSUME PathInv, RankInv, FitInv, [Next]_vars PROVE FitInv'
  OBVIOUS
<1>2. UNCHANGED <<gdoc, sdoc>>
  BY <1>1, DocsStay DEF vars
<1>3. Pairs' = Pairs /\ (Ranked' <=> Ranked) /\ \A T : Claim(T)' <=> Claim(T)
  BY <1>2, RankStays, ClaimStays
<1>4. Tri' = Tri
  BY DEF Tri
<1>5. SUFFICES ASSUME Ranked, NEW T \in [Pairs -> Tri], Claim(T)
               PROVE  Fits(T)'
  BY <1>3, <1>4 DEF FitInv
<1>6. Fits(T)
  BY <1>1, <1>5 DEF FitInv
<1>7. CASE Next
  BY <1>1, <1>5, <1>6, <1>7, FitsAnswer, FitsBegun, FitsEvery, FitsSome, FitsFolded, FitsMember,
     FitsSettle DEF Next
<1>8. CASE UNCHANGED vars
  <2>1. UNCHANGED <<gdoc, sdoc, stack, ctl, settled>>
    BY <1>8 DEF vars
  <2>2. \A f : Bounds(T, f)' <=> Bounds(T, f)
    BY <2>1, CalleeStays DEF Bounds
  <2>3. Current' = Current
    BY <2>1 DEF Current, CalleeAt, Callee
  <2> QED BY <1>6, <2>1, <2>2, <2>3 DEF Fits
<1> QED BY <1>1, <1>7, <1>8

(***************************************************************************)
(* What a concrete alternative is made of: no recursion, and so a bag in   *)
(* it is never met again inside itself.                                    *)
(***************************************************************************)
Solid(C) ==
  /\ Any \in C
  /\ \A f \in C : /\ f.is # "rec"
                  /\ f.is \in {"alts", "bag"} => \A k \in KeysOf(f) : f.at[k] \in C
                  /\ f.is = "bag" /\ f.spread # NoSpread => f.spread \in C

\* A part of another, or what a template asks of what is left open.
Under(C, n, m) == m = TopLike \/ (m.form \in C /\ Len(n.pos) < Len(m.pos))

LEMMA UnderParts ==
  ASSUME NEW C, Solid(C), NEW m, m.form \in C, m.pos \in Seq(Seg)
  PROVE  /\ m.form.is \in {"alts", "bag"} => \A k \in KeysOf(m.form) : k \in Seg => Under(C, m, Child(m, k))
         /\ m.form.is = "bag" /\ m.form.spread # NoSpread => Under(C, m, SpreadOf(m))
<1>1. \A k \in Seg : Len(Append(m.pos, k)) = Len(m.pos) + 1 /\ Len(m.pos) \in Nat
  OBVIOUS
<1>2. "&" \in Seg
  BY DEF Seg
<1> QED BY <1>1, <1>2 DEF Under, Child, SpreadOf, Node, Solid

LEMMA TaskUnder ==
  ASSUME gdoc \in Docs, sdoc \in Docs, NEW C, Solid(C), NEW p \in Pairs,
         p[1].form.is = "bag", p[2].form.is = "bag", p[2].form \in C, NEW task \in Tasks(p[1], p[2])
  PROVE  Under(C, p[2], task[2])
<1>1. /\ p[2].pos \in Seq(Seg) /\ p[2] \in NodesOf(Form[sdoc] \union {Any})
  BY DEF Pairs, NodesOf
<1>2. Form[sdoc] \subseteq Form[sdoc] \union {Any}
  OBVIOUS
<1>3. \A k \in KeysOf(p[2].form) : k \in Seg
  BY <1>1, <1>2, NodeFacts
<1>4. /\ \A k \in KeysOf(p[2].form) : Under(C, p[2], Child(p[2], k))
      /\ p[2].form.spread # NoSpread => Under(C, p[2], SpreadOf(p[2]))
  BY <1>1, <1>3, UnderParts
<1>5. Under(C, p[2], TopLike)
  BY DEF Under
<1>6. CASE \E k \in Compared(p[1], p[2]) : task = <<Child(p[1], k), Child(p[2], k)>>
  BY <1>4, <1>6 DEF Compared
<1>7. CASE task \in Governed(p[1], p[2])
  <2>1. \/ \E k \in KeysOf(p[2].form) \ KeysOf(p[1].form) : task = <<SpreadOf(p[1]), Child(p[2], k)>>
        \/ task = <<SpreadOf(p[1]), IF p[2].form.spread = NoSpread THEN TopLike ELSE SpreadOf(p[2])>>
    BY <1>7 DEF Governed
  <2> QED BY <1>4, <1>5, <2>1
<1> QED BY <1>6, <1>7 DEF Tasks

LEMMA CalleeUnder ==
  ASSUME gdoc \in Docs, sdoc \in Docs, NEW C, Solid(C), NEW x \in StackFrame, FrameOK(x),
         NEW n, Len(n.pos) \in Nat, Under(C, n, x.pair[2]),
         x.is = "bag" => x.now \in Tasks(x.pair[1], x.pair[2])
  PROVE  Under(C, n, Callee(x)[2])
<1> DEFINE m == x.pair[2]
<1>1. x.pair \in Pairs /\ x.is \in {"unfold", "every", "some", "bag"}
  BY FrameShapes
<1>2. m.pos \in Seq(Seg) /\ m \in NodesOf(Form[sdoc] \union {Any}) /\ Len(m.pos) \in Nat
  BY <1>1 DEF Pairs, NodesOf
<1>3. TopLike.form = Any /\ Any.is = "any"
  BY DEF TopLike, Node, Any
<1>4. m.form \in C /\ m.form.is # "rec"
  BY <1>3 DEF Under, Solid
<1>5. Callee(x) \in Pairs
  BY CalleeType
<1>6. PICK l : l = Callee(x)[2]
  OBVIOUS
<1>7. l \in NodesOf(Form[sdoc] \union {Any}) /\ Len(l.pos) \in Nat
  BY <1>5, <1>6 DEF Pairs, NodesOf
<1>8. PICK a \in Nat, b \in Nat, c \in Nat : a = Len(n.pos) /\ b = Len(m.pos) /\ c = Len(l.pos)
  BY <1>2, <1>7
<1>9. ASSUME Under(C, m, l), m # TopLike
      PROVE  Under(C, n, l)
  <2>1. a < b
    BY <1>8, <1>9 DEF Under
  <2>2. l = TopLike \/ (l.form \in C /\ b < c)
    BY <1>8, <1>9 DEF Under
  <2>3. l = TopLike \/ (l.form \in C /\ a < c)
    BY <1>8, <2>1, <2>2
  <2> QED BY <1>8, <2>3 DEF Under
<1>10. CASE x.is = "unfold"
  <2>1. l = m
    BY <1>4, <1>6, <1>10 DEF Callee, Unfolded, Target
  <2> QED BY <1>6, <2>1
<1>11. CASE x.is = "some"
  <2>1. l = m
    BY <1>6, <1>11 DEF Callee, Some
  <2> QED BY <1>6, <2>1
<1>12. CASE x.is = "every"
  <2>1. m.form.is = "alts" /\ x.now \in KeysOf(m.form)
    BY <1>12 DEF FrameOK
  <2>2. x.now \in Seg
    BY <1>1, <2>1, PairFacts
  <2>3. l = Child(m, x.now)
    BY <1>6, <1>12 DEF Callee, Every
  <2>4. Under(C, m, l) /\ m # TopLike
    BY <1>2, <1>3, <1>4, <2>1, <2>2, <2>3, UnderParts
  <2> QED BY <1>6, <1>9, <2>4
<1>13. CASE x.is = "bag"
  <2>1. m.form.is = "bag" /\ x.pair[1].form.is = "bag"
    BY <1>13 DEF FrameOK
  <2>2. l = x.now[2]
    BY <1>6, <1>13 DEF Callee
  <2>3. Under(C, m, l) /\ m # TopLike
    BY <1>1, <1>3, <1>4, <1>13, <2>1, <2>2, TaskUnder
  <2> QED BY <1>6, <1>9, <2>3
<1> QED BY <1>1, <1>10, <1>11, <1>12, <1>13

\* Every call below a bag of a concrete alternative is of a part of it.
Deep(C) ==
  \A i \in 1 .. Len(stack) : BagAt(i) /\ stack[i].pair[2].form \in C =>
    /\ \A j \in i + 1 .. Len(stack) : Under(C, stack[i].pair[2], stack[j].pair[2])
    /\ Calls => Under(C, stack[i].pair[2], ctl.pair[2])

LEMMA DeepMoves ==
  ASSUME Typed, UNCHANGED <<gdoc, sdoc>>, NEW C, Solid(C), Deep(C),
         \/ Answers
         \/ \E x \in StackFrame : Pushes(x)
         \/ \E x \in StackFrame : Swaps(x) /\ (x.is = "bag" => x.now \in Tasks(x.pair[1], x.pair[2]))
         \/ Pops
  PROVE  Deep(C)'
<1>1. PICK n \in Nat : n = Len(stack)
  BY TypedParts
<1>2. PICK old, new : old = stack /\ new = stack'
  OBVIOUS
<1> DEFINE B(s, i) == s[i].is = "bag" /\ s[i].pair[2].form \in C
<1>3. \A i \in 1 .. n : B(old, i) =>
        /\ \A j \in i + 1 .. n : Under(C, old[i].pair[2], old[j].pair[2])
        /\ Calls => Under(C, old[i].pair[2], ctl.pair[2])
  BY <1>1, <1>2 DEF Deep, BagAt
<1>4. SUFFICES \A i \in 1 .. Len(new) : B(new, i) =>
        /\ \A j \in i + 1 .. Len(new) : Under(C, new[i].pair[2], new[j].pair[2])
        /\ ctl'.go = "call" => Under(C, new[i].pair[2], ctl'.pair[2])
  BY <1>2 DEF Deep, BagAt, Calls, Under
<1>5. \A i \in 1 .. n : Len(old[i].pair[2].pos) \in Nat
  <2>1. \A i \in 1 .. n : old[i].pair \in Pairs
    BY <1>1, <1>2, TypedParts, FrameShapes
  <2> QED BY <2>1 DEF Pairs, NodesOf
<1>6. gdoc \in Docs /\ sdoc \in Docs
  BY DEF Typed
<1>7. CASE Answers
  BY <1>1, <1>2, <1>3, <1>7 DEF Answers
<1>8. ASSUME NEW x \in StackFrame, Pushes(x)
      PROVE  \A i \in 1 .. Len(new) : B(new, i) =>
               /\ \A j \in i + 1 .. Len(new) : Under(C, new[i].pair[2], new[j].pair[2])
               /\ ctl'.go = "call" => Under(C, new[i].pair[2], ctl'.pair[2])
  <2>1. Len(new) = n + 1 /\ new[n + 1] = x /\ \A i \in 1 .. n : new[i] = old[i]
    BY <1>1, <1>2, <1>8, PushedStack
  <2>2. /\ Calls /\ x.pair = ctl.pair /\ FrameOK(x)
        /\ ctl'.go = "call" => x.is # "bag" /\ ctl'.pair = Callee(x)
    BY <1>8 DEF Pushes, Call, Return
  <2>3. ASSUME NEW i \in 1 .. n, B(new, i)
        PROVE  /\ \A j \in i + 1 .. n + 1 : Under(C, new[i].pair[2], new[j].pair[2])
               /\ ctl'.go = "call" => Under(C, new[i].pair[2], ctl'.pair[2])
    <3>1. new[i] = old[i] /\ B(old, i)
      BY <2>1, <2>3
    <3>2. Under(C, old[i].pair[2], x.pair[2])
      BY <1>3, <2>2, <3>1
    <3>3. \A j \in i + 1 .. n + 1 : j = n + 1 \/ (j \in i + 1 .. n /\ j \in 1 .. n)
      OBVIOUS
    <3>4. \A j \in i + 1 .. n + 1 : Under(C, new[i].pair[2], new[j].pair[2])
      BY <1>3, <2>1, <3>1, <3>2, <3>3
    <3>5. ctl'.go = "call" => Under(C, old[i].pair[2], Callee(x)[2])
      BY <1>5, <1>6, <1>8, <2>2, <3>2, CalleeUnder
    <3> QED BY <2>2, <3>1, <3>4, <3>5
  <2>4. B(new, n + 1) => ctl'.go # "call"
    BY <2>1, <2>2
  <2>5. n + 1 + 1 .. n + 1 = {} /\ \A i \in 1 .. n + 1 : i = n + 1 \/ i \in 1 .. n
    OBVIOUS
  <2> QED BY <2>1, <2>3, <2>4, <2>5
<1>9. ASSUME NEW x \in StackFrame, Swaps(x), x.is = "bag" => x.now \in Tasks(x.pair[1], x.pair[2])
      PROVE  \A i \in 1 .. Len(new) : B(new, i) =>
               /\ \A j \in i + 1 .. Len(new) : Under(C, new[i].pair[2], new[j].pair[2])
               /\ ctl'.go = "call" => Under(C, new[i].pair[2], ctl'.pair[2])
  <2>1. Len(new) = n /\ n \in Nat \ {0} /\ new[n] = x /\ \A i \in 1 .. n - 1 : new[i] = old[i]
    BY <1>1, <1>2, <1>9, SwappedStack
  <2>2. x.pair = old[n].pair /\ x.is = old[n].is /\ FrameOK(x) /\ ctl'.pair = Callee(x)
    BY <1>1, <1>2, <1>9 DEF Swaps, Peak, Call
  <2>3. \A i \in 1 .. n : new[i].pair = old[i].pair /\ (B(new, i) <=> B(old, i))
    <3>1. \A i \in 1 .. n : i = n \/ i \in 1 .. n - 1
      OBVIOUS
    <3> QED BY <2>1, <2>2, <3>1
  <2>4. ASSUME NEW i \in 1 .. n, B(new, i)
        PROVE  /\ \A j \in i + 1 .. n : Under(C, new[i].pair[2], new[j].pair[2])
               /\ Under(C, new[i].pair[2], Callee(x)[2])
    <3>1. B(old, i) /\ \A j \in i + 1 .. n : j \in 1 .. n
      BY <2>3, <2>4
    <3>2. \A j \in i + 1 .. n : Under(C, new[i].pair[2], new[j].pair[2])
      BY <1>3, <2>3, <3>1
    <3>3. CASE i = n
      <4>1. x.is = "bag" /\ x.pair[2].form \in C /\ x.pair \in Pairs
        BY <2>1, <2>4, <3>3, <1>9, FrameShapes
      <4>2. x.pair[1].form.is = "bag" /\ x.pair[2].form.is = "bag" /\ Callee(x) = x.now
        BY <2>2, <4>1 DEF FrameOK, Callee
      <4> QED BY <1>6, <1>9, <2>1, <3>2, <3>3, <4>1, <4>2, TaskUnder
    <3>4. CASE i # n
      <4>1. n \in i + 1 .. n
        BY <3>4
      <4>2. Under(C, old[i].pair[2], x.pair[2])
        BY <1>3, <2>2, <3>1, <4>1
      <4>3. Under(C, old[i].pair[2], Callee(x)[2])
        BY <1>5, <1>6, <1>9, <2>2, <4>2, CalleeUnder
      <4> QED BY <2>3, <3>2, <4>3
    <3> QED BY <3>3, <3>4
  <2> QED BY <2>1, <2>2, <2>4
<1>10. CASE Pops
  <2>1. Len(new) = n - 1 /\ n \in Nat \ {0} /\ \A i \in 1 .. n - 1 : new[i] = old[i] /\ i \in 1 .. n
    BY <1>1, <1>2, <1>10, PoppedStack
  <2>2. ctl'.go # "call"
    BY <1>10 DEF Pops
  <2>3. \A i \in 1 .. n - 1 : \A j \in i + 1 .. n - 1 : j \in 1 .. n - 1 /\ j \in i + 1 .. n
    BY <2>1
  <2> QED BY <1>3, <2>1, <2>2, <2>3
<1> QED BY <1>7, <1>8, <1>9, <1>10

LEMMA DeepStart == Init => \A C : Deep(C)
<1>1. SUFFICES ASSUME Init PROVE \A C : Deep(C)
  OBVIOUS
<1>2. 1 .. Len(stack) = {}
  BY <1>1 DEF Init
<1> QED BY <1>2 DEF Deep

LEMMA DeepStep ==
  ASSUME PathInv, NEW C, Solid(C), Deep(C), [Next]_vars
  PROVE  Deep(C)'
<1>1. CASE Next
  <2>1. /\ Typed /\ Counted /\ TypeInv /\ UNCHANGED <<gdoc, sdoc>>
    BY <1>1, DocsStay DEF PathInv, TypeInv
  <2>2. \A x : Pushes(x) \/ Swaps(x) => x \in StackFrame
    BY DEF Pushes, Swaps
  <2>3. CASE Member
    <3>1. PICK task \in Peak.todo : Swaps(MemberOn(task))
      BY <2>1, <2>3, MemberMoves
    <3>2. Returns("bag")
      BY <2>3 DEF Member
    <3>3. MemberOn(task).now = task /\ MemberOn(task).pair = Peak.pair
      BY <2>1, <3>2, MemberFrame
    <3>4. task \in Tasks(Peak.pair[1], Peak.pair[2])
      BY <2>1, <3>2, TypedParts DEF Returns, Peak, FrameOK
    <3> QED BY <2>1, <2>2, <3>1, <3>3, <3>4, DeepMoves
  <2>4. CASE EveryNext \/ SomeNext
    <3>1. Pops \/ \E x : Swaps(x) /\ x.is # "bag"
      <4>1. Peak.is \in {"every", "some"}
        BY <2>4 DEF EveryNext, SomeNext, Returns, Peak
      <4>2. Pops \/ \E x : Swaps(x)
        BY <2>1, <2>4, EveryNextMoves, SomeNextMoves
      <4> QED BY <4>1, <4>2 DEF Swaps
    <3> QED BY <2>1, <2>2, <3>1, DeepMoves
  <2>5. CASE Answer \/ Recall \/ Assume
    BY <2>1, <2>5, AnswerMoves, RecallMoves, AssumeMoves, DeepMoves
  <2>6. CASE Unfold \/ DistributeEvery \/ DistributeSome \/ Enter
    <3>1. \E x : Pushes(x)
      BY <2>1, <2>6, UnfoldMoves, EveryMoves, SomeMoves, EnterMoves
    <3> QED BY <2>1, <2>2, <3>1, DeepMoves
  <2>7. CASE Folded \/ Settle
    BY <2>1, <2>7, FoldedMoves, SettleMoves, DeepMoves
  <2> QED BY <1>1, <2>3, <2>4, <2>5, <2>6, <2>7 DEF Next
<1>2. CASE UNCHANGED vars
  BY <1>2 DEF vars, Deep, BagAt, Calls, Under
<1> QED BY <1>1, <1>2

\* The pairs some simulation holds.
Good == {p \in Pairs : \E S \in SUBSET Pairs : p \in S /\ \A q \in S : Backed(S, q)}

LEMMA GoodBacked == \A p \in Good : Backed(Good, p)
<1>1. SUFFICES ASSUME NEW p \in Good PROVE Backed(Good, p)
  OBVIOUS
<1>2. PICK S \in SUBSET Pairs : p \in S /\ \A q \in S : Backed(S, q)
  BY DEF Good
<1>3. S \subseteq Good
  BY <1>2 DEF Good
<1> QED BY <1>2, <1>3, BackedMore

\* What is backed by the good pairs, and by itself, is one of them.
LEMMA GoodMore ==
  ASSUME NEW p \in Pairs, Backed(Good \union {p}, p)
  PROVE  p \in Good
<1> DEFINE S == Good \union {p}
<1>1. S \in SUBSET Pairs
  BY DEF Good
<1>2. \A q \in Good : Backed(Good, q)
  BY GoodBacked
<1>3. Good \subseteq S
  OBVIOUS
<1>4. \A q \in S : Backed(S, q)
  <2>1. \A q \in Good : Backed(S, q)
    <3> HIDE DEF S
    <3> QED BY <1>2, <1>3, BackedMore
  <2> QED BY <2>1
<1> QED BY <1>1, <1>4 DEF Good

LEMMA GoodStays == UNCHANGED <<gdoc, sdoc>> => Good' = Good
<1>1. SUFFICES ASSUME UNCHANGED <<gdoc, sdoc>> PROVE Good' = Good
  OBVIOUS
<1>2. Pairs' = Pairs /\ \A S, p : Backed(S, p)' <=> Backed(S, p)
  BY <1>1, BackedStays DEF Pairs
<1> QED BY <1>2 DEF Good

(***************************************************************************)
(* Inside a concrete alternative no yes is assumed: what is answered yes   *)
(* there is good.                                                          *)
(***************************************************************************)
Within(C, p) == p[2].form \in C

\* What a call has found, of its pair's parts.
SureFrame(C, f) ==
  /\ f.is = "bag" /\ Within(C, f.pair) /\ f.out = "yes" =>
       /\ ~BagFault(f.pair[1].form, f.pair[2].form)
       /\ Tasks(f.pair[1], f.pair[2]) \subseteq Good \union {f.pair} \union f.todo \union {f.now}
  /\ f.is = "every" =>
       \A k \in KeysOf(f.pair[2].form) :
         \/ k \in f.todo \union {f.now}
         \/ (/\ f.pair[2].form.at[k] \in C
             /\ f.out = "yes" \/ IsConcrete(f.pair[2].form.at[k])) => Every(f.pair, k) \in Good

SureFrames(C) ==
  /\ \A i \in 1 .. Len(stack) : SureFrame(C, stack[i])
  /\ ctl.go = "return" /\ ctl.out = "yes" /\ Within(C, Current) =>
       Current \in Good \/ (stack # <<>> /\ Peak.is = "bag" /\ Current = Peak.pair)

SureMemo(C) ==
  /\ \A p \in DOMAIN settled : settled[p] = "yes" /\ Within(C, p) => p \in Good
  /\ \A p \in DOMAIN pending : ~Within(C, p)
  /\ \A d \in 1 .. Depth : Within(C, frames[d].pair) => frames[d].low = d

LEMMA SureMoves ==
  ASSUME Typed, Chain, UNCHANGED <<gdoc, sdoc>>, NEW C, SureFrames(C),
         \/ Answers /\ (ctl'.out = "yes" /\ Within(C, ctl.pair) => ctl.pair \in Good)
         \/ \E x \in StackFrame : (Pushes(x) \/ Swaps(x)) /\ SureFrame(C, x)
         \/ Pops /\ (ctl'.out = "yes" /\ Within(C, Peak.pair) => Peak.pair \in Good)
  PROVE  SureFrames(C)'
<1>1. PICK n \in Nat : n = Len(stack)
  BY TypedParts
<1>2. PICK old, new : old = stack /\ new = stack'
  OBVIOUS
<1>3. Good' = Good /\ \A f : SureFrame(C, f)' <=> SureFrame(C, f)
  <2>1. Good' = Good
    BY GoodStays
  <2> QED BY <2>1 DEF SureFrame, Within
<1>4. \A i \in 1 .. n : SureFrame(C, old[i])
  BY <1>1, <1>2 DEF SureFrames
<1> DEFINE Ends == ctl'.go = "return" /\ ctl'.out = "yes" /\ Within(C, Current') =>
                     Current' \in Good \/ (new # <<>> /\ Peak'.is = "bag" /\ Current' = Peak'.pair)
<1>5. SUFFICES (\A i \in 1 .. Len(new) : SureFrame(C, new[i])) /\ Ends
  BY <1>2, <1>3 DEF SureFrames, Within
<1>6. CASE Answers /\ (ctl'.out = "yes" /\ Within(C, ctl.pair) => ctl.pair \in Good)
  <2>1. Current' = ctl.pair
    BY <1>1, <1>6, OpenStays DEF Answers, Chain, Current, CalleeAt, Callee
  <2> QED BY <1>1, <1>2, <1>4, <1>6, <2>1 DEF Answers
<1>7. ASSUME NEW x, Pushes(x), SureFrame(C, x)
      PROVE  (\A i \in 1 .. Len(new) : SureFrame(C, new[i])) /\ Ends
  <2>1. Len(new) = n + 1 /\ new[n + 1] = x /\ \A i \in 1 .. n : new[i] = old[i]
    BY <1>1, <1>2, <1>7, PushedStack
  <2>2. \A i \in 1 .. n + 1 : i = n + 1 \/ i \in 1 .. n
    OBVIOUS
  <2>3. Peak' = x /\ new # <<>>
    BY <1>2, <1>7, PushedStack
  <2>4. ctl'.go = "return" => x.is = "bag" /\ x.now = x.pair
    BY <1>7 DEF Pushes, Call
  <2>5. x.is = "bag" => Current' = x.now
    <3>1. Len(stack') + 1 = n + 2 /\ n + 2 # 1 /\ n + 2 - 1 = n + 1 /\ stack'[n + 1] = x
      BY <1>2, <2>1
    <3>2. Current' = CalleeAt(n + 2)'
      BY <3>1 DEF Current
    <3> HIDE DEF Ends
    <3> QED BY <3>1, <3>2 DEF CalleeAt, Callee
  <2> QED BY <1>4, <1>7, <2>1, <2>2, <2>3, <2>4, <2>5
<1>8. ASSUME NEW x, Swaps(x), SureFrame(C, x)
      PROVE  (\A i \in 1 .. Len(new) : SureFrame(C, new[i])) /\ Ends
  <2>1. Len(new) = n /\ n \in Nat \ {0} /\ new[n] = x /\ \A i \in 1 .. n - 1 : new[i] = old[i]
    BY <1>1, <1>2, <1>8, SwappedStack
  <2>2. \A i \in 1 .. n : i = n \/ i \in 1 .. n - 1
    OBVIOUS
  <2>3. ctl'.go # "return"
    BY <1>8 DEF Swaps, Call
  <2>4. \A i \in 1 .. n - 1 : i \in 1 .. n
    BY <2>1
  <2> QED BY <1>4, <1>8, <2>1, <2>2, <2>3, <2>4
<1>9. CASE Pops /\ (ctl'.out = "yes" /\ Within(C, Peak.pair) => Peak.pair \in Good)
  <2>1. Len(new) = n - 1 /\ n \in Nat \ {0} /\ \A i \in 1 .. n - 1 : new[i] = old[i] /\ i \in 1 .. n
    BY <1>1, <1>2, <1>9, PoppedStack
  <2>2. CalleeAt(n)' = CalleeAt(n)
    <3>1. n - 1 \in Nat /\ n \in 1 .. (n - 1) + 1
      BY <2>1
    <3>2. \A i \in 1 .. n - 1 : stack'[i] = stack[i]
      BY <1>2, <2>1
    <3> QED BY <3>1, <3>2, OpenStays
  <2>3. Current' = CalleeAt(n)'
    <3>1. Len(stack') + 1 = n
      BY <1>2, <2>1
    <3> QED BY <3>1 DEF Current
  <2>4. Peak.pair = CalleeAt(n)
    BY <1>1, <2>1 DEF Peak, Chain
  <2> QED BY <1>4, <1>9, <2>1, <2>2, <2>3, <2>4
<1> QED BY <1>6, <1>7, <1>8, <1>9

\* No pair of a concrete part is met again while it is being compared, nor
\* waits for another.
LEMMA NoneAssumed ==
  ASSUME PathInv, NEW C, Solid(C), Deep(C), SureMemo(C), Assume
  PROVE  ~Within(C, ctl.pair) /\ ~Within(C, frames[Depth].pair) /\ Depth \in Nat \ {0}
<1>1. Typed /\ Counted /\ Calls /\ ctl.pair \in Pairs
  BY TypedParts DEF PathInv, TypeInv, Assume, BagCall, Walks
<1>2. PICK n \in Nat : n = Len(stack)
  BY <1>1, TypedParts
<1>3. ctl.pair[2].form.is = "bag" /\ TopLike.form = Any /\ Any.is = "any" /\ Any \in C
  BY DEF Assume, BagCall, TopLike, Node, Any, Solid
<1>4. ASSUME NEW i \in 1 .. n, BagAt(i), Within(C, stack[i].pair)
      PROVE  Within(C, ctl.pair) /\ stack[i].pair # ctl.pair
  <2>1. Under(C, stack[i].pair[2], ctl.pair[2])
    BY <1>1, <1>2, <1>4 DEF Deep, Within
  <2>2. ctl.pair[2] # TopLike
    BY <1>3
  <2>3. stack[i].pair \in Pairs
    BY <1>1, <1>2, TypedParts, FrameShapes
  <2>4. Len(stack[i].pair[2].pos) \in Nat
    BY <2>3 DEF Pairs, NodesOf
  <2> QED BY <2>1, <2>2, <2>4 DEF Under, Within
<1>5. ~Within(C, ctl.pair)
  <2>1. SUFFICES ASSUME Within(C, ctl.pair) PROVE FALSE
    OBVIOUS
  <2>2. ctl.pair \in DOMAIN pending \/ Running(ctl.pair) # {}
    BY DEF Assume, Assumed
  <2>3. CASE ctl.pair \in DOMAIN pending
    BY <2>1, <2>3 DEF SureMemo
  <2>4. CASE Running(ctl.pair) # {}
    <3>1. PICK d \in 1 .. Depth : frames[d].pair = ctl.pair
      BY <2>4 DEF Running
    <3>2. PICK i \in 1 .. n : BagAt(i) /\ stack[i].pair = frames[d].pair
      BY <1>1, <1>2 DEF Counted
    <3> QED BY <1>4, <2>1, <3>1, <3>2
  <2> QED BY <2>2, <2>3, <2>4
<1>6. frames # <<>> /\ Depth \in Nat \ {0} /\ Depth \in 1 .. Depth
  <2>1. frames # <<>>
    BY AssumeLowers DEF PathInv
  <2> QED BY <1>1, <2>1 DEF Typed, Depth
<1>7. PICK i \in 1 .. n : BagAt(i) /\ stack[i].pair = frames[Depth].pair
  BY <1>1, <1>2, <1>6 DEF Counted
<1> QED BY <1>4, <1>5, <1>6, <1>7

SureInv(C) == Solid(C) /\ Deep(C) /\ SureFrames(C) /\ SureMemo(C)

LEMMA SureAnswer ==
  ASSUME PathInv, RankInv, Ranked, NEW C, SureInv(C), Answer \/ Recall \/ Assume
  PROVE  SureFrames(C)'
<1>1. /\ Typed /\ Counted /\ Chain /\ UNCHANGED <<gdoc, sdoc>> /\ Answers
  BY AnswerMoves, RecallMoves, AssumeMoves DEF PathInv, TypeInv, Answer, Recall, Assume
<1>2. ctl.pair \in Pairs /\ Calls
  BY <1>1, TypedParts DEF Answers
<1>3. ASSUME ctl'.out = "yes", Within(C, ctl.pair)
      PROVE  ctl.pair \in Good
  <2>1. CASE Answer
    <3>1. /\ ~Unfolds(ctl.pair) /\ Outright(ctl.pair[1].form, ctl.pair[2].form) = "yes"
      BY <1>3, <2>1 DEF Answer, Return
    <3>2. ~Recurs(ctl.pair)
      BY <1>2, <3>1, Unrecursed DEF Unfolds, Recurs
    <3>3. Backed(Good \union {ctl.pair}, ctl.pair)
      BY <3>1, <3>2 DEF Backed
    <3> QED BY <1>2, <3>3, GoodMore
  <2>2. CASE Recall
    BY <1>3, <2>2 DEF Recall, Return, SureInv, SureMemo
  <2>3. CASE Assume
    BY <1>3, <2>3, NoneAssumed DEF SureInv
  <2> QED BY <2>1, <2>2, <2>3
<1> QED BY <1>1, <1>3, SureMoves DEF SureInv

LEMMA SureBegun ==
  ASSUME PathInv, NEW C, SureInv(C), Unfold \/ DistributeEvery \/ DistributeSome \/ Enter
  PROVE  SureFrames(C)'
<1>1. Typed /\ Chain /\ UNCHANGED <<gdoc, sdoc>> /\ SureFrames(C)
  BY DEF PathInv, TypeInv, SureInv, Unfold, DistributeEvery, DistributeSome, Enter
<1>2. SUFFICES \E x : Pushes(x) /\ SureFrame(C, x)
  BY <1>1, SureMoves DEF Pushes
<1>3. CASE Unfold
  <2> DEFINE x == [is |-> "unfold", pair |-> ctl.pair]
  <2>1. Pushes(x)
    BY <1>1, <1>3, UnfoldMoves
  <2>2. SureFrame(C, x)
    BY DEF SureFrame
  <2> QED BY <2>1, <2>2
<1>4. CASE DistributeEvery
  <2> DEFINE keys == KeysOf(ctl.pair[2].form)
             x(k) == [is |-> "every", pair |-> ctl.pair, now |-> k, todo |-> keys \ {k}, out |-> "yes"]
  <2>1. PICK k \in keys : Pushes(x(k))
    BY <1>1, <1>4, EveryMoves
  <2>2. SureFrame(C, x(k))
    BY DEF SureFrame
  <2> QED BY <2>1, <2>2
<1>5. CASE DistributeSome
  <2> DEFINE keys == KeysOf(ctl.pair[1].form)
             x(k) == [is |-> "some", pair |-> ctl.pair, now |-> k, todo |-> keys \ {k}]
  <2>1. PICK k \in keys : Pushes(x(k))
    BY <1>1, <1>5, SomeMoves
  <2>2. SureFrame(C, x(k))
    BY DEF SureFrame
  <2> QED BY <2>1, <2>2
<1>6. CASE Enter
  <2>1. Pushes(EnterFrame)
    BY <1>1, <1>6, EnterMoves
  <2>2. SureFrame(C, EnterFrame)
    BY DEF SureFrame, EnterFrame
  <2> QED BY <2>1, <2>2
<1> QED BY <1>3, <1>4, <1>5, <1>6

\* The answer the call on top has been given.
LEMMA TopSure ==
  ASSUME PathInv, NEW C, SureFrames(C), ctl.go = "return", stack # <<>>
  PROVE  /\ SureFrame(C, Peak) /\ Peak.pair \in Pairs
         /\ ctl.out = "yes" /\ Within(C, Callee(Peak)) =>
              Callee(Peak) \in Good \/ (Peak.is = "bag" /\ Callee(Peak) = Peak.pair)
<1>1. Typed
  BY DEF PathInv, TypeInv
<1>2. Current = Callee(Peak) /\ Len(stack) \in 1 .. Len(stack)
  BY <1>1, PeakCalls
<1>3. Peak \in StackFrame
  BY <1>1, TypedParts
<1> QED BY <1>2, <1>3, FrameShapes DEF SureFrames, Peak

\* A choice is made of no recursion.
LEMMA ChoiceFresh ==
  ASSUME PathInv, RankInv, Ranked, stack # <<>>, Peak.is \in {"every", "some"}
  PROVE  ~Recurs(Peak.pair)
<1>1. Typed
  BY DEF PathInv, TypeInv
<1>2. Len(stack) \in 1 .. Len(stack)
  BY <1>1, PeakCalls
<1> QED BY <1>2 DEF RankInv, Fresh, Distributes, Peak

\* The alternatives admitted so far, the one just answered included.
LEMMA EveryFound ==
  ASSUME PathInv, NEW C, SureInv(C), EveryNext, NEW p, p = Peak.pair,
         ctl.out = "yes" \/ ~IsConcrete(p[2].form.at[Peak.now])
  PROVE  \A k \in KeysOf(p[2].form) :
           /\ k \notin Peak.todo /\ p[2].form.at[k] \in C
           /\ EveryOut = "yes" \/ IsConcrete(p[2].form.at[k])
           => Every(p, k) \in Good
<1>1. /\ Typed /\ ctl.go = "return" /\ ctl.out \in Tri
      /\ stack # <<>> /\ Peak.is = "every" /\ FrameOK(Peak) /\ Peak \in EveryFrame
  BY TypedParts, FrameShapes DEF PathInv, TypeInv, EveryNext, Returns, Peak
<1>2. SureFrames(C) /\ Solid(C)
  BY DEF SureInv
<1>3. PICK at : at = Peak.now
  OBVIOUS
<1>4. /\ p[2].form.is = "alts" /\ Walked(p) /\ at \in KeysOf(p[2].form)
      /\ \A k : Every(p, k)[2].form = p[2].form.at[k]
  BY <1>1, <1>3 DEF FrameOK, Every, Child, Node
<1>5. /\ SureFrame(C, Peak) /\ p \in Pairs
      /\ ctl.out = "yes" /\ p[2].form.at[at] \in C => Every(p, at) \in Good
  <2>1. Callee(Peak) = Every(p, at)
    BY <1>1, <1>3 DEF Callee
  <2> QED BY <1>1, <1>2, <1>3, <1>4, <2>1, TopSure DEF Within
<1>6. ASSUME NEW k \in KeysOf(p[2].form), k \notin Peak.todo, p[2].form.at[k] \in C,
             EveryOut = "yes" \/ IsConcrete(p[2].form.at[k])
      PROVE  Every(p, k) \in Good
  <2>1. CASE k = at
    <3>1. ctl.out = "yes"
      BY <1>3, <1>6, <2>1 DEF EveryOut
    <3> QED BY <1>5, <1>6, <2>1, <3>1
  <2>2. CASE k # at
    <3>1. Peak.out = "yes" \/ IsConcrete(p[2].form.at[k])
      BY <1>6 DEF EveryOut
    <3> QED BY <1>1, <1>3, <1>5, <1>6, <2>2, <3>1 DEF SureFrame
  <2> QED BY <2>1, <2>2
<1> QED BY <1>6

LEMMA SureEvery ==
  ASSUME PathInv, RankInv, Ranked, NEW C, SureInv(C), EveryNext
  PROVE  SureFrames(C)'
<1>1. /\ Typed /\ Chain /\ UNCHANGED <<gdoc, sdoc>> /\ ctl.go = "return" /\ ctl.out \in Tri
      /\ stack # <<>> /\ Peak.is = "every" /\ FrameOK(Peak) /\ Peak \in EveryFrame /\ Returns("every")
  BY TypedParts, FrameShapes DEF PathInv, TypeInv, EveryNext, Returns, Peak
<1>2. SureFrames(C) /\ Solid(C)
  BY DEF SureInv
<1>3. PICK p : p = Peak.pair
  OBVIOUS
<1> DEFINE fails == ctl.out # "yes" /\ IsConcrete(Peak.pair[2].form.at[Peak.now])
<1>4. /\ p[2].form.is = "alts" /\ Walked(p) /\ p \in Pairs
  <2>1. Peak.pair \in Pairs
    BY <1>1, <1>2, TopSure
  <2> QED BY <1>1, <1>3, <2>1 DEF FrameOK
<1>5. ASSUME ~fails
      PROVE  \A k \in KeysOf(p[2].form) :
               /\ k \notin Peak.todo /\ p[2].form.at[k] \in C
               /\ EveryOut = "yes" \/ IsConcrete(p[2].form.at[k])
               => Every(p, k) \in Good
  BY <1>3, <1>5, EveryFound
<1>6. CASE fails
  <2>1. stack' = Below(stack) /\ ctl' = Return("no")
    BY <1>6 DEF EveryNext
  <2>2. Pops /\ ctl'.out # "yes"
    BY <1>1, <2>1 DEF Pops, Return, Tri
  <2> QED BY <1>1, <1>2, <2>2, SureMoves
<1>7. CASE ~fails /\ Peak.todo = {}
  <2>1. stack' = Below(stack) /\ ctl' = Return(EveryOut)
    BY <1>7 DEF EveryNext, EveryOut
  <2>2. EveryOut \in Tri
    BY <1>1 DEF EveryOut, EveryFrame, Tri
  <2>3. Pops
    BY <1>1, <2>1, <2>2 DEF Pops, Return
  <2>4. ASSUME ctl'.out = "yes", Within(C, Peak.pair)
        PROVE  Peak.pair \in Good
    <3>1. EveryOut = "yes"
      BY <2>1, <2>4 DEF Return
    <3>2. \A k \in KeysOf(p[2].form) : p[2].form.at[k] \in C
      BY <1>2, <1>3, <1>4, <2>4 DEF Within, Solid
    <3>3. \A k \in KeysOf(p[2].form) : Every(p, k) \in Good
      BY <1>5, <1>7, <3>1, <3>2
    <3>4. ~Recurs(p)
      BY <1>1, <1>3, ChoiceFresh
    <3>5. Backed(Good \union {p}, p)
      BY <1>4, <3>3, <3>4 DEF Backed, Walked
    <3> QED BY <1>3, <1>4, <3>5, GoodMore
  <2> QED BY <1>1, <1>2, <2>3, <2>4, SureMoves
<1>8. CASE ~fails /\ Peak.todo # {}
  <2>1. PICK k \in Peak.todo : /\ stack' = Append(Below(stack), EveryOn(k))
                               /\ ctl' = Call(Every(Peak.pair, k))
    BY <1>8 DEF EveryNext, EveryOn, EveryOut
  <2>2. Swaps(EveryOn(k))
    BY <1>1, <2>1, EveryOnMoves
  <2>3. /\ EveryOn(k).is = "every" /\ EveryOn(k).pair = p /\ EveryOn(k).out = EveryOut
        /\ EveryOn(k).now = k /\ EveryOn(k).todo = Peak.todo \ {k}
    BY <1>1, <1>3 DEF EveryOn, EveryFrame
  <2>4. SureFrame(C, EveryOn(k))
    BY <1>5, <1>8, <2>3 DEF SureFrame
  <2> QED BY <1>1, <1>2, <2>2, <2>4, SureMoves DEF Swaps
<1> QED BY <1>6, <1>7, <1>8

LEMMA SureSome ==
  ASSUME PathInv, RankInv, Ranked, NEW C, SureInv(C), SomeNext
  PROVE  SureFrames(C)'
<1>1. /\ Typed /\ Chain /\ UNCHANGED <<gdoc, sdoc>> /\ ctl.go = "return"
      /\ ctl \in [go : {"return"}, out : Tri]
      /\ stack # <<>> /\ Peak.is = "some" /\ FrameOK(Peak) /\ Peak \in SomeFrame /\ Returns("some")
  BY TypedParts, FrameShapes DEF PathInv, TypeInv, Typed, SomeNext, Returns, Peak
<1>2. SureFrames(C) /\ Solid(C)
  BY DEF SureInv
<1>3. CASE ctl.out = "yes"
  <2>1. Pops /\ ctl' = ctl
    BY <1>1, <1>3 DEF SomeNext, Pops
  <2>2. PICK p, at : p = Peak.pair /\ at = Peak.now
    OBVIOUS
  <2>3. /\ p[2].form.is # "alts" /\ p[1].form.is = "alts" /\ Walked(p) /\ at \in KeysOf(p[1].form)
        /\ Some(p, at)[2] = p[2]
    BY <1>1, <2>2 DEF FrameOK, Some
  <2>4. ASSUME Within(C, p)
        PROVE  p \in Good
    <3>1. Callee(Peak) = Some(p, at)
      BY <1>1, <2>2 DEF Callee
    <3>2. Some(p, at) \in Good /\ p \in Pairs
      BY <1>1, <1>2, <1>3, <2>2, <2>3, <2>4, <3>1, TopSure DEF Within
    <3>3. ~Recurs(p)
      BY <1>1, <2>2, ChoiceFresh
    <3>4. Backed(Good \union {p}, p)
      BY <2>3, <3>2, <3>3 DEF Backed, Walked
    <3> QED BY <3>2, <3>4, GoodMore
  <2> QED BY <1>1, <1>2, <2>1, <2>2, <2>4, SureMoves
<1>4. CASE ctl.out # "yes" /\ Peak.todo = {}
  <2>1. stack' = Below(stack) /\ ctl' = Return(IF IsConcrete(Peak.pair[2].form) THEN "no" ELSE "undecided")
    BY <1>4 DEF SomeNext
  <2>2. Pops /\ ctl'.out # "yes"
    BY <1>1, <2>1 DEF Pops, Return, Tri
  <2> QED BY <1>1, <1>2, <2>2, SureMoves
<1>5. CASE ctl.out # "yes" /\ Peak.todo # {}
  <2>1. PICK k \in Peak.todo : /\ stack' = Append(Below(stack), SomeOn(k))
                               /\ ctl' = Call(Some(Peak.pair, k))
    BY <1>5 DEF SomeNext, SomeOn
  <2>2. Swaps(SomeOn(k))
    BY <1>1, <2>1, SomeOnMoves
  <2>3. SomeOn(k).is = "some"
    BY <1>1 DEF SomeOn, SomeFrame
  <2>4. SureFrame(C, SomeOn(k))
    BY <2>3 DEF SureFrame
  <2> QED BY <1>1, <1>2, <2>2, <2>4, SureMoves DEF Swaps
<1> QED BY <1>3, <1>4, <1>5

LEMMA SureFolded ==
  ASSUME PathInv, NEW C, SureInv(C), Folded
  PROVE  SureFrames(C)'
<1>1. /\ Typed /\ Chain /\ UNCHANGED <<gdoc, sdoc, ctl>> /\ ctl.go = "return"
      /\ stack # <<>> /\ Peak.is = "unfold" /\ FrameOK(Peak) /\ Pops
  BY FoldedMoves, TypedParts DEF PathInv, TypeInv, Folded, Returns, Peak
<1>2. SureFrames(C) /\ Solid(C)
  BY DEF SureInv
<1>3. PICK p : p = Peak.pair
  OBVIOUS
<1>4. ASSUME ctl.out = "yes", Within(C, p)
      PROVE  p \in Good
  <2>1. p[2].form.is # "rec" /\ Recurs(p)
    BY <1>1, <1>2, <1>3, <1>4 DEF Within, Solid, FrameOK, Recurs
  <2>2. Callee(Peak) = Unfolded(gdoc, sdoc, p)
    BY <1>1, <1>3 DEF Callee
  <2>3. Unfolded(gdoc, sdoc, p)[2] = p[2]
    BY <2>1 DEF Unfolded, Target
  <2>4. Unfolded(gdoc, sdoc, p) \in Good /\ p \in Pairs
    BY <1>1, <1>2, <1>3, <1>4, <2>2, <2>3, TopSure DEF Within
  <2>5. Backed(Good \union {p}, p)
    BY <2>1, <2>4 DEF Backed
  <2> QED BY <2>4, <2>5, GoodMore
<1> QED BY <1>1, <1>2, <1>3, <1>4, SureMoves

\* The members compared so far, the one just answered included.
LEMMA BagSure ==
  ASSUME PathInv, NEW C, SureInv(C), Returns("bag")
  PROVE  LET p == Peak.pair
         IN  Out = "yes" /\ Within(C, p) =>
               /\ ~BagFault(p[1].form, p[2].form) /\ p \in Pairs
               /\ Tasks(p[1], p[2]) \subseteq Good \union {p} \union Peak.todo
<1>1. /\ Typed /\ ctl.go = "return" /\ stack # <<>> /\ Peak.is = "bag" /\ Peak \in PairFrame
      /\ FrameOK(Peak) /\ gdoc \in Docs /\ sdoc \in Docs /\ ctl.out \in Tri
  BY TypedParts, FrameShapes DEF PathInv, TypeInv, Returns, Peak, Typed
<1>2. SureFrames(C) /\ Solid(C)
  BY DEF SureInv
<1>3. PICK p : p = Peak.pair
  OBVIOUS
<1>4. SUFFICES ASSUME Out = "yes", Within(C, p)
               PROVE  /\ ~BagFault(p[1].form, p[2].form) /\ p \in Pairs
                      /\ Tasks(p[1], p[2]) \subseteq Good \union {p} \union Peak.todo
  BY <1>3
<1>5. ctl.out = "yes" /\ Peak.out = "yes"
  BY <1>1, <1>4, WorseType DEF Out, PairFrame
<1>6. Callee(Peak) = Peak.now
  BY <1>1 DEF Callee
<1>7. /\ SureFrame(C, Peak) /\ p \in Pairs
      /\ Within(C, Peak.now) => Peak.now \in Good \/ Peak.now = p
  BY <1>1, <1>2, <1>3, <1>5, <1>6, TopSure
<1>8. /\ ~BagFault(p[1].form, p[2].form)
      /\ Tasks(p[1], p[2]) \subseteq Good \union {p} \union Peak.todo \union {Peak.now}
  BY <1>1, <1>3, <1>4, <1>5, <1>7 DEF SureFrame
<1>9. Peak.now \in Tasks(p[1], p[2]) => Within(C, Peak.now)
  <2>1. p[1].form.is = "bag" /\ p[2].form.is = "bag"
    BY <1>1, <1>3 DEF FrameOK
  <2>2. TopLike.form = Any /\ Any \in C
    BY <1>2 DEF TopLike, Node, Solid
  <2>3. \A t \in Tasks(p[1], p[2]) : Under(C, p[2], t[2])
    BY <1>1, <1>2, <1>4, <1>7, <2>1, TaskUnder DEF Within
  <2> QED BY <2>2, <2>3 DEF Under, Within
<1> QED BY <1>7, <1>8, <1>9

LEMMA SureMember ==
  ASSUME PathInv, NEW C, SureInv(C), Member
  PROVE  SureFrames(C)'
<1>1. Typed /\ Chain /\ UNCHANGED <<gdoc, sdoc>> /\ Returns("bag") /\ SureFrames(C)
  BY DEF PathInv, TypeInv, Member, SureInv
<1>2. PICK task \in Peak.todo : Swaps(MemberOn(task))
  BY <1>1, MemberMoves
<1>3. MemberOn(task) = [is |-> "bag", pair |-> Peak.pair, now |-> task,
        todo |-> Peak.todo \ {task}, out |-> Out, depth |-> Peak.depth, unfolding |-> Peak.unfolding]
  BY <1>1, MemberFrame DEF Out
<1>4. PICK x, p : x = MemberOn(task) /\ p = Peak.pair
  OBVIOUS
<1>5. x.is = "bag" /\ x.pair = p /\ x.now = task /\ x.todo = Peak.todo \ {task} /\ x.out = Out
  BY <1>3, <1>4
<1>6. Out = "yes" /\ Within(C, p) =>
        /\ ~BagFault(p[1].form, p[2].form)
        /\ Tasks(p[1], p[2]) \subseteq Good \union {p} \union Peak.todo
  BY <1>1, <1>4, BagSure
<1>7. Peak.todo \subseteq x.todo \union {x.now}
  BY <1>5
<1>8. SureFrame(C, x)
  BY <1>5, <1>6, <1>7 DEF SureFrame
<1> QED BY <1>1, <1>2, <1>4, <1>8, SureMoves DEF Swaps

\* A bag that ends with a yes.
LEMMA SettleGood ==
  ASSUME PathInv, NEW C, SureInv(C), Settle, Out = "yes", Within(C, Peak.pair)
  PROVE  Peak.pair \in Good
<1>1. Typed /\ Returns("bag") /\ Peak.todo = {} /\ FrameOK(Peak) /\ Peak.is = "bag"
  BY TypedParts DEF PathInv, TypeInv, Settle, Returns, Peak
<1>2. PICK p : p = Peak.pair
  OBVIOUS
<1>3. /\ ~BagFault(p[1].form, p[2].form) /\ p \in Pairs
      /\ Tasks(p[1], p[2]) \subseteq Good \union {p}
  BY <1>1, <1>2, BagSure
<1>4. p[1].form.is = "bag" /\ p[2].form.is = "bag" /\ Walked(p)
  BY <1>1, <1>2 DEF FrameOK
<1>5. Backed(Good \union {p}, p)
  BY <1>3, <1>4 DEF Backed, Recurs, Recursive, Walked
<1> QED BY <1>2, <1>3, <1>5, GoodMore

LEMMA SureSettle ==
  ASSUME PathInv, NEW C, SureInv(C), Settle
  PROVE  SureFrames(C)'
<1>1. /\ Typed /\ Counted /\ Chain /\ UNCHANGED <<gdoc, sdoc>> /\ SureFrames(C)
      /\ ctl' = Return(Out) /\ Pops
  BY SettleMoves DEF PathInv, TypeInv, Settle, Out, SureInv
<1>2. ctl'.out = "yes" /\ Within(C, Peak.pair) => Peak.pair \in Good
  BY <1>1, SettleGood DEF Return
<1> QED BY <1>1, <1>2, SureMoves

LEMMA MemoAssume ==
  ASSUME PathInv, NEW C, SureInv(C), Assume
  PROVE  SureMemo(C)'
<1>1. TypeInv /\ Typed /\ Good' = Good /\ UNCHANGED <<settled, pending>> /\ SureMemo(C)
  BY GoodStays DEF PathInv, TypeInv, Assume, SureInv
<1>2. PICK low \in Nat \ {0} : frames' = Lowered(frames, low)
  BY <1>1, AssumeLowers
<1>3. PICK n \in Nat : n = Len(frames) /\ n = Depth
  BY <1>1, TypedParts DEF Depth
<1>fs. PICK fs : fs = frames'
  OBVIOUS
<1>4. /\ Len(fs) = n
      /\ \A d \in 1 .. n : fs[d].pair = frames[d].pair /\ (d < n => fs[d] = frames[d])
  <2>1. frames \in Seq(BagFrame) /\ low \in Nat /\ fs = Lowered(frames, low)
    BY <1>1, <1>2, <1>fs DEF Typed
  <2>2. PICK old : old = frames
    OBVIOUS
  <2>3. old \in Seq(BagFrame) /\ fs = Lowered(old, low) /\ n = Len(old)
    BY <1>3, <2>1, <2>2
  <2>4. /\ Len(fs) = n
        /\ \A d \in 1 .. n : fs[d].pair = old[d].pair /\ (d < n => fs[d] = old[d])
    BY <2>1, <2>3, LoweredFacts
  <2> QED BY <2>2, <2>4
<1>5. ~Within(C, frames[n].pair)
  BY <1>3, NoneAssumed DEF SureInv
<1>6. \A d \in 1 .. n : Within(C, fs[d].pair) => fs[d].low = d
  <2>1. \A d \in 1 .. n : Within(C, frames[d].pair) => frames[d].low = d
    BY <1>1, <1>3 DEF SureMemo
  <2>2. \A d \in 1 .. n : d = n \/ d < n
    OBVIOUS
  <2> QED BY <1>4, <1>5, <2>1, <2>2
<1> QED BY <1>1, <1>3, <1>fs, <1>4, <1>6 DEF SureMemo, Within, Depth

LEMMA MemoEnter ==
  ASSUME PathInv, NEW C, SureInv(C), Enter
  PROVE  SureMemo(C)'
<1>1. Typed /\ Good' = Good /\ UNCHANGED <<settled, pending>> /\ SureMemo(C)
  BY GoodStays DEF PathInv, TypeInv, Enter, SureInv
<1>2. PICK n \in Nat : n = Len(frames) /\ n = Depth
  BY <1>1, TypedParts DEF Depth
<1>fs. PICK fs : fs = frames'
  OBVIOUS
<1> DEFINE x == [pair |-> ctl.pair, low |-> n + 1, held |-> {}]
<1>3. fs = Append(frames, x)
  BY <1>2, <1>fs DEF Enter
<1>x. x \in BagFrame
  BY <1>1, TypedParts DEF BagFrame, Enter, BagCall, Walks
<1>4. Len(fs) = n + 1 /\ fs[n + 1] = x /\ \A d \in 1 .. n : fs[d] = frames[d]
  <2>1. frames \in Seq(BagFrame)
    BY <1>1 DEF Typed
  <2> HIDE DEF x
  <2>2. PICK old : old = frames
    OBVIOUS
  <2>3. old \in Seq(BagFrame) /\ fs = Append(old, x) /\ n = Len(old)
    BY <1>2, <1>3, <2>1, <2>2
  <2>4. Len(fs) = n + 1 /\ fs[Len(fs)] = x /\ \A d \in 1 .. n : fs[d] = old[d]
    BY <1>x, <2>3, Pushed
  <2> QED BY <2>2, <2>4
<1>5. \A d \in 1 .. n : Within(C, frames[d].pair) => frames[d].low = d
  BY <1>1, <1>2 DEF SureMemo
<1>6. \A d \in 1 .. n + 1 : d = n + 1 \/ d \in 1 .. n
  OBVIOUS
<1>7. \A d \in 1 .. n + 1 : Within(C, fs[d].pair) => fs[d].low = d
  BY <1>4, <1>5, <1>6
<1> QED BY <1>1, <1>2, <1>fs, <1>4, <1>7 DEF SureMemo, Within, Depth

\* A bag below one of a concrete alternative is part of it.
LEMMA InnerWithin ==
  ASSUME PathInv, NEW C, SureInv(C), Settle, NEW d \in 1 .. Depth - 1, Within(C, frames[d].pair)
  PROVE  Within(C, Inner.pair)
<1>1. Typed /\ Counted /\ Returns("bag") /\ Deep(C) /\ Solid(C)
  BY DEF PathInv, TypeInv, Settle, SureInv
<1>2. /\ Depth \in Nat \ {0} /\ Peak.depth = Depth /\ Inner.pair = Peak.pair
      /\ Len(stack) \in Nat \ {0}
  BY <1>1, PeakIsInnermost DEF Inner
<1>3. PICK n \in Nat \ {0} : n = Len(stack)
  BY <1>2
<1>4. d \in 1 .. Depth /\ d # Depth
  BY <1>2
<1>5. PICK i \in 1 .. n : BagAt(i) /\ stack[i].depth = d /\ stack[i].pair = frames[d].pair
  BY <1>1, <1>3, <1>4 DEF Counted
<1>6. i # n
  BY <1>2, <1>3, <1>4, <1>5 DEF Peak
<1>7. n \in i + 1 .. n
  BY <1>6
<1>8. Under(C, stack[i].pair[2], stack[n].pair[2])
  BY <1>1, <1>3, <1>5, <1>7 DEF Deep, Within
<1>9. TopLike.form = Any /\ Any \in C
  BY <1>1 DEF TopLike, Node, Solid
<1> QED BY <1>2, <1>3, <1>8, <1>9 DEF Under, Within, Peak

LEMMA MemoSettle ==
  ASSUME PathInv, NEW C, SureInv(C), Settle
  PROVE  SureMemo(C)'
<1>1. /\ TypeInv /\ Typed /\ Counted /\ Returns("bag") /\ UNCHANGED <<gdoc, sdoc>> /\ Good' = Good
      /\ SureMemo(C)
  BY GoodStays DEF PathInv, TypeInv, Settle, SureInv
<1>2. PICK n \in Nat \ {0} : n = Depth
  BY <1>1, PeakIsInnermost
<1>3. /\ Inner \in BagFrame /\ Inner.pair = Peak.pair /\ n \in 1 .. n /\ frames \in Seq(BagFrame)
      /\ frames # <<>>
  BY <1>1, <1>2, PeakIsInnermost DEF Inner, Typed
<1>4. \A d \in 1 .. n : Within(C, frames[d].pair) => frames[d].low = d
  BY <1>1, <1>2 DEF SureMemo
<1>5. Within(C, Inner.pair) => Inner.low = n
  BY <1>2, <1>3, <1>4 DEF Inner
<1>6. PICK low \in Nat : low = Inner.low
  BY <1>3 DEF BagFrame
<1>fs. PICK rest, fs : rest = Rest /\ fs = frames'
  OBVIOUS
<1>7. /\ Len(rest) = n - 1
      /\ \A d \in 1 .. n - 1 : /\ rest[d].pair = frames[d].pair
                               /\ rest[d].low \in 1 .. d
                               /\ rest[d].low \in {low, frames[d].low}
  <2>1. /\ Len(rest) = n - 1
        /\ \A d \in 1 .. n - 1 : rest[d].pair = frames[d].pair /\ rest[d].low \in 1 .. d
    BY <1>1, <1>2, <1>fs, RestFacts
  <2>2. PICK below : below = Below(frames)
    OBVIOUS
  <2>3. below \in Seq(BagFrame) /\ Len(below) = n - 1 /\ \A d \in 1 .. n - 1 : below[d] = frames[d]
    BY <1>2, <1>3, <2>2, Popped DEF Depth
  <2>4. rest = Lowered(below, low)
    BY <1>6, <1>fs, <2>2 DEF Rest
  <2>5. \A d \in 1 .. n - 1 : rest[d].low \in {low, below[d].low}
    BY <2>3, <2>4, LoweredFacts
  <2> QED BY <2>1, <2>3, <2>5
<1>8. \A d \in 1 .. n - 1 : Within(C, rest[d].pair) => rest[d].low = d
  <2>1. SUFFICES ASSUME NEW d \in 1 .. n - 1, Within(C, rest[d].pair) PROVE rest[d].low = d
    OBVIOUS
  <2>2. Within(C, frames[d].pair) /\ d \in 1 .. n /\ d \in 1 .. Depth - 1
    BY <1>2, <1>7, <2>1 DEF Within
  <2>3. low = n
    BY <1>5, <1>6, <2>2, InnerWithin
  <2>4. frames[d].low = d
    BY <1>4, <2>2
  <2>5. rest[d].low \in 1 .. d /\ rest[d].low \in {n, d}
    BY <1>7, <2>3, <2>4
  <2> QED BY <2>5
<1>9. /\ Len(fs) = n - 1
      /\ \A d \in 1 .. n - 1 : fs[d].pair = rest[d].pair /\ fs[d].low = rest[d].low
  <2>1. CASE Waits(Inner.low, Out)
    BY <1>1, <1>2, <1>fs, <1>7, <2>1, WaitsFacts DEF Depth
  <2>2. CASE ~Waits(Inner.low, Out)
    <3>1. fs = rest
      BY <1>fs, <2>2 DEF Settle, Rest, Inner, Out
    <3> QED BY <1>7, <3>1
  <2> QED BY <2>1, <2>2
<1>10. \A d \in 1 .. n - 1 : Within(C, fs[d].pair) => fs[d].low = d
  BY <1>8, <1>9 DEF Within
<1>11. \A p \in DOMAIN pending' : ~Within(C, p)
  <2>1. CASE Waits(Inner.low, Out)
    <3>1. pending' = With(pending, {Inner.pair}, Inner.low)
      BY <2>1 DEF Settle, Inner, Out
    <3>2. DOMAIN pending' = DOMAIN pending \union {Inner.pair}
      BY <3>1 DEF With
    <3>3. Inner.low < n
      BY <1>2, <2>1 DEF Waits
    <3>4. ~Within(C, Inner.pair)
      BY <1>5, <3>3
    <3> QED BY <1>1, <3>2, <3>4 DEF SureMemo
  <2>2. CASE ~Waits(Inner.low, Out)
    <3>1. pending' = Without(pending, Inner.held)
      BY <2>2 DEF Settle, Inner, Out
    <3>2. DOMAIN pending' \subseteq DOMAIN pending
      BY <3>1 DEF Without
    <3> QED BY <1>1, <3>2 DEF SureMemo
  <2> QED BY <2>1, <2>2
<1>12. \A p \in DOMAIN settled' : settled'[p] = "yes" /\ Within(C, p) => p \in Good
  <2> DEFINE keys == {Inner.pair} \union (IF Out = "yes" THEN Inner.held ELSE {})
  <2>1. settled' = settled \/ settled' = With(settled, keys, Out)
    BY DEF Settle, Inner, Out
  <2>2. CASE settled' = settled
    BY <1>1, <2>2 DEF SureMemo
  <2>3. CASE settled' = With(settled, keys, Out)
    <3>1. DOMAIN settled' = DOMAIN settled \union keys
      BY <2>3 DEF With
    <3>2. ASSUME NEW p \in DOMAIN settled', settled'[p] = "yes", Within(C, p)
          PROVE  p \in Good
      <4>1. settled'[p] = IF p \in keys THEN Out ELSE settled[p]
        BY <2>3, <3>1 DEF With
      <4>2. CASE p \notin keys
        BY <1>1, <3>1, <3>2, <4>1, <4>2 DEF SureMemo
      <4>3. CASE p \in keys
        <5>1. Out = "yes"
          BY <3>2, <4>1, <4>3
        <5>2. Inner.held \subseteq DOMAIN pending
          BY <1>1, HeldFacts
        <5>3. p = Inner.pair
          BY <1>1, <3>2, <4>3, <5>2 DEF SureMemo
        <5> QED BY <1>3, <3>2, <5>1, <5>3, SettleGood
      <4> QED BY <4>2, <4>3
    <3> QED BY <3>2
  <2> QED BY <2>1, <2>2, <2>3
<1> QED BY <1>1, <1>fs, <1>9, <1>10, <1>11, <1>12 DEF SureMemo, Within, Depth

LEMMA SureStep ==
  ASSUME PathInv, RankInv, Ranked, NEW C, SureInv(C), [Next]_vars
  PROVE  SureInv(C)'
<1>1. Deep(C)' /\ (Solid(C)' <=> Solid(C))
  BY DeepStep DEF SureInv, Solid
<1>2. CASE Next
  <2>1. SureFrames(C)'
    BY <1>2, SureAnswer, SureBegun, SureEvery, SureSome, SureFolded, SureMember, SureSettle DEF Next
  <2>2. SureMemo(C)'
    <3>1. CASE Assume
      BY <3>1, MemoAssume
    <3>2. CASE Enter
      BY <3>2, MemoEnter
    <3>3. CASE Settle
      BY <3>3, MemoSettle
    <3>4. CASE Inside
      <4>1. UNCHANGED <<frames, settled, pending>> /\ Good' = Good
        BY <1>2, <3>4, DocsStay, GoodStays DEF Inside
      <4> QED BY <4>1 DEF SureInv, SureMemo, Within, Depth
    <3> QED BY <1>2, <3>1, <3>2, <3>3, <3>4, NextKinds DEF PathInv
  <2> QED BY <1>1, <2>1, <2>2 DEF SureInv
<1>3. CASE UNCHANGED vars
  <2>1. UNCHANGED <<gdoc, sdoc, ctl, stack, frames, settled, pending>> /\ Good' = Good
    BY <1>3, GoodStays DEF vars
  <2>2. \A f : SureFrame(C, f)' <=> SureFrame(C, f)
    BY <2>1 DEF SureFrame, Within
  <2>3. Current' = Current /\ Peak' = Peak
    BY <2>1 DEF Current, CalleeAt, Callee, Peak
  <2>4. SureFrames(C)'
    BY <2>1, <2>2, <2>3 DEF SureInv, SureFrames, Within
  <2>5. SureMemo(C)'
    BY <2>1 DEF SureInv, SureMemo, Within, Depth
  <2> QED BY <1>1, <2>4, <2>5 DEF SureInv
<1> QED BY <1>2, <1>3

(***************************************************************************)
(* What is not refuted is tolerated: by a set of pairs that the rules do   *)
(* not answer no, given that they do not answer no to those in it.  What   *)
(* is inside a choice counts only where the choice asks for a yes.         *)
(***************************************************************************)
Tolerates(S, p) ==
  LET g == p[1]
      s == p[2]
  IN  IF Recurs(p) THEN Unfolded(gdoc, sdoc, p) \in S
      ELSE IF Outright(g.form, s.form) # "walk" THEN Outright(g.form, s.form) # "no"
      ELSE IF s.form.is = "alts"
        THEN \A k \in KeysOf(s.form) : IsConcrete(s.form.at[k]) => Every(p, k) \in Good
      ELSE IF g.form.is = "alts"
        THEN IsConcrete(s.form) => \E k \in KeysOf(g.form) : Some(p, k) \in Good
      ELSE ~BagFault(g.form, s.form) /\ Tasks(g, s) \subseteq S

LEMMA ToleratesMore ==
  ASSUME NEW S, NEW T, S \subseteq T, NEW p, Tolerates(S, p)
  PROVE  Tolerates(T, p)
BY DEF Tolerates

LEMMA ToleratesStays ==
  ASSUME UNCHANGED <<gdoc, sdoc>>
  PROVE  \A S, p : Tolerates(S, p)' <=> Tolerates(S, p)
<1>1. Good' = Good
  BY GoodStays
<1> QED BY <1>1 DEF Tolerates

\* A call with no choice above it, and the pairs of such calls.
MainAt(calls, i) == \A j \in 1 .. i - 1 : calls[j].is \notin {"every", "some"}
MainOpen(calls) == {calls[i].pair : i \in {j \in 1 .. Len(calls) : MainAt(calls, j)}}

HeldUp(f, S) ==
  /\ ~BagFault(f.pair[1].form, f.pair[2].form)
  /\ Tasks(f.pair[1], f.pair[2]) \subseteq S \union f.todo \union {f.now}

Refuted == Fails({"yes", "undecided"})

Bears(Z) ==
  LET R == Z \union MainOpen(stack)
  IN  /\ Z \subseteq Pairs
      /\ \A p \in Z : Tolerates(R, p)
      /\ \A i \in 1 .. Len(stack) : stack[i].is = "bag" /\ MainAt(stack, i) => HeldUp(stack[i], R)
      /\ ctl.go = "return" /\ ctl.out # "no" /\ MainAt(stack, Len(stack) + 1) => Current \in R
      /\ \A p \in DOMAIN settled : settled[p] # "no" => p \in R
      /\ DOMAIN pending \subseteq R

Tolerated == Refuted \/ \E Z : Bears(Z)

LEMMA BearsNext ==
  ASSUME UNCHANGED <<gdoc, sdoc>>, NEW Z, Bears(Z), NEW X \in SUBSET Pairs,
         NEW R, R = Z \union MainOpen(stack),
         NEW new, new = stack', NEW S, S = Z \union X \union MainOpen(new), R \subseteq S,
         \A p \in X : Tolerates(R, p),
         \A i \in 1 .. Len(new) : new[i].is = "bag" /\ MainAt(new, i) =>
           \/ i \in 1 .. Len(stack) /\ new[i] = stack[i] /\ MainAt(stack, i)
           \/ HeldUp(new[i], S),
         ctl'.go = "return" /\ ctl'.out # "no" /\ MainAt(new, Len(new) + 1) => Current' \in S,
         \A p \in DOMAIN settled' : settled'[p] # "no" => p \in S,
         DOMAIN pending' \subseteq S
  PROVE  \E W : Bears(W)'
<1> DEFINE W == Z \union X
<1>1. Pairs' = Pairs /\ \A T, p : Tolerates(T, p)' <=> Tolerates(T, p)
  BY ToleratesStays DEF Pairs
<1>2. W \subseteq Pairs /\ S = W \union MainOpen(new)
  BY DEF Bears
<1>3. \A p \in W : Tolerates(S, p)
  <2>1. \A p \in W : Tolerates(R, p)
    BY DEF Bears
  <2> QED BY <2>1, ToleratesMore
<1>4. \A i \in 1 .. Len(new) : new[i].is = "bag" /\ MainAt(new, i) => HeldUp(new[i], S)
  <2>1. \A i \in 1 .. Len(stack) : stack[i].is = "bag" /\ MainAt(stack, i) => HeldUp(stack[i], S)
    BY DEF Bears, HeldUp
  <2> QED BY <2>1
<1> HIDE DEF W
<1>5. Bears(W)'
  <2>1. W \subseteq Pairs'
    BY <1>1, <1>2
  <2>2. \A p \in W : Tolerates(S, p)'
    BY <1>1, <1>3
  <2>3. \A f : HeldUp(f, S)' <=> HeldUp(f, S)
    BY DEF HeldUp
  <2>4. S = W \union MainOpen(stack')
    BY <1>2
  <2> QED BY <1>4, <2>1, <2>2, <2>4 DEF Bears
<1> QED BY <1>5

\* The calls with no choice above them, before a move and after it.
LEMMA MainBelow ==
  ASSUME NEW old, NEW new, NEW n \in Nat, \A i \in 1 .. n : new[i].is = old[i].is
  PROVE  \A i \in 1 .. n + 1 : MainAt(new, i) <=> MainAt(old, i)
<1>1. \A i \in 1 .. n + 1 : \A j \in 1 .. i - 1 : j \in 1 .. n
  OBVIOUS
<1> QED BY <1>1 DEF MainAt

LEMMA MainSame ==
  ASSUME NEW old, NEW new, NEW n \in Nat, Len(old) = n, Len(new) = n,
         \A i \in 1 .. n : new[i].is = old[i].is /\ new[i].pair = old[i].pair
  PROVE  MainOpen(new) = MainOpen(old)
<1>1. \A i \in 1 .. n + 1 : MainAt(new, i) <=> MainAt(old, i)
  BY MainBelow
<1>2. \A i \in 1 .. n : i \in 1 .. n + 1
  OBVIOUS
<1> QED BY <1>1, <1>2 DEF MainOpen

LEMMA MainMore ==
  ASSUME NEW old, NEW new, NEW n \in Nat, Len(old) = n, Len(new) = n + 1,
         \A i \in 1 .. n : new[i] = old[i]
  PROVE  /\ MainOpen(old) \subseteq MainOpen(new)
         /\ MainAt(old, n + 1) => new[n + 1].pair \in MainOpen(new)
         /\ MainOpen(new) \subseteq MainOpen(old) \union (IF MainAt(old, n + 1) THEN {new[n + 1].pair} ELSE {})
<1>1. \A i \in 1 .. n + 1 : MainAt(new, i) <=> MainAt(old, i)
  BY MainBelow
<1>2. \A i \in 1 .. n : i \in 1 .. n + 1
  OBVIOUS
<1>3. \A i \in 1 .. n + 1 : i \in 1 .. n \/ i = n + 1
  OBVIOUS
<1> QED BY <1>1, <1>2, <1>3 DEF MainOpen

LEMMA MainNow == Typed => (MainAt(stack, Len(stack) + 1) <=> ~Distributing)
<1>1. SUFFICES ASSUME Typed PROVE MainAt(stack, Len(stack) + 1) <=> ~Distributing
  OBVIOUS
<1>2. PICK n \in Nat : n = Len(stack)
  BY <1>1, TypedParts
<1>3. 1 .. n + 1 - 1 = 1 .. n
  OBVIOUS
<1> QED BY <1>2, <1>3 DEF MainAt, Distributing

LEMMA BearsAnswer ==
  ASSUME Typed, Chain, UNCHANGED <<gdoc, sdoc, settled, pending>>, NEW Z, Bears(Z), Answers,
         NEW X \in SUBSET Pairs, \A p \in X : Tolerates(Z \union MainOpen(stack), p),
         ctl'.out # "no" /\ ~Distributing => ctl.pair \in Z \union MainOpen(stack) \union X
  PROVE  \E W : Bears(W)'
<1>1. PICK R, S, new : /\ R = Z \union MainOpen(stack) /\ new = stack'
                       /\ S = Z \union X \union MainOpen(new)
  OBVIOUS
<1>2. new = stack /\ S = R \union X
  BY <1>1 DEF Answers
<1>3. Current' = ctl.pair
  <2>1. Current' = Current
    BY <1>1, <1>2 DEF Current, CalleeAt, Callee
  <2> QED BY <2>1 DEF Answers, Chain
<1>4. ctl'.go = "return" /\ ctl'.out # "no" /\ MainAt(new, Len(new) + 1) => Current' \in S
  BY <1>1, <1>2, <1>3, MainNow
<1>5. /\ \A p \in DOMAIN settled' : settled'[p] # "no" => p \in S
      /\ DOMAIN pending' \subseteq S
  BY <1>1, <1>2 DEF Bears
<1>6. R \subseteq S /\ \A p \in X : Tolerates(R, p)
  BY <1>1, <1>2
<1>7. \A i \in 1 .. Len(new) : new[i].is = "bag" /\ MainAt(new, i) =>
           \/ i \in 1 .. Len(stack) /\ new[i] = stack[i] /\ MainAt(stack, i)
           \/ HeldUp(new[i], S)
  BY <1>2
<1> QED BY <1>1, <1>4, <1>5, <1>6, <1>7, BearsNext

LEMMA BearsPush ==
  ASSUME Typed, UNCHANGED <<gdoc, sdoc, settled, pending>>, NEW Z, Bears(Z), NEW x, Pushes(x),
         x.is = "bag" /\ ~Distributing => HeldUp(x, {})
  PROVE  \E W : Bears(W)'
<1>1. PICK n \in Nat : n = Len(stack)
  BY TypedParts
<1>2. PICK R, S, old, new : /\ R = Z \union MainOpen(old) /\ old = stack /\ new = stack'
                            /\ S = Z \union {} \union MainOpen(new)
  OBVIOUS
<1>3. Len(new) = n + 1 /\ new[n + 1] = x /\ \A i \in 1 .. n : new[i] = old[i]
  BY <1>1, <1>2, PushedStack
<1>4. /\ MainOpen(old) \subseteq MainOpen(new)
      /\ MainAt(old, n + 1) => x.pair \in MainOpen(new)
  BY <1>1, <1>2, <1>3, MainMore
<1>5. \A i \in 1 .. n + 1 : MainAt(new, i) <=> MainAt(old, i)
  BY <1>3, MainBelow
<1>6. MainAt(old, n + 1) <=> ~Distributing
  BY <1>1, <1>2, MainNow
<1>7. ASSUME ctl'.go = "return", MainAt(new, Len(new) + 1)
      PROVE  Current' \in S
  <2>1. x.is = "bag" /\ x.now = x.pair
    BY <1>7 DEF Pushes, Call
  <2>2. MainAt(new, n + 1)
    <3>1. Len(new) + 1 = n + 1 + 1 /\ \A j \in 1 .. n + 1 - 1 : j \in 1 .. n + 1 + 1 - 1
      BY <1>3
    <3> QED BY <1>7, <3>1 DEF MainAt
  <2>3. Current' = x.now
    <3>1. Len(stack') + 1 = n + 2 /\ n + 2 # 1 /\ n + 2 - 1 = n + 1 /\ stack'[n + 1] = x
      BY <1>2, <1>3
    <3>2. Current' = CalleeAt(n + 2)'
      BY <3>1 DEF Current
    <3> QED BY <2>1, <3>1, <3>2 DEF CalleeAt, Callee
  <2>4. n + 1 \in 1 .. n + 1
    OBVIOUS
  <2> QED BY <1>2, <1>4, <1>5, <2>1, <2>2, <2>3, <2>4
<1>8. ASSUME NEW i \in 1 .. Len(new), new[i].is = "bag", MainAt(new, i)
      PROVE  (i \in 1 .. Len(stack) /\ new[i] = stack[i] /\ MainAt(stack, i)) \/ HeldUp(new[i], S)
  <2>1. i \in 1 .. n \/ i = n + 1
    BY <1>3, <1>8
  <2>2. CASE i \in 1 .. n
    <3>1. i \in 1 .. n + 1
      BY <2>2
    <3> QED BY <1>1, <1>2, <1>3, <1>5, <1>8, <2>2, <3>1
  <2>3. CASE i = n + 1
    <3>1. i \in 1 .. n + 1
      BY <2>3
    <3> QED BY <1>3, <1>5, <1>6, <1>8, <2>3, <3>1 DEF HeldUp
  <2> QED BY <2>1, <2>2, <2>3
<1>9. R \subseteq S
  BY <1>2, <1>4
<1>10. /\ \A p \in DOMAIN settled' : settled'[p] # "no" => p \in S
       /\ DOMAIN pending' \subseteq S
  BY <1>2, <1>9 DEF Bears
<1>11. R = Z \union MainOpen(stack)
  BY <1>2
<1>12. ctl'.go = "return" /\ ctl'.out # "no" /\ MainAt(new, Len(new) + 1) => Current' \in S
  BY <1>7
<1>13. PICK X \in SUBSET Pairs : X = {}
  OBVIOUS
<1>14. S = Z \union X \union MainOpen(new) /\ new = stack' /\ \A p \in X : Tolerates(R, p)
  BY <1>2, <1>13
<1>15. \A i \in 1 .. Len(new) : new[i].is = "bag" /\ MainAt(new, i) =>
         \/ i \in 1 .. Len(stack) /\ new[i] = stack[i] /\ MainAt(stack, i)
         \/ HeldUp(new[i], S)
  BY <1>8
<1> QED BY <1>9, <1>10, <1>11, <1>12, <1>14, <1>15, BearsNext

LEMMA BearsSwap ==
  ASSUME Typed, UNCHANGED <<gdoc, sdoc, settled, pending>>, NEW Z, Bears(Z), NEW x, Swaps(x),
         x.is = "bag" /\ MainAt(stack, Len(stack)) => HeldUp(x, Z \union MainOpen(stack))
  PROVE  \E W : Bears(W)'
<1>1. PICK n \in Nat \ {0} : n = Len(stack)
  BY SwappedStack
<1>2. PICK R, S, old, new : /\ R = Z \union MainOpen(old) /\ old = stack /\ new = stack'
                            /\ S = Z \union {} \union MainOpen(new)
  OBVIOUS
<1>3. /\ Len(new) = n /\ new[n] = x /\ x.is = old[n].is /\ x.pair = old[n].pair
      /\ \A i \in 1 .. n - 1 : new[i] = old[i]
  BY <1>1, <1>2, SwappedStack DEF Swaps, Peak
<1>4. \A i \in 1 .. n : i \in 1 .. n - 1 \/ i = n
  OBVIOUS
<1>5. \A i \in 1 .. n : new[i].is = old[i].is /\ new[i].pair = old[i].pair
  BY <1>3, <1>4
<1>6. MainOpen(new) = MainOpen(old) /\ \A i \in 1 .. n + 1 : MainAt(new, i) <=> MainAt(old, i)
  BY <1>1, <1>2, <1>3, <1>5, MainSame, MainBelow
<1>7. R = S /\ R \subseteq S /\ R = Z \union MainOpen(stack)
  BY <1>2, <1>6
<1>8. ASSUME NEW i \in 1 .. Len(new), new[i].is = "bag", MainAt(new, i)
      PROVE  (i \in 1 .. Len(stack) /\ new[i] = stack[i] /\ MainAt(stack, i)) \/ HeldUp(new[i], S)
  <2>1. i \in 1 .. n /\ i \in 1 .. n + 1 /\ MainAt(old, i)
    BY <1>3, <1>6, <1>8
  <2>2. CASE i \in 1 .. n - 1
    BY <1>1, <1>2, <1>3, <2>1, <2>2
  <2>3. CASE i = n
    BY <1>1, <1>2, <1>3, <1>7, <1>8, <2>1, <2>3
  <2> QED BY <1>4, <2>1, <2>2, <2>3
<1>9. /\ \A p \in DOMAIN settled' : settled'[p] # "no" => p \in S
      /\ DOMAIN pending' \subseteq S
  BY <1>7 DEF Bears
<1>10. ctl'.go = "return" /\ ctl'.out # "no" /\ MainAt(new, Len(new) + 1) => Current' \in S
  BY DEF Swaps, Call
<1>11. PICK X \in SUBSET Pairs : X = {}
  OBVIOUS
<1>12. S = Z \union X \union MainOpen(new) /\ new = stack' /\ \A p \in X : Tolerates(R, p)
  BY <1>2, <1>11
<1>13. \A i \in 1 .. Len(new) : new[i].is = "bag" /\ MainAt(new, i) =>
         \/ i \in 1 .. Len(stack) /\ new[i] = stack[i] /\ MainAt(stack, i)
         \/ HeldUp(new[i], S)
  BY <1>8
<1> QED BY <1>7, <1>9, <1>10, <1>12, <1>13, BearsNext

LEMMA BearsPop ==
  ASSUME Typed, Chain, UNCHANGED <<gdoc, sdoc>>, NEW Z, Bears(Z), Pops,
         NEW R, R = Z \union MainOpen(stack),
         ctl'.out # "no" /\ MainAt(stack, Len(stack)) => Tolerates(R, Peak.pair),
         ctl'.out = "no" => ~MainAt(stack, Len(stack)),
         \A p \in DOMAIN settled' : settled'[p] # "no" => p \in R,
         DOMAIN pending' \subseteq R
  PROVE  \E W : Bears(W)'
<1>1. PICK n \in Nat : n + 1 = Len(stack)
  <2>1. Len(stack) - 1 \in Nat /\ Len(stack) - 1 + 1 = Len(stack)
    BY PoppedStack
  <2> QED BY <2>1
<1>2. PICK old, new, p, X : /\ old = stack /\ new = stack' /\ p = Peak.pair
                            /\ X = IF MainAt(old, n + 1) THEN {p} ELSE {}
  OBVIOUS
<1>3. PICK S : S = Z \union X \union MainOpen(new)
  OBVIOUS
<1>4. Len(new) = n /\ (\A i \in 1 .. n : old[i] = new[i]) /\ p = old[n + 1].pair
  BY <1>1, <1>2, PoppedStack DEF Peak
<1>5. \A i \in 1 .. n + 1 : MainAt(new, i) <=> MainAt(old, i)
  BY <1>4, MainBelow
<1>6. MainOpen(old) \subseteq MainOpen(new) \union X
  <2>1. n + 1 \in 1 .. n + 1
    OBVIOUS
  <2>2. Len(old) = n + 1
    BY <1>1, <1>2
  <2>3. MainOpen(old) \subseteq MainOpen(new) \union (IF MainAt(new, n + 1) THEN {old[n + 1].pair} ELSE {})
    BY <1>4, <2>2, MainMore
  <2> QED BY <1>2, <1>4, <1>5, <2>1, <2>3
<1>7. R \subseteq S
  BY <1>2, <1>3, <1>6
<1>8. X \in SUBSET Pairs
  <2>1. Peak \in StackFrame
    BY TypedParts DEF Pops
  <2> QED BY <1>2, <2>1, FrameShapes
<1>9. \A q \in X : Tolerates(R, q)
  BY <1>1, <1>2
<1>10. ASSUME NEW i \in 1 .. Len(new), new[i].is = "bag", MainAt(new, i)
       PROVE  i \in 1 .. Len(stack) /\ new[i] = stack[i] /\ MainAt(stack, i)
  <2>1. i \in 1 .. n /\ i \in 1 .. n + 1
    BY <1>4, <1>10
  <2> QED BY <1>1, <1>2, <1>4, <1>5, <1>10, <2>1
<1>11. ASSUME MainAt(new, Len(new) + 1)
       PROVE  Current' \in S
  <2>1. Len(stack') + 1 = n + 1 /\ n + 1 \in 1 .. n + 1
    BY <1>2, <1>4
  <2>2. Current' = CalleeAt(n + 1)'
    BY <2>1 DEF Current
  <2>3. CalleeAt(n + 1)' = CalleeAt(n + 1)
    BY <1>2, <1>4, <2>1, OpenStays
  <2>4. stack[n + 1].pair = CalleeAt(n + 1)
    BY <1>1, <2>1 DEF Chain
  <2>5. p \in X
    BY <1>2, <1>4, <1>5, <1>11, <2>1
  <2> QED BY <1>2, <1>3, <1>4, <2>2, <2>3, <2>4, <2>5
<1>12. /\ \A q \in DOMAIN settled' : settled'[q] # "no" => q \in S
       /\ DOMAIN pending' \subseteq S
  BY <1>7
<1>13. ctl'.go = "return" /\ ctl'.out # "no" /\ MainAt(new, Len(new) + 1) => Current' \in S
  BY <1>11
<1>14. \A i \in 1 .. Len(new) : new[i].is = "bag" /\ MainAt(new, i) =>
         \/ i \in 1 .. Len(stack) /\ new[i] = stack[i] /\ MainAt(stack, i)
         \/ HeldUp(new[i], S)
  BY <1>10
<1>15. new = stack' /\ S = Z \union X \union MainOpen(new)
  BY <1>2, <1>3
<1> QED BY <1>7, <1>8, <1>9, <1>12, <1>13, <1>14, <1>15, BearsNext

LEMMA AnswerBears ==
  ASSUME PathInv, RankInv, Ranked, NEW Z, Bears(Z), Answer \/ Recall \/ Assume
  PROVE  \E W : Bears(W)'
<1>1. /\ Typed /\ Counted /\ Chain /\ Answers /\ UNCHANGED <<gdoc, sdoc, settled, pending>>
  BY AnswerMoves, RecallMoves, AssumeMoves DEF PathInv, TypeInv, Answer, Recall, Assume
<1>2. PICK R : R = Z \union MainOpen(stack)
  OBVIOUS
<1>3. PICK p \in Pairs : p = ctl.pair
  BY <1>1, TypedParts DEF Answers
<1>4. ASSUME NEW X \in SUBSET Pairs, \A q \in X : Tolerates(R, q),
             ctl'.out # "no" /\ ~Distributing => p \in R \union X
      PROVE  \E W : Bears(W)'
  BY <1>1, <1>2, <1>3, <1>4, BearsAnswer
<1>5. ASSUME ctl'.out # "no" /\ ~Distributing => p \in R
      PROVE  \E W : Bears(W)'
  <2>1. PICK X \in SUBSET Pairs : X = {}
    OBVIOUS
  <2> QED BY <1>4, <1>5, <2>1
<1>6. CASE Answer
  <2>1. ~Recurs(p)
    <3>1. Calls /\ ~Unfolds(p)
      BY <1>3, <1>6 DEF Answer
    <3>2. p \notin unfolding
      BY <1>3, <3>1, Unrecursed
    <3> QED BY <3>1, <3>2 DEF Unfolds, Recurs
  <2>2. Outright(p[1].form, p[2].form) # "walk" /\ ctl' = Return(Outright(p[1].form, p[2].form))
    BY <1>3, <1>6 DEF Answer
  <2>3. CASE ctl'.out = "no"
    BY <1>5, <2>3
  <2>4. CASE ctl'.out # "no"
    <3>1. Tolerates(R, p)
      BY <2>1, <2>2, <2>4 DEF Tolerates, Return
    <3>2. PICK X \in SUBSET Pairs : X = {p}
      OBVIOUS
    <3> QED BY <1>4, <3>1, <3>2
  <2> QED BY <2>3, <2>4
<1>7. CASE Recall
  <2>1. p \in DOMAIN settled /\ ctl' = Return(settled[p])
    BY <1>3, <1>7 DEF Recall
  <2>2. settled[p] # "no" => p \in R
    BY <1>2, <2>1 DEF Bears
  <2> QED BY <1>5, <2>1, <2>2 DEF Return
<1>8. CASE Assume
  <2>1. p \in DOMAIN pending \/ Running(p) # {}
    BY <1>3, <1>8 DEF Assume, Assumed
  <2>2. CASE p \in DOMAIN pending
    BY <1>2, <1>5, <2>2 DEF Bears
  <2>3. CASE Running(p) # {}
    <3>1. PICK d \in 1 .. Depth : frames[d].pair = p
      BY <2>3 DEF Running
    <3>2. PICK i \in 1 .. Len(stack) : stack[i].pair = p
      BY <1>1, <3>1 DEF Counted
    <3>3. ~Distributing => MainAt(stack, i)
      <4>1. \A j \in 1 .. i - 1 : j \in 1 .. Len(stack)
        BY <1>1, TypedParts
      <4> QED BY <4>1 DEF Distributing, MainAt
    <3>4. ~Distributing => p \in R
      BY <1>2, <3>2, <3>3 DEF MainOpen
    <3> QED BY <1>5, <3>4
  <2> QED BY <2>1, <2>2, <2>3
<1> QED BY <1>6, <1>7, <1>8

\* A bag begun outside every choice, with a fault.
LEMMA PushFails ==
  ASSUME NEW ok, Typed, NEW x, Pushes(x), x.is = "bag", x.out \notin ok, ~Distributing
  PROVE  Fails(ok)'
<1>1. PICK n \in Nat : n = Len(stack)
  BY TypedParts
<1>2. Len(stack') = n + 1 /\ stack'[n + 1] = x /\ \A i \in 1 .. n : stack'[i] = stack[i]
  BY <1>1, PushedStack
<1>3. \A j \in 1 .. n + 1 : ~Distributes(j)'
  <2>1. TAKE j \in 1 .. n + 1
  <2>2. j = n + 1 \/ j \in 1 .. n
    OBVIOUS
  <2> QED BY <1>1, <1>2, <2>2 DEF Distributes, Distributing
<1>4. n + 1 \in 1 .. Len(stack') /\ BagAt(n + 1)' /\ stack'[n + 1].out \notin ok
  BY <1>2 DEF BagAt
<1> QED BY <1>3, <1>4 DEF Fails

LEMMA BegunTolerated ==
  ASSUME PathInv, NEW Z, Bears(Z), Unfold \/ DistributeEvery \/ DistributeSome \/ Enter
  PROVE  Tolerated'
<1>1. Typed /\ UNCHANGED <<gdoc, sdoc, settled, pending>>
  BY DEF PathInv, TypeInv, Unfold, DistributeEvery, DistributeSome, Enter
<1>2. ASSUME NEW x, Pushes(x), x.is # "bag"
      PROVE  Tolerated'
  <2>1. \E W : Bears(W)'
    BY <1>1, <1>2, BearsPush
  <2> QED BY <2>1 DEF Tolerated
<1>3. CASE Unfold
  BY <1>1, <1>2, <1>3, UnfoldMoves
<1>4. CASE DistributeEvery
  <2> DEFINE keys == KeysOf(ctl.pair[2].form)
             x(k) == [is |-> "every", pair |-> ctl.pair, now |-> k, todo |-> keys \ {k}, out |-> "yes"]
  <2>1. PICK k \in keys : Pushes(x(k))
    BY <1>1, <1>4, EveryMoves
  <2> QED BY <1>2, <2>1
<1>5. CASE DistributeSome
  <2> DEFINE keys == KeysOf(ctl.pair[1].form)
             x(k) == [is |-> "some", pair |-> ctl.pair, now |-> k, todo |-> keys \ {k}]
  <2>1. PICK k \in keys : Pushes(x(k))
    BY <1>1, <1>5, SomeMoves
  <2> QED BY <1>2, <2>1
<1>6. CASE Enter
  <2>1. Pushes(EnterFrame)
    BY <1>1, <1>6, EnterMoves
  <2>2. PICK x, p : x = EnterFrame /\ p = ctl.pair
    OBVIOUS
  <2>3. /\ x.is = "bag" /\ x.pair = p /\ x.todo = Tasks(p[1], p[2])
        /\ x.out = IF BagFault(p[1].form, p[2].form) THEN "no" ELSE "yes"
    BY <2>2 DEF EnterFrame
  <2>4. CASE BagFault(p[1].form, p[2].form) /\ ~Distributing
    <3>1. Refuted'
      BY <1>1, <2>1, <2>2, <2>3, <2>4, PushFails DEF Refuted
    <3> QED BY <3>1 DEF Tolerated
  <2>5. CASE BagFault(p[1].form, p[2].form) => Distributing
    <3>1. ~Distributing => HeldUp(x, {})
      BY <2>3, <2>5 DEF HeldUp
    <3>2. \E W : Bears(W)'
      BY <1>1, <2>1, <2>2, <3>1, BearsPush
    <3> QED BY <3>2 DEF Tolerated
  <2> QED BY <2>4, <2>5
<1> QED BY <1>3, <1>4, <1>5, <1>6

LEMMA TopMain ==
  ASSUME Typed, stack # <<>>
  PROVE  /\ MainAt(stack, Len(stack)) <=> ~\E i \in 1 .. Len(stack) - 1 : Distributes(i)
         /\ MainAt(stack, Len(stack) + 1) <=>
              MainAt(stack, Len(stack)) /\ Peak.is \notin {"every", "some"}
<1>1. PICK n \in Nat : n + 1 = Len(stack)
  <2>1. Len(stack) - 1 \in Nat /\ Len(stack) - 1 + 1 = Len(stack)
    BY TypedParts
  <2> QED BY <2>1
<1>2. \A j \in 1 .. n + 1 : j \in 1 .. n \/ j = n + 1
  OBVIOUS
<1>3. n + 1 \in 1 .. n + 1 /\ (\A j \in 1 .. n : j \in 1 .. n + 1) /\ n + 1 - 1 = n /\ n + 1 + 1 - 1 = n + 1
  OBVIOUS
<1> QED BY <1>1, <1>2, <1>3 DEF MainAt, Distributes, Peak

LEMMA PopTolerated ==
  ASSUME Typed, Chain, UNCHANGED <<gdoc, sdoc>>, NEW Z, Bears(Z), Pops,
         NEW R, R = Z \union MainOpen(stack),
         ctl'.out # "no" /\ MainAt(stack, Len(stack)) => Tolerates(R, Peak.pair),
         \A p \in DOMAIN settled' : settled'[p] # "no" => p \in R,
         DOMAIN pending' \subseteq R
  PROVE  Tolerated'
<1>1. CASE ctl'.out = "no" /\ MainAt(stack, Len(stack))
  <2>1. ~\E i \in 1 .. Len(stack) - 1 : Distributes(i)
    BY <1>1, TopMain DEF Pops
  <2>2. Refuted'
    BY <1>1, <2>1, PopFails DEF Refuted
  <2> QED BY <2>2 DEF Tolerated
<1>2. CASE ctl'.out = "no" => ~MainAt(stack, Len(stack))
  <2>1. \E W : Bears(W)'
    BY <1>2, BearsPop
  <2> QED BY <2>1 DEF Tolerated
<1> QED BY <1>1, <1>2

LEMMA FoldedTolerated ==
  ASSUME PathInv, NEW Z, Bears(Z), Folded
  PROVE  Tolerated'
<1>1. /\ Typed /\ Chain /\ UNCHANGED <<gdoc, sdoc, ctl, settled, pending>> /\ ctl.go = "return"
      /\ stack # <<>> /\ Peak.is = "unfold" /\ FrameOK(Peak) /\ Pops
  BY FoldedMoves, TypedParts DEF PathInv, TypeInv, Folded, Returns, Peak
<1>2. PICK R : R = Z \union MainOpen(stack)
  OBVIOUS
<1>3. ASSUME ctl'.out # "no", MainAt(stack, Len(stack))
      PROVE  Tolerates(R, Peak.pair)
  <2>1. MainAt(stack, Len(stack) + 1)
    BY <1>1, <1>3, TopMain
  <2>2. Current \in R
    BY <1>1, <1>2, <1>3, <2>1 DEF Bears
  <2>3. Current = Unfolded(gdoc, sdoc, Peak.pair)
    BY <1>1, PeakCalls DEF Callee
  <2> QED BY <1>1, <2>2, <2>3 DEF Tolerates, FrameOK, Recurs
<1>4. (\A p \in DOMAIN settled' : settled'[p] # "no" => p \in R) /\ DOMAIN pending' \subseteq R
  BY <1>1, <1>2 DEF Bears
<1> QED BY <1>1, <1>2, <1>3, <1>4, PopTolerated

\* The members compared so far, where the bag stands outside every choice.
LEMMA BagHeld ==
  ASSUME PathInv, NEW Z, Bears(Z), Returns("bag"), MainAt(stack, Len(stack)), Out # "no"
  PROVE  LET p == Peak.pair
         IN  /\ ~BagFault(p[1].form, p[2].form) /\ p \in Z \union MainOpen(stack)
             /\ Tasks(p[1], p[2]) \subseteq Z \union MainOpen(stack) \union Peak.todo
<1>1. /\ Typed /\ ctl.go = "return" /\ stack # <<>> /\ Peak.is = "bag" /\ Peak \in PairFrame
      /\ ctl.out \in Tri
  BY TypedParts, FrameShapes DEF PathInv, TypeInv, Returns, Peak
<1>2. PICK R : R = Z \union MainOpen(stack)
  OBVIOUS
<1>3. ctl.out # "no"
  BY DEF Out, Worse
<1>4. Peak.now \in R
  <2>1. MainAt(stack, Len(stack) + 1)
    BY <1>1, TopMain
  <2>2. Current = Peak.now
    BY <1>1, PeakCalls DEF Callee
  <2> QED BY <1>1, <1>2, <1>3, <2>1, <2>2 DEF Bears
<1>5. Len(stack) \in 1 .. Len(stack)
  BY <1>1, PeakCalls
<1>6. HeldUp(Peak, R)
  BY <1>1, <1>2, <1>5 DEF Bears, Peak
<1>7. Peak.pair \in R
  BY <1>2, <1>5 DEF MainOpen, Peak
<1> QED BY <1>2, <1>4, <1>6, <1>7 DEF HeldUp

LEMMA MemberTolerated ==
  ASSUME PathInv, NEW Z, Bears(Z), Member
  PROVE  Tolerated'
<1>1. /\ Typed /\ UNCHANGED <<gdoc, sdoc, settled, pending>> /\ Returns("bag") /\ stack # <<>>
      /\ Peak.is = "bag" /\ Peak \in PairFrame /\ ctl.out \in Tri
  BY TypedParts, FrameShapes DEF PathInv, TypeInv, Member, Returns, Peak
<1>2. PICK task \in Peak.todo : Swaps(MemberOn(task))
  BY <1>1, MemberMoves
<1>3. MemberOn(task) = [is |-> "bag", pair |-> Peak.pair, now |-> task,
        todo |-> Peak.todo \ {task}, out |-> Out, depth |-> Peak.depth, unfolding |-> Peak.unfolding]
  BY <1>1, MemberFrame DEF Out
<1>4. CASE Out = "no" /\ MainAt(stack, Len(stack))
  <2>1. Out \notin {"yes", "undecided"}
    BY <1>4
  <2>2. ~\E i \in 1 .. Len(stack) : Distributes(i)
    <3>1. MainAt(stack, Len(stack) + 1)
      BY <1>1, <1>4, TopMain
    <3> QED BY <1>1, <3>1, MainNow DEF Distributing, Distributes
  <2>3. Refuted'
    BY <1>1, <1>2, <2>1, <2>2, MemberFails DEF Refuted, Out
  <2> QED BY <2>3 DEF Tolerated
<1>5. CASE Out # "no" \/ ~MainAt(stack, Len(stack))
  <2>1. PICK x, p, R : x = MemberOn(task) /\ p = Peak.pair /\ R = Z \union MainOpen(stack)
    OBVIOUS
  <2>2. x.is = "bag" /\ x.pair = p /\ x.now = task /\ x.todo = Peak.todo \ {task}
    BY <1>3, <2>1
  <2>3. ASSUME MainAt(stack, Len(stack))
        PROVE  HeldUp(x, R)
    <3>1. ~BagFault(p[1].form, p[2].form) /\ Tasks(p[1], p[2]) \subseteq R \union Peak.todo
      BY <1>1, <1>5, <2>1, <2>3, BagHeld
    <3>2. Peak.todo \subseteq x.todo \union {x.now}
      BY <2>2
    <3> QED BY <2>2, <3>1, <3>2 DEF HeldUp
  <2>4. \E W : Bears(W)'
    BY <1>1, <1>2, <2>1, <2>3, BearsSwap
  <2> QED BY <2>4 DEF Tolerated
<1> QED BY <1>4, <1>5

\* What a bag that ends leaves in the memo.
LEMMA SettleMemo ==
  ASSUME PathInv, Settle
  PROVE  /\ \A p \in DOMAIN settled' : settled'[p] # "no" =>
              \/ p \in DOMAIN settled /\ settled[p] # "no"
              \/ p \in DOMAIN pending
              \/ p = Peak.pair /\ ~Distributing
         /\ DOMAIN pending' \subseteq DOMAIN pending \union (IF Distributing THEN {} ELSE {Peak.pair})
<1>1. TypeInv /\ Inner.pair = Peak.pair /\ Inner.held \subseteq DOMAIN pending
  BY HeldFacts, RestFacts DEF PathInv
<1>2. CASE Waits(Inner.low, Out)
  <2>1. settled' = settled /\ pending' = With(pending, {Inner.pair}, Inner.low) /\ ~Distributing
    BY <1>2 DEF Settle, Out, Inner, Waits
  <2>2. DOMAIN pending' = DOMAIN pending \union {Inner.pair}
    BY <2>1 DEF With
  <2> QED BY <1>1, <2>1, <2>2
<1>3. CASE ~Waits(Inner.low, Out)
  <2> DEFINE done == {Inner.pair} \union (IF Out = "yes" THEN Inner.held ELSE {})
  <2>1. /\ pending' = Without(pending, Inner.held)
        /\ settled' = IF Distributing THEN settled ELSE With(settled, done, Out)
    BY <1>3 DEF Settle, Out, Inner
  <2>2. DOMAIN pending' \subseteq DOMAIN pending
    BY <2>1 DEF Without
  <2>3. CASE Distributing
    BY <2>1, <2>2, <2>3
  <2>4. CASE ~Distributing
    <3>1. /\ DOMAIN settled' = DOMAIN settled \union done
          /\ \A q \in DOMAIN settled' : settled'[q] = IF q \in done THEN Out ELSE settled[q]
      BY <2>1, <2>4 DEF With
    <3>2. done \subseteq {Peak.pair} \union DOMAIN pending
      BY <1>1
    <3> HIDE DEF done
    <3> QED BY <2>2, <2>4, <3>1, <3>2
  <2> QED BY <2>3, <2>4
<1> QED BY <1>2, <1>3

LEMMA SettleTolerated ==
  ASSUME PathInv, NEW Z, Bears(Z), Settle
  PROVE  Tolerated'
<1>1. /\ Typed /\ Chain /\ UNCHANGED <<gdoc, sdoc>> /\ Returns("bag") /\ stack # <<>>
      /\ Peak.is = "bag" /\ FrameOK(Peak) /\ Peak.todo = {} /\ Pops /\ ctl' = Return(Out)
  BY TypedParts, SettleMoves DEF PathInv, TypeInv, Settle, Returns, Peak, Out
<1>2. PICK p, R : p = Peak.pair /\ R = Z \union MainOpen(stack)
  OBVIOUS
<1>3. ASSUME ctl'.out # "no", MainAt(stack, Len(stack))
      PROVE  Tolerates(R, p)
  <2>1. Out # "no"
    BY <1>1, <1>3 DEF Return
  <2>2. ~BagFault(p[1].form, p[2].form) /\ Tasks(p[1], p[2]) \subseteq R \union {}
    BY <1>1, <1>2, <1>3, <2>1, BagHeld
  <2>3. Walked(p) /\ p[1].form.is = "bag" /\ p[2].form.is = "bag"
    BY <1>1, <1>2 DEF FrameOK
  <2> QED BY <2>2, <2>3 DEF Tolerates, Recurs, Recursive, Walked
<1>4. ~Distributing => p \in R
  <2>1. SUFFICES ASSUME ~Distributing PROVE p \in R
    OBVIOUS
  <2>2. MainAt(stack, Len(stack))
    BY <1>1, <2>1, MainNow, TopMain
  <2>3. Len(stack) \in 1 .. Len(stack)
    BY <1>1, PeakCalls
  <2> QED BY <1>2, <2>2, <2>3 DEF MainOpen, Peak
<1>5. (\A q \in DOMAIN settled : settled[q] # "no" => q \in R) /\ DOMAIN pending \subseteq R
  BY <1>2 DEF Bears
<1>6. (\A q \in DOMAIN settled' : settled'[q] # "no" => q \in R) /\ DOMAIN pending' \subseteq R
  BY <1>2, <1>4, <1>5, SettleMemo
<1> QED BY <1>1, <1>2, <1>3, <1>6, PopTolerated

\* What the specific side holds that is concrete is in C.
Grounds(C) == \A f \in Form[sdoc] : IsConcrete(f) => f \in C

LEMMA ConcreteWithin ==
  ASSUME gdoc \in Docs, sdoc \in Docs, NEW C, Solid(C), Grounds(C), NEW p \in Pairs
  PROVE  /\ IsConcrete(p[2].form) => Within(C, p)
         /\ p[2].form.is = "alts" =>
              \A k \in KeysOf(p[2].form) : IsConcrete(p[2].form.at[k]) => p[2].form.at[k] \in C
<1>1. ASSUME NEW q \in Pairs PROVE IsConcrete(q[2].form) => q[2].form \in C
  BY <1>1 DEF Pairs, NodesOf, Solid, Grounds
<1>2. p[2].form.is = "alts" => \A k \in KeysOf(p[2].form) : Every(p, k) \in Pairs
  BY PairFacts
<1>3. \A k : Every(p, k)[2].form = p[2].form.at[k]
  BY DEF Every, Child, Node
<1> QED BY <1>1, <1>2, <1>3 DEF Within

LEMMA EveryTolerated ==
  ASSUME PathInv, RankInv, Ranked, NEW C, SureInv(C), Grounds(C), NEW Z, Bears(Z), EveryNext
  PROVE  Tolerated'
<1>1. /\ Typed /\ Chain /\ UNCHANGED <<gdoc, sdoc, settled, pending>> /\ Returns("every")
      /\ ctl.go = "return" /\ ctl.out \in Tri /\ stack # <<>> /\ Peak.is = "every" /\ FrameOK(Peak)
      /\ Peak \in EveryFrame /\ gdoc \in Docs /\ sdoc \in Docs
  BY TypedParts, FrameShapes DEF PathInv, TypeInv, Typed, EveryNext, Returns, Peak
<1>2. PICK p, R : p = Peak.pair /\ R = Z \union MainOpen(stack)
  OBVIOUS
<1> DEFINE fails == ctl.out # "yes" /\ IsConcrete(Peak.pair[2].form.at[Peak.now])
<1>3. p[2].form.is = "alts" /\ Walked(p) /\ p \in Pairs
  <2>1. Peak.pair \in Pairs
    BY <1>1, TypedParts, FrameShapes
  <2> QED BY <1>1, <1>2, <2>1 DEF FrameOK
<1>4. (\A q \in DOMAIN settled' : settled'[q] # "no" => q \in R) /\ DOMAIN pending' \subseteq R
  BY <1>1, <1>2 DEF Bears
<1>5. ASSUME Pops, ctl'.out # "no" => Tolerates(R, p)
      PROVE  Tolerated'
  BY <1>1, <1>2, <1>4, <1>5, PopTolerated
<1>6. CASE fails
  <2>1. stack' = Below(stack) /\ ctl' = Return("no")
    BY <1>6 DEF EveryNext
  <2>2. Pops /\ ctl'.out = "no"
    BY <1>1, <2>1 DEF Pops, Return, Tri
  <2> QED BY <1>5, <2>2
<1>7. CASE ~fails /\ Peak.todo = {}
  <2>1. stack' = Below(stack) /\ ctl' = Return(EveryOut)
    BY <1>7 DEF EveryNext, EveryOut
  <2>2. EveryOut \in Tri
    BY <1>1 DEF EveryOut, EveryFrame, Tri
  <2>3. Pops
    BY <1>1, <2>1, <2>2 DEF Pops, Return
  <2>4. ~Recurs(p)
    BY <1>1, <1>2, ChoiceFresh
  <2>5. ASSUME NEW k \in KeysOf(p[2].form), IsConcrete(p[2].form.at[k])
        PROVE  Every(p, k) \in Good
    <3>1. p[2].form.at[k] \in C
      BY <1>1, <1>3, <2>5, ConcreteWithin DEF SureInv
    <3>2. ctl.out = "yes" \/ ~IsConcrete(p[2].form.at[Peak.now])
      BY <1>2, <1>7
    <3> QED BY <1>2, <1>7, <2>5, <3>1, <3>2, EveryFound
  <2>6. Tolerates(R, p)
    BY <1>3, <2>4, <2>5 DEF Tolerates, Walked
  <2> QED BY <1>5, <2>3, <2>6
<1>8. CASE ~fails /\ Peak.todo # {}
  <2>1. PICK k \in Peak.todo : /\ stack' = Append(Below(stack), EveryOn(k))
                               /\ ctl' = Call(Every(Peak.pair, k))
    BY <1>8 DEF EveryNext, EveryOn, EveryOut
  <2>2. Swaps(EveryOn(k)) /\ EveryOn(k).is = "every"
    BY <1>1, <2>1, EveryOnMoves DEF EveryOn, EveryFrame
  <2>3. \E W : Bears(W)'
    BY <1>1, <2>2, BearsSwap
  <2> QED BY <2>3 DEF Tolerated
<1> QED BY <1>6, <1>7, <1>8

LEMMA SomeTolerated ==
  ASSUME PathInv, RankInv, Ranked, NEW C, SureInv(C), Grounds(C), NEW Z, Bears(Z), SomeNext
  PROVE  Tolerated'
<1>1. /\ Typed /\ Chain /\ UNCHANGED <<gdoc, sdoc, settled, pending>> /\ Returns("some")
      /\ ctl.go = "return" /\ ctl \in [go : {"return"}, out : Tri] /\ stack # <<>>
      /\ Peak.is = "some" /\ FrameOK(Peak) /\ Peak \in SomeFrame /\ gdoc \in Docs /\ sdoc \in Docs
  BY TypedParts, FrameShapes DEF PathInv, TypeInv, Typed, SomeNext, Returns, Peak
<1>2. PICK p, at, R : p = Peak.pair /\ at = Peak.now /\ R = Z \union MainOpen(stack)
  OBVIOUS
<1>3. /\ p[2].form.is # "alts" /\ p[1].form.is = "alts" /\ Walked(p) /\ p \in Pairs
      /\ at \in KeysOf(p[1].form) /\ Some(p, at)[2] = p[2]
  <2>1. Peak.pair \in Pairs
    BY <1>1, TypedParts, FrameShapes
  <2> QED BY <1>1, <1>2, <2>1 DEF FrameOK, Some
<1>4. (\A q \in DOMAIN settled' : settled'[q] # "no" => q \in R) /\ DOMAIN pending' \subseteq R
  BY <1>1, <1>2 DEF Bears
<1>5. ASSUME Pops, ctl'.out # "no" /\ IsConcrete(p[2].form) => Some(p, at) \in Good
      PROVE  Tolerated'
  <2>1. ~Recurs(p)
    BY <1>1, <1>2, ChoiceFresh
  <2>2. ctl'.out # "no" => Tolerates(R, p)
    BY <1>3, <1>5, <2>1 DEF Tolerates, Walked
  <2> QED BY <1>1, <1>2, <1>4, <1>5, <2>2, PopTolerated
<1>6. CASE ctl.out = "yes"
  <2>1. Pops
    BY <1>1, <1>6 DEF SomeNext, Pops
  <2>2. ASSUME IsConcrete(p[2].form)
        PROVE  Some(p, at) \in Good
    <3>1. Within(C, p) /\ SureFrames(C)
      BY <1>1, <1>3, <2>2, ConcreteWithin DEF SureInv
    <3>2. Callee(Peak) = Some(p, at)
      BY <1>1, <1>2 DEF Callee
    <3> QED BY <1>1, <1>3, <1>6, <3>1, <3>2, TopSure DEF Within
  <2> QED BY <1>5, <2>1, <2>2
<1>7. CASE ctl.out # "yes" /\ Peak.todo = {}
  <2>1. stack' = Below(stack) /\ ctl' = Return(IF IsConcrete(Peak.pair[2].form) THEN "no" ELSE "undecided")
    BY <1>7 DEF SomeNext
  <2>2. Pops /\ (IsConcrete(p[2].form) => ctl'.out = "no")
    BY <1>1, <1>2, <2>1 DEF Pops, Return, Tri
  <2> QED BY <1>5, <2>2
<1>8. CASE ctl.out # "yes" /\ Peak.todo # {}
  <2>1. PICK k \in Peak.todo : /\ stack' = Append(Below(stack), SomeOn(k))
                               /\ ctl' = Call(Some(Peak.pair, k))
    BY <1>8 DEF SomeNext, SomeOn
  <2>2. Swaps(SomeOn(k)) /\ SomeOn(k).is = "some"
    BY <1>1, <2>1, SomeOnMoves DEF SomeOn, SomeFrame
  <2>3. \E W : Bears(W)'
    BY <1>1, <2>2, BearsSwap
  <2> QED BY <2>3 DEF Tolerated
<1> QED BY <1>6, <1>7, <1>8

LEMMA ToleratedStart == Init => Tolerated
<1>1. SUFFICES ASSUME Init PROVE Tolerated
  OBVIOUS
<1>2. PICK Z : Z = {}
  OBVIOUS
<1>3. stack = <<>> /\ ctl.go = "call" /\ settled = <<>> /\ pending = <<>>
  BY <1>1 DEF Init, Call
<1>4. DOMAIN settled = {} /\ DOMAIN pending = {}
  BY <1>3
<1>5. Bears(Z)
  BY <1>2, <1>3, <1>4 DEF Bears
<1> QED BY <1>5 DEF Tolerated

LEMMA ToleratedStep ==
  ASSUME PathInv, RankInv, Ranked, NEW C, SureInv(C), Grounds(C), Tolerated, [Next]_vars
  PROVE  Tolerated'
<1>1. CASE Next /\ Refuted
  <2>1. Refuted'
    BY <1>1, FailsStays DEF Refuted
  <2> QED BY <2>1 DEF Tolerated
<1>2. CASE Next /\ ~Refuted
  <2>1. PICK Z : Bears(Z)
    BY <1>2 DEF Tolerated
  <2>2. CASE Answer \/ Recall \/ Assume
    <3>1. \E W : Bears(W)'
      BY <2>1, <2>2, AnswerBears
    <3> QED BY <3>1 DEF Tolerated
  <2> QED BY <1>2, <2>1, <2>2, BegunTolerated, FoldedTolerated, EveryTolerated, SomeTolerated,
             MemberTolerated, SettleTolerated DEF Next
<1>3. CASE UNCHANGED vars
  <2>1. UNCHANGED <<gdoc, sdoc, ctl, stack, settled, pending>>
    BY <1>3 DEF vars
  <2>2. Refuted' <=> Refuted
    BY <2>1 DEF Refuted, Fails, BagAt, Distributes, Distributing
  <2>3. Current' = Current /\ Pairs' = Pairs /\ \A S, p : Tolerates(S, p)' <=> Tolerates(S, p)
    BY <2>1, ToleratesStays DEF Current, CalleeAt, Callee, Pairs
  <2>4. \A Z : Bears(Z) => Bears(Z)'
    BY <2>1, <2>3 DEF Bears, HeldUp
  <2> QED BY <2>2, <2>4 DEF Tolerated
<1> QED BY <1>1, <1>2, <1>3

LEMMA SureStart == ASSUME Init, NEW C, Solid(C) PROVE SureInv(C)
<1>1. /\ stack = <<>> /\ frames = <<>> /\ settled = <<>> /\ pending = <<>> /\ ctl.go = "call"
      /\ Deep(C)
  BY DeepStart DEF Init, Call
<1>2. DOMAIN settled = {} /\ DOMAIN pending = {} /\ Depth = 0 /\ Len(stack) = 0
  BY <1>1 DEF Depth
<1>3. SureFrames(C)
  BY <1>1, <1>2 DEF SureFrames
<1>4. SureMemo(C)
  BY <1>2 DEF SureMemo
<1> QED BY <1>1, <1>3, <1>4 DEF SureInv

\* What is tolerated the rules do not answer no.
LEMMA TolerateRuled ==
  ASSUME gdoc \in Docs, sdoc \in Docs, NEW S, NEW p \in Pairs, Tolerates(S, p),
         NEW answer \in [Pairs -> Tri],
         \A q \in Pairs : /\ q \in S => answer[q] # "no"
                          /\ q \in Good => answer[q] = "yes"
  PROVE  Ruled(gdoc, sdoc, answer, p) \in {"yes", "undecided"}
<1> DEFINE g == p[1]
           s == p[2]
<1>1. \A A \in SUBSET {"yes", "undecided"} : Worst(A) \in {"yes", "undecided"}
  BY DEF Worst
<1>2. CASE Recurs(p)
  <2>1. Unfolded(gdoc, sdoc, p) \in S /\ Unfolded(gdoc, sdoc, p) \in Pairs
    BY <1>2, PairFacts DEF Tolerates
  <2>2. answer[Unfolded(gdoc, sdoc, p)] \in {"yes", "undecided"}
    BY <2>1 DEF Tri
  <2> QED BY <1>2, <2>2 DEF Ruled, Recurs
<1>3. CASE ~Recurs(p) /\ Outright(g.form, s.form) # "walk"
  <2>1. Outright(g.form, s.form) \in Tri \union {"walk"}
    BY PairFacts
  <2> QED BY <1>3, <2>1 DEF Tolerates, Ruled, Recurs, Tri
<1>4. CASE ~Recurs(p) /\ Outright(g.form, s.form) = "walk" /\ s.form.is = "alts"
  <2> DEFINE A == {IF answer[Every(p, k)] = "yes" THEN "yes"
                   ELSE IF IsConcrete(s.form.at[k]) THEN "no" ELSE "undecided" : k \in KeysOf(s.form)}
  <2>1. \A k \in KeysOf(s.form) : IsConcrete(s.form.at[k]) => answer[Every(p, k)] = "yes"
    BY <1>4, PairFacts DEF Tolerates
  <2>2. A \in SUBSET {"yes", "undecided"}
    BY <2>1
  <2>3. Ruled(gdoc, sdoc, answer, p) = Worst(A)
    BY <1>4 DEF Ruled, Recurs
  <2> QED BY <1>1, <2>2, <2>3
<1>5. CASE /\ ~Recurs(p) /\ Outright(g.form, s.form) = "walk" /\ s.form.is # "alts"
           /\ g.form.is = "alts"
  <2>1. IsConcrete(s.form) => \E k \in KeysOf(g.form) : answer[Some(p, k)] = "yes"
    BY <1>5, PairFacts DEF Tolerates
  <2>2. Ruled(gdoc, sdoc, answer, p) =
          IF \E k \in KeysOf(g.form) : answer[Some(p, k)] = "yes" THEN "yes"
          ELSE IF IsConcrete(s.form) THEN "no" ELSE "undecided"
    BY <1>5 DEF Ruled, Recurs
  <2> QED BY <2>1, <2>2
<1>6. CASE /\ ~Recurs(p) /\ Outright(g.form, s.form) = "walk" /\ s.form.is # "alts"
           /\ g.form.is # "alts"
  <2> DEFINE A == {answer[task] : task \in Tasks(g, s)}
                    \union {IF BagFault(g.form, s.form) THEN "no" ELSE "yes"}
  <2>1. ~BagFault(g.form, s.form) /\ Tasks(g, s) \subseteq S
    BY <1>6 DEF Tolerates
  <2>2. Tasks(g, s) \subseteq Pairs
    BY <1>6, PairFacts DEF Walked
  <2>3. \A task \in Tasks(g, s) : answer[task] \in {"yes", "undecided"}
    BY <2>1, <2>2 DEF Tri
  <2>4. A \in SUBSET {"yes", "undecided"}
    BY <2>1, <2>3
  <2>5. Ruled(gdoc, sdoc, answer, p) = Worst(A)
    BY <1>6 DEF Ruled, Recurs
  <2> QED BY <1>1, <2>4, <2>5
<1> QED BY <1>2, <1>3, <1>4, <1>5, <1>6

\* No form that counts as concrete holds a recursion.
Plain(d) ==
  \E C \in SUBSET AnyForm : Solid(C) /\ \A f \in Form[d] : IsConcrete(f) => f \in C

(***************************************************************************)
(* The answer is exact: of all the ways to answer every pair that are no   *)
(* better than the rules make them, none answers the pair asked about      *)
(* better than the walk does, and one answers it as the walk does.  So     *)
(* what is assumed and remembered, and the order the members come in,      *)
(* changes no answer.  The recursions of both documents can be ranked;     *)
(* and for an undecided answer, no form of the specific document that      *)
(* counts as concrete holds a recursion, as it could in a template.        *)
(***************************************************************************)
VerdictIsExact ==
  Done /\ Graded(gdoc) /\ Graded(sdoc) =>
    /\ \A T \in [Pairs -> Tri] : Claim(T) => AtMost(T[Asked(gdoc, sdoc)], ctl.out)
    /\ ctl.out # "undecided" \/ Plain(sdoc) =>
         \E T \in [Pairs -> Tri] : Claim(T) /\ T[Asked(gdoc, sdoc)] = ctl.out

SureAll == Ranked => \A C \in SUBSET AnyForm : Solid(C) => SureInv(C)
TolerantInv == Ranked /\ Plain(sdoc) => Tolerated

\* What a walk that has ended without a no tolerates is a claim.
LEMMA ClaimOfBears ==
  ASSUME PathInv, Done, ctl.out = "undecided", NEW Z, Bears(Z),
         \A T \in [Pairs -> Tri] : Claim(T) => AtMost(T[Asked(gdoc, sdoc)], ctl.out)
  PROVE  \E T \in [Pairs -> Tri] : Claim(T) /\ T[Asked(gdoc, sdoc)] = ctl.out
<1>1. /\ stack = <<>> /\ ctl.go = "return" /\ Len(stack) = 0 /\ gdoc \in Docs /\ sdoc \in Docs
      /\ Current = Asked(gdoc, sdoc) /\ Asked(gdoc, sdoc) \in Pairs
  BY RootPairs DEF Done, PathInv, TypeInv, Typed, Current, CalleeAt
<1>2. MainOpen(stack) = {} /\ MainAt(stack, Len(stack) + 1)
  BY <1>1 DEF MainOpen, MainAt
<1>3. Z \subseteq Pairs /\ Asked(gdoc, sdoc) \in Z /\ \A p \in Z : Tolerates(Z, p)
  BY <1>1, <1>2 DEF Bears
<1>4. PICK T : T = [p \in Pairs |-> IF p \in Good THEN "yes" ELSE IF p \in Z THEN "undecided" ELSE "no"]
  OBVIOUS
<1>5. /\ T \in [Pairs -> Tri]
      /\ \A q \in Pairs : /\ q \in Z => T[q] # "no"
                          /\ q \in Good => T[q] = "yes"
                          /\ q \notin Good /\ q \notin Z => T[q] = "no"
                          /\ q \notin Good /\ q \in Z => T[q] = "undecided"
  BY <1>4 DEF Tri
<1>6. ASSUME NEW p \in Pairs
      PROVE  AtMost(T[p], Ruled(gdoc, sdoc, T, p))
  <2>1. CASE p \in Good
    <3>1. Backed(Good, p)
      BY <2>1, GoodBacked
    <3>2. Ruled(gdoc, sdoc, T, p) = "yes"
      BY <1>1, <1>5, <3>1, BackedRuled
    <3> QED BY <3>2 DEF AtMost
  <2>2. CASE p \notin Good /\ p \in Z
    <3>1. Ruled(gdoc, sdoc, T, p) \in {"yes", "undecided"}
      BY <1>1, <1>3, <1>5, <2>2, TolerateRuled
    <3> QED BY <1>5, <2>2, <3>1 DEF AtMost
  <2>3. CASE p \notin Good /\ p \notin Z
    BY <1>5, <2>3 DEF AtMost
  <2> QED BY <2>1, <2>2, <2>3
<1>7. Claim(T)
  BY <1>6 DEF Claim
<1>8. AtMost(T[Asked(gdoc, sdoc)], "undecided")
  BY <1>5, <1>7
<1>9. T[Asked(gdoc, sdoc)] = "undecided"
  BY <1>1, <1>3, <1>5, <1>8 DEF AtMost
<1> QED BY <1>5, <1>7, <1>9

LEMMA ExactAtEnd ==
  ASSUME PathInv, FitInv, TolerantInv, YesIsSimulated
  PROVE  VerdictIsExact
<1>1. SUFFICES ASSUME Done, Graded(gdoc), Graded(sdoc)
               PROVE  /\ \A T \in [Pairs -> Tri] : Claim(T) => AtMost(T[Asked(gdoc, sdoc)], ctl.out)
                      /\ ctl.out # "undecided" \/ Plain(sdoc) =>
                           \E T \in [Pairs -> Tri] : Claim(T) /\ T[Asked(gdoc, sdoc)] = ctl.out
  BY DEF VerdictIsExact
<1>2. /\ stack = <<>> /\ ctl.go = "return" /\ ctl.out \in Tri /\ Len(stack) = 0
      /\ gdoc \in Docs /\ sdoc \in Docs
      /\ Current = Asked(gdoc, sdoc) /\ Asked(gdoc, sdoc) \in Pairs
  BY <1>1, RootPairs, TypedParts DEF Done, PathInv, TypeInv, Typed, Current, CalleeAt
<1>3. Ranked
  BY <1>1, <1>2, GradedFalls DEF Ranked
<1>4. \A T \in [Pairs -> Tri] : Claim(T) => AtMost(T[Asked(gdoc, sdoc)], ctl.out)
  BY <1>2, <1>3 DEF FitInv, Fits
<1>5. CASE ctl.out = "no"
  <2>1. PICK T : T = [p \in Pairs |-> "no"]
    OBVIOUS
  <2>2. T \in [Pairs -> Tri] /\ \A p \in Pairs : T[p] = "no"
    BY <2>1 DEF Tri
  <2>3. Claim(T)
    BY <2>2 DEF Claim, AtMost
  <2> QED BY <1>2, <1>4, <1>5, <2>2, <2>3
<1>6. CASE ctl.out = "yes"
  <2>1. PICK S \in SUBSET Pairs : Asked(gdoc, sdoc) \in S /\ Simulation(S)
    BY <1>1, <1>6 DEF YesIsSimulated
  <2>2. PICK T : T = Says(S)
    OBVIOUS
  <2>3. T \in [Pairs -> Tri] /\ \A p \in Pairs : T[p] = IF p \in S THEN "yes" ELSE "no"
    BY <2>2 DEF Says, Tri
  <2>4. \A p \in S : Ruled(gdoc, sdoc, T, p) = "yes"
    BY <2>1, <2>2 DEF Simulation
  <2>5. Claim(T)
    BY <2>3, <2>4 DEF Claim, AtMost
  <2> QED BY <1>2, <1>4, <1>6, <2>1, <2>3, <2>5
<1>7. CASE ctl.out = "undecided"
  <2>1. ASSUME Plain(sdoc)
        PROVE  \E T \in [Pairs -> Tri] : Claim(T) /\ T[Asked(gdoc, sdoc)] = ctl.out
    <3>1. ~Refuted
      BY <1>2, <1>7 DEF Refuted, Fails
    <3>2. PICK Z : Bears(Z)
      BY <1>3, <2>1, <3>1 DEF TolerantInv, Tolerated
    <3> QED BY <1>1, <1>4, <1>7, <3>2, ClaimOfBears
  <2> QED BY <1>4, <1>7, <2>1
<1> QED BY <1>2, <1>5, <1>6, <1>7 DEF Tri

LEMMA SureAllStep ==
  ASSUME PathInv, RankInv, SureAll, [Next]_vars
  PROVE  SureAll'
<1>1. UNCHANGED <<gdoc, sdoc>>
  BY DocsStay DEF vars
<1>2. SUFFICES ASSUME Ranked, NEW C \in SUBSET AnyForm, Solid(C)
               PROVE  SureInv(C)'
  BY <1>1, RankStays DEF SureAll, Solid
<1>3. SureInv(C)
  BY <1>2 DEF SureAll
<1> QED BY <1>2, <1>3, SureStep

LEMMA TolerantStep ==
  ASSUME PathInv, RankInv, SureAll, TolerantInv, [Next]_vars
  PROVE  TolerantInv'
<1>1. UNCHANGED <<gdoc, sdoc>>
  BY DocsStay DEF vars
<1>2. SUFFICES ASSUME Ranked, Plain(sdoc)
               PROVE  Tolerated'
  BY <1>1, RankStays DEF TolerantInv, Plain, Solid
<1>3. PICK C \in SUBSET AnyForm : Solid(C) /\ \A f \in Form[sdoc] : IsConcrete(f) => f \in C
  BY <1>2 DEF Plain
<1>4. SureInv(C) /\ Grounds(C) /\ Tolerated
  BY <1>2, <1>3 DEF SureAll, TolerantInv, Grounds
<1> QED BY <1>2, <1>4, ToleratedStep

\* Whatever walk of the query (subsume.ts, subsumeNode) ends, its answer is
\* the greatest that the rules allow.
THEOREM WalkExact == Spec => []VerdictIsExact
<1> DEFINE Inv == PathInv /\ RankInv /\ FitInv /\ SureAll /\ TolerantInv
<1>1. Init => Inv
  BY PathStart, RankStart, FitStart, SureStart, ToleratedStart DEF SureAll, TolerantInv
<1>2. Inv /\ [Next]_vars => Inv'
  BY PathStep, RankStep, FitStep, SureAllStep, TolerantStep
<1>3. Inv /\ YesIsSimulated => VerdictIsExact
  BY ExactAtEnd
<1> QED BY <1>1, <1>2, <1>3, WalkYes, PTL DEF Spec
=============================================================================
