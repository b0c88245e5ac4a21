---------------------------- MODULE AcquireProofs ----------------------------
(***************************************************************************)
(* Theorems about acquiring packages into one cache, for every set of      *)
(* clients, package graph, repository, cap and mishap.                     *)
(***************************************************************************)
EXTENDS Acquire, PackagesProofs, SequenceTheorems

(***************************************************************************)
(* Sequences: a stack whose top is replaced, pushed onto, or returned to.  *)
(***************************************************************************)
LEMMA Replaced ==
  ASSUME NEW S, NEW s \in Seq(S), s # <<>>, NEW f \in S
  PROVE  LET t == [s EXCEPT ![Len(s)] = f] IN
           /\ t \in Seq(S) /\ Len(t) = Len(s) /\ t # <<>>
           /\ t[Len(t)] = f
           /\ \A i \in 1 .. Len(s) - 1 : t[i] = s[i]
OBVIOUS

LEMMA Pushed ==
  ASSUME NEW S, NEW s \in Seq(S), NEW f \in S
  PROVE  LET t == Append(s, f) IN
           /\ t \in Seq(S) /\ Len(t) = Len(s) + 1 /\ t # <<>>
           /\ t[Len(t)] = f
           /\ \A i \in 1 .. Len(s) : t[i] = s[i]
OBVIOUS

LEMMA Popped ==
  ASSUME NEW S, NEW s \in Seq(S), Len(s) > 1, NEW f \in S
  PROVE  LET t == Append(SubSeq(s, 1, Len(s) - 2), f) IN
           /\ t \in Seq(S) /\ Len(t) = Len(s) - 1 /\ t # <<>>
           /\ t[Len(t)] = f
           /\ \A i \in 1 .. Len(s) - 2 : t[i] = s[i]
<1> DEFINE n == Len(s) - 2
           u == SubSeq(s, 1, n)
<1>1. n \in Nat /\ n \in Int /\ 1 \in Int /\ Len(s) = n + 2
  OBVIOUS
<1>2. \A i \in 1 .. n : s[i] \in S
  OBVIOUS
<1> HIDE DEF n
<1>3. /\ u \in Seq(S)
      /\ Len(u) = IF 1 <= n THEN n - 1 + 1 ELSE 0
      /\ \A i \in 1 .. n - 1 + 1 : u[i] = s[1 + i - 1]
  <2>1. /\ SubSeq(s, 1, n) \in Seq(S)
        /\ Len(SubSeq(s, 1, n)) = IF 1 <= n THEN n - 1 + 1 ELSE 0
        /\ \A i \in 1 .. n - 1 + 1 : SubSeq(s, 1, n)[i] = s[1 + i - 1]
    BY <1>1, <1>2, SubSeqProperties
  <2> QED BY <2>1
<1> HIDE DEF u
<1>4. Len(u) = n /\ \A i \in 1 .. n : u[i] = s[i]
  BY <1>1, <1>3
<1>5. /\ Append(u, f) \in Seq(S) /\ Len(Append(u, f)) = Len(u) + 1 /\ Append(u, f) # <<>>
      /\ Append(u, f)[Len(u) + 1] = f
      /\ \A i \in 1 .. Len(u) : Append(u, f)[i] = u[i]
  BY <1>3, Pushed
<1>6. /\ Append(u, f) \in Seq(S) /\ Len(Append(u, f)) = Len(s) - 1 /\ Append(u, f) # <<>>
      /\ Append(u, f)[Len(Append(u, f))] = f
      /\ \A i \in 1 .. n : Append(u, f)[i] = s[i]
  <2>1. Len(u) + 1 = Len(s) - 1
    BY <1>1, <1>4
  <2> QED BY <1>1, <1>4, <1>5, <2>1
<1> QED BY <1>6 DEF u, n

LEMMA TopIs ==
  ASSUME NEW S, NEW s \in Seq(S), s # <<>>
  PROVE  Len(s) \in Nat /\ Len(s) > 0 /\ s[Len(s)] \in S
OBVIOUS

(***************************************************************************)
(* Frames and the invariant of a stack.                                    *)
(***************************************************************************)
Waiting == {"enter", "list", "fetch"}
Installing == {"clear", "clearing", "rename", "keep", "keeping"}

\* Every import asked of a release, but those to do, is pinned at the minimum
\* its dep block declares.
PinsAsked(f) ==
  \A k \in Asked(DepsOf[f.pkg][f.v]) \ f.todo :
    \E e \in f.pins : e.key = k /\ e.v = DepsOf[f.pkg][f.v][k]

Unpack(f) ==
  [pkg |-> f.pkg, canon |-> MeaningWith(f.pkg, f.v, f.pins), v |-> f.v,
   pins |-> f.pins, torn |-> FALSE]

\* What is known of a frame from its place: what is being installed was
\* verified.
FrameInv(f) ==
  /\ f.at \notin Waiting => f.todo \subseteq Asked(DepsOf[f.pkg][f.v]) /\ PinsAsked(f)
  /\ f.at \in Installing =>
       /\ f.todo = {} /\ Consistent(f.pins)
       /\ f.canon = Unpack(f).canon /\ PinnedBy(Unpack(f))

\* g is the acquire of the first import f has still to do.
Calls(f, g) ==
  /\ f.at = "deps"
  /\ \A k \in First(f.todo) : g.v = DepsOf[f.pkg][f.v][k]

Chain(s) ==
  /\ \A i \in 1 .. Len(s) : FrameInv(s[i])
  /\ \A i \in 1 .. Len(s) - 1 : Calls(s[i], s[i + 1])

LEMMA EmptyChain == <<>> \in Seq(Frame) /\ Chain(<<>>)
BY DEF Chain

LEMMA SingleChain ==
  ASSUME NEW f \in Frame, FrameInv(f)
  PROVE  <<f>> \in Seq(Frame) /\ Chain(<<f>>) /\ <<f>> # <<>>
BY DEF Chain

LEMMA ReplacedChain ==
  ASSUME NEW s \in Seq(Frame), s # <<>>, Chain(s),
         NEW f \in Frame, FrameInv(f), f.v = s[Len(s)].v
  PROVE  LET t == [s EXCEPT ![Len(s)] = f] IN
           t \in Seq(Frame) /\ Chain(t) /\ t # <<>>
<1> DEFINE t == [s EXCEPT ![Len(s)] = f]
<1>1. /\ t \in Seq(Frame) /\ Len(t) = Len(s) /\ t # <<>>
      /\ t[Len(t)] = f
      /\ \A i \in 1 .. Len(s) - 1 : t[i] = s[i]
  BY Replaced
<1> HIDE DEF t
<1>2. Len(s) \in Nat /\ Len(s) > 0
  BY TopIs
<1>3. \A i \in 1 .. Len(t) : FrameInv(t[i])
  BY <1>1, <1>2 DEF Chain
<1>4. ASSUME NEW i \in 1 .. Len(t) - 1
      PROVE  Calls(t[i], t[i + 1])
  <2>1. Calls(s[i], s[i + 1]) /\ t[i] = s[i]
    BY <1>1, <1>2 DEF Chain
  <2>2. t[i + 1].v = s[i + 1].v
    BY <1>1, <1>2
  <2> QED BY <2>1, <2>2 DEF Calls
<1> QED BY <1>1, <1>3, <1>4 DEF Chain, t

LEMMA PushedChain ==
  ASSUME NEW s \in Seq(Frame), s # <<>>, Chain(s),
         NEW f \in Frame, FrameInv(f), Calls(s[Len(s)], f)
  PROVE  Append(s, f) \in Seq(Frame) /\ Chain(Append(s, f)) /\ Append(s, f) # <<>>
<1> DEFINE t == Append(s, f)
<1>1. /\ t \in Seq(Frame) /\ Len(t) = Len(s) + 1 /\ t # <<>>
      /\ t[Len(t)] = f
      /\ \A i \in 1 .. Len(s) : t[i] = s[i]
  BY Pushed
<1> HIDE DEF t
<1>2. Len(s) \in Nat /\ Len(s) > 0
  BY TopIs
<1>3. \A i \in 1 .. Len(t) : FrameInv(t[i])
  BY <1>1, <1>2 DEF Chain
<1>4. ASSUME NEW i \in 1 .. Len(t) - 1
      PROVE  Calls(t[i], t[i + 1])
  <2>1. CASE i = Len(s)
    BY <1>1, <1>2, <2>1
  <2>2. CASE i # Len(s)
    <3>1. i \in 1 .. Len(s) - 1 /\ i + 1 \in 1 .. Len(s)
      BY <1>1, <1>2, <2>2
    <3> QED BY <1>1, <1>2, <3>1 DEF Chain
  <2> QED BY <2>1, <2>2
<1> QED BY <1>1, <1>3, <1>4 DEF Chain, t

LEMMA PoppedChain ==
  ASSUME NEW s \in Seq(Frame), Len(s) > 1, Chain(s),
         NEW f \in Frame, FrameInv(f), f.v = s[Len(s) - 1].v
  PROVE  LET t == Append(SubSeq(s, 1, Len(s) - 2), f) IN
           t \in Seq(Frame) /\ Chain(t) /\ t # <<>>
<1> DEFINE t == Append(SubSeq(s, 1, Len(s) - 2), f)
<1>1. /\ t \in Seq(Frame) /\ Len(t) = Len(s) - 1 /\ t # <<>>
      /\ t[Len(t)] = f
      /\ \A i \in 1 .. Len(s) - 2 : t[i] = s[i]
  BY Popped
<1> HIDE DEF t
<1>2. Len(s) \in Nat
  OBVIOUS
<1>3. \A i \in 1 .. Len(t) : FrameInv(t[i])
  BY <1>1, <1>2 DEF Chain
<1>4. ASSUME NEW i \in 1 .. Len(t) - 1
      PROVE  Calls(t[i], t[i + 1])
  <2>1. Calls(s[i], s[i + 1]) /\ t[i] = s[i]
    BY <1>1, <1>2 DEF Chain
  <2>2. t[i + 1].v = s[i + 1].v
    BY <1>1, <1>2
  <2> QED BY <2>1, <2>2 DEF Calls
<1> QED BY <1>1, <1>3, <1>4 DEF Chain, t

(***************************************************************************)
(* Types, and the chains of the stacks, by the part of a step that changes *)
(* the clients.                                                            *)
(***************************************************************************)
ClientOK ==
  /\ stack \in [Client -> Seq(Frame)] /\ answer \in [Client -> SUBSET Version]
  /\ memo \in [Client -> SUBSET Acquired] /\ count \in [Client -> 0 .. MaxClosure]
  /\ outcome \in [Client -> Outcomes]
  /\ \A c \in Client : outcome[c] = "running" <=> Running(c)
  /\ \A c \in Client : Chain(stack[c])
  /\ \A c \in Client : Is(c, "list") => count[c] < MaxClosure

StackInv == TypeOK /\ ClientOK

LEMMA EndOK ==
  ASSUME ClientOK, NEW c \in Client, NEW how \in Outcomes \ {"running"}, End(c, how)
  PROVE  ClientOK'
<1>1. stack'[c] = <<>> /\ \A d \in Client \ {c} : stack'[d] = stack[d]
  BY DEF ClientOK, End
<1>2. stack' \in [Client -> Seq(Frame)] /\ \A d \in Client : Chain(stack'[d])
  BY <1>1, EmptyChain DEF ClientOK, End
<1>3. /\ answer' \in [Client -> SUBSET Version] /\ memo' \in [Client -> SUBSET Acquired]
      /\ count' \in [Client -> 0 .. MaxClosure] /\ outcome' \in [Client -> Outcomes]
  BY AcquireAssumption DEF ClientOK, End
<1>4. \A d \in Client : outcome'[d] = "running" <=> Running(d)'
  BY <1>1 DEF ClientOK, End, Running
<1>5. \A d \in Client : Is(d, "list")' => count'[d] < MaxClosure
  BY <1>1 DEF ClientOK, End, Is, Running, Top
<1> QED BY <1>2, <1>3, <1>4, <1>5 DEF ClientOK

LEMMA TopFacts ==
  ASSUME ClientOK, NEW c \in Client, Running(c)
  PROVE  /\ stack[c] \in Seq(Frame) /\ stack[c] # <<>> /\ Chain(stack[c])
         /\ Len(stack[c]) \in Nat /\ Len(stack[c]) > 0
         /\ Top(c) = stack[c][Len(stack[c])]
         /\ Top(c) \in Frame /\ FrameInv(Top(c))
<1>1. stack[c] \in Seq(Frame) /\ stack[c] # <<>> /\ Chain(stack[c])
  BY DEF ClientOK, Running
<1>2. Len(stack[c]) \in Nat /\ Len(stack[c]) > 0 /\ stack[c][Len(stack[c])] \in Frame
  BY <1>1, TopIs
<1> QED BY <1>1, <1>2 DEF Top, Chain

\* The stack of one client becomes s.
LEMMA StackOK ==
  ASSUME ClientOK, NEW c \in Client, NEW s \in Seq(Frame), Chain(s), s # <<>>,
         stack' = [stack EXCEPT ![c] = s],
         answer' \in [Client -> SUBSET Version], memo' \in [Client -> SUBSET Acquired],
         count' \in [Client -> 0 .. MaxClosure],
         s[Len(s)].at = "list" => count'[c] < MaxClosure,
         \A d \in Client \ {c} : count'[d] = count[d],
         outcome' = [outcome EXCEPT ![c] = "running"]
  PROVE  ClientOK'
<1>1. stack'[c] = s /\ \A d \in Client \ {c} : stack'[d] = stack[d]
  BY DEF ClientOK
<1>2. stack' \in [Client -> Seq(Frame)] /\ \A d \in Client : Chain(stack'[d])
  BY <1>1 DEF ClientOK
<1>3. outcome' \in [Client -> Outcomes]
  BY DEF ClientOK, Outcomes
<1>4. \A d \in Client : outcome'[d] = "running" <=> Running(d)'
  BY <1>1 DEF ClientOK, Running
<1>5. \A d \in Client : Is(d, "list")' => count'[d] < MaxClosure
  BY <1>1 DEF ClientOK, Is, Running, Top
<1> QED BY <1>2, <1>3, <1>4, <1>5 DEF ClientOK

LEMMA RetopOK ==
  ASSUME ClientOK, NEW c \in Client, Running(c),
         NEW f \in Frame, FrameInv(f), f.v = Top(c).v, Retop(c, f),
         answer' \in [Client -> SUBSET Version], memo' \in [Client -> SUBSET Acquired],
         count' \in [Client -> 0 .. MaxClosure],
         f.at = "list" => count'[c] < MaxClosure,
         \A d \in Client \ {c} : count'[d] = count[d],
         outcome' = outcome
  PROVE  ClientOK' /\ stack'[c] # <<>> /\ stack'[c][Len(stack'[c])] = f
<1> DEFINE s == stack[c]
           t == [s EXCEPT ![Len(s)] = f]
<1>1. s \in Seq(Frame) /\ s # <<>> /\ Chain(s) /\ f.v = s[Len(s)].v
  BY TopFacts
<1>2. t \in Seq(Frame) /\ Chain(t) /\ t # <<>> /\ t[Len(t)] = f
  BY <1>1, ReplacedChain, Replaced
<1>3. stack' = [stack EXCEPT ![c] = t]
  BY DEF Retop
<1>4. outcome' = [outcome EXCEPT ![c] = "running"]
  BY DEF ClientOK, Running
<1> HIDE DEF s, t
<1>5. ClientOK'
  BY <1>2, <1>3, <1>4, StackOK
<1>6. stack'[c] = t
  BY <1>3 DEF ClientOK
<1> QED BY <1>2, <1>5, <1>6

LEMMA HashTypes ==
  ASSUME NEW p \in Pkg, NEW v \in Version, NEW pins \in SUBSET Pinned
  PROVE  MeaningWith(p, v, pins) \in Hash
<1>1. Own(p, v) \in Pkg \X Meaning
  BY LabelFacts, WorldAssumption DEF Own
<1>2. \A e \in pins : e.canon \in Hash
  BY DEF Pinned
<1> QED BY <1>1, <1>2 DEF MeaningWith, Hash

LEMMA AskedTypes ==
  ASSUME NEW p \in Pkg, NEW v \in Version
  PROVE  /\ Asked(DepsOf[p][v]) \subseteq Key
         /\ \A k \in Asked(DepsOf[p][v]) : DepsOf[p][v][k] \in Version
<1>1. DepsOf[p][v] \in Bids
  BY LabelFacts, WorldAssumption
<1> QED BY <1>1, LabelFacts DEF Asked, Bids

LEMMA EnterTypes ==
  ASSUME NEW p \in Pkg, NEW v \in Version
  PROVE  Enter(p, v) \in Frame /\ FrameInv(Enter(p, v)) /\ Enter(p, v).v = v
         /\ Enter(p, v).at = "enter"
<1>1. Enter(p, v) \in Frame
  BY DEF Enter, Frame, Places, Hash
<1> QED BY <1>1 DEF Enter, FrameInv, Waiting, Installing

LEMMA WaitingOK ==
  ASSUME NEW f \in Frame, NEW place \in Waiting
  PROVE  LET g == [f EXCEPT !.at = place] IN
           g \in Frame /\ FrameInv(g) /\ g.v = f.v /\ g.at = place
<1> DEFINE g == [f EXCEPT !.at = place]
<1>1. g \in Frame /\ g.v = f.v /\ g.at = place
  BY DEF Frame, Waiting, Places
<1> HIDE DEF g
<1>2. FrameInv(g)
  BY <1>1 DEF FrameInv, Waiting, Installing
<1> QED BY <1>1, <1>2 DEF g

LEMMA InstallingOK ==
  ASSUME NEW f \in Frame, FrameInv(f), f.at \in Installing,
         NEW place \in Installing, NEW x \in File \cup {""}
  PROVE  LET g == [f EXCEPT !.at = place, !.file = x] IN
           /\ g \in Frame /\ FrameInv(g) /\ g.v = f.v /\ g.pkg = f.pkg
           /\ g.at = place /\ g.canon = f.canon /\ Unpack(g) = Unpack(f)
<1> DEFINE g == [f EXCEPT !.at = place, !.file = x]
<1>1. /\ g \in Frame /\ g.v = f.v /\ g.at = place /\ g.pkg = f.pkg
      /\ g.todo = f.todo /\ g.pins = f.pins /\ g.canon = f.canon
  BY DEF Frame, Installing, Places
<1> HIDE DEF g
<1>2. Unpack(g) = Unpack(f)
  BY <1>1 DEF Unpack
<1>3. f.at \notin Waiting
  BY DEF Installing, Waiting
<1>4. FrameInv(g)
  BY <1>1, <1>2, <1>3 DEF FrameInv, PinsAsked
<1> QED BY <1>1, <1>2, <1>4 DEF g

LEMMA FetchedOK ==
  ASSUME NEW f \in Frame
  PROVE  LET g == [f EXCEPT !.at = "deps", !.todo = Asked(DepsOf[f.pkg][f.v])] IN
           g \in Frame /\ FrameInv(g) /\ g.v = f.v /\ g.at = "deps"
<1> DEFINE g == [f EXCEPT !.at = "deps", !.todo = Asked(DepsOf[f.pkg][f.v])]
<1>1. f.pkg \in Pkg /\ f.v \in Version
  BY DEF Frame
<1>2. /\ g \in Frame /\ g.v = f.v /\ g.pkg = f.pkg /\ g.at = "deps"
      /\ g.todo = Asked(DepsOf[f.pkg][f.v])
  BY <1>1, AskedTypes DEF Frame, Places
<1> HIDE DEF g
<1>3. FrameInv(g)
  BY <1>2 DEF FrameInv, PinsAsked, Installing
<1> QED BY <1>2, <1>3 DEF g

\* A frame whose imports are done and whose tree is verified.
LEMMA BuiltOK ==
  ASSUME NEW f \in Frame, FrameInv(f), f.at = "deps", f.todo = {},
         Consistent(f.pins), PinnedBy(Unpack(f))
  PROVE  LET g == [f EXCEPT !.at = "clear", !.canon = Unpack(f).canon] IN
           /\ g \in Frame /\ FrameInv(g) /\ g.v = f.v /\ g.at = "clear"
           /\ Unpack(g) = Unpack(f)
<1> DEFINE g == [f EXCEPT !.at = "clear", !.canon = Unpack(f).canon]
<1>1. Unpack(f).canon \in Hash
  BY HashTypes DEF Frame, Unpack
<1>2. /\ g \in Frame /\ g.v = f.v /\ g.at = "clear" /\ g.pkg = f.pkg
      /\ g.todo = f.todo /\ g.pins = f.pins /\ g.canon = Unpack(f).canon
  BY <1>1 DEF Frame, Places
<1> HIDE DEF g
<1>3. Unpack(g) = Unpack(f)
  BY <1>2 DEF Unpack
<1>4. FrameInv(g)
  BY <1>2, <1>3 DEF FrameInv, PinsAsked, Waiting
<1> QED BY <1>2, <1>3, <1>4 DEF g

LEMMA JoinedFacts ==
  ASSUME NEW pins \in SUBSET Pinned, NEW direct \in Pinned, NEW closure \in SUBSET Pinned
  PROVE  /\ Joined(pins, direct, closure) \in SUBSET Pinned
         /\ pins \cup {direct} \subseteq Joined(pins, direct, closure)
BY DEF Joined

\* What an acquire returns is pinned by its caller.
LEMMA ReturnedOK ==
  ASSUME NEW up \in Frame, FrameInv(up), NEW a \in Acquired, up.at = "deps",
         NEW k \in First(up.todo), a.v = DepsOf[up.pkg][up.v][k]
  PROVE  LET direct == [key |-> k, v |-> a.v, canon |-> a.canon]
             g == [up EXCEPT !.todo = @ \ {k}, !.pins = Joined(@, direct, a.closure)]
         IN g \in Frame /\ FrameInv(g) /\ g.v = up.v /\ g.at = "deps"
<1> DEFINE direct == [key |-> k, v |-> a.v, canon |-> a.canon]
           pins == Joined(up.pins, direct, a.closure)
           g == [up EXCEPT !.todo = @ \ {k}, !.pins = Joined(@, direct, a.closure)]
<1>1. direct \in Pinned
  BY DEF First, Frame, Acquired, Pinned
<1>2. pins \in SUBSET Pinned /\ up.pins \cup {direct} \subseteq pins
  <2>1. up.pins \in SUBSET Pinned /\ a.closure \in SUBSET Pinned
    BY DEF Frame, Acquired
  <2> HIDE DEF direct
  <2> QED BY <1>1, <2>1, JoinedFacts
<1>3. direct.key = k /\ direct.v = a.v
  OBVIOUS
<1> HIDE DEF direct, pins
<1>4. /\ g \in Frame /\ g.v = up.v /\ g.pkg = up.pkg /\ g.at = "deps"
      /\ g.todo = up.todo \ {k} /\ g.pins = pins
  BY <1>2 DEF Frame, pins
<1> HIDE DEF g
<1>5. up.todo \subseteq Asked(DepsOf[up.pkg][up.v]) /\ PinsAsked(up)
  BY DEF FrameInv, Waiting
<1>6. PinsAsked(g)
  BY <1>2, <1>3, <1>4, <1>5 DEF PinsAsked
<1>7. FrameInv(g)
  BY <1>4, <1>5, <1>6 DEF FrameInv, Installing
<1> QED BY <1>4, <1>7 DEF g, direct

(***************************************************************************)
(* The clients' part of each step.                                         *)
(***************************************************************************)
LEMMA Moves ==
  ASSUME ClientOK, NEW c \in Client, Running(c), NEW place \in Waiting, Move(c, place),
         answer' \in [Client -> SUBSET Version], memo' = memo,
         count' \in [Client -> 0 .. MaxClosure],
         place = "list" => count'[c] < MaxClosure,
         \A d \in Client \ {c} : count'[d] = count[d],
         outcome' = outcome
  PROVE  ClientOK'
<1> DEFINE g == [Top(c) EXCEPT !.at = place]
<1>1. g \in Frame /\ FrameInv(g) /\ g.v = Top(c).v /\ g.at = place
  BY TopFacts, WaitingOK
<1>2. Retop(c, g) /\ memo' \in [Client -> SUBSET Acquired]
  BY DEF Move, ClientOK
<1> HIDE DEF g
<1> QED BY <1>1, <1>2, RetopOK

LEMMA ReturnOK ==
  ASSUME ClientOK, NEW c \in Client, Running(c), NEW a \in Acquired, a.v = Top(c).v,
         Return(c, a), memo' \in [Client -> SUBSET Acquired], count' = count
  PROVE  ClientOK'
<1> DEFINE s == stack[c]
           n == Len(s)
<1>1. /\ s \in Seq(Frame) /\ s # <<>> /\ Chain(s) /\ n \in Nat /\ n > 0
      /\ Top(c) = s[n] /\ n = Len(s)
  BY TopFacts
<1>2. answer' \in [Client -> SUBSET Version] /\ count' \in [Client -> 0 .. MaxClosure]
  BY DEF ClientOK, Return
<1>3. CASE n = 1
  <2>1. stack' = [stack EXCEPT ![c] = <<>>] /\ outcome' = [outcome EXCEPT ![c] = "ok"]
    BY <1>3 DEF Return
  <2>2. stack'[c] = <<>> /\ \A d \in Client \ {c} : stack'[d] = stack[d]
    BY <2>1 DEF ClientOK
  <2>3. stack' \in [Client -> Seq(Frame)] /\ \A d \in Client : Chain(stack'[d])
    BY <2>1, <2>2, EmptyChain DEF ClientOK
  <2>4. outcome' \in [Client -> Outcomes]
    BY <2>1 DEF ClientOK, Outcomes
  <2>5. \A d \in Client : outcome'[d] = "running" <=> Running(d)'
    BY <2>1, <2>2 DEF ClientOK, Running
  <2>6. \A d \in Client : Is(d, "list")' => count'[d] < MaxClosure
    BY <2>2 DEF ClientOK, Is, Running, Top
  <2> QED BY <1>2, <2>3, <2>4, <2>5, <2>6 DEF ClientOK
<1>4. CASE n # 1
  <2> DEFINE up == s[n - 1]
  <2>1. PICK k \in First(up.todo) :
          stack' = [stack EXCEPT ![c] = Append(SubSeq(@, 1, n - 2),
            [up EXCEPT !.todo = @ \ {k},
                       !.pins = Joined(@, [key |-> k, v |-> a.v, canon |-> a.canon], a.closure)])]
    BY <1>4 DEF Return
  <2> DEFINE g == [up EXCEPT !.todo = @ \ {k},
                !.pins = Joined(@, [key |-> k, v |-> a.v, canon |-> a.canon], a.closure)]
             t == Append(SubSeq(s, 1, n - 2), g)
  <2>2. n > 1 /\ n - 1 \in 1 .. Len(s) /\ n - 1 \in 1 .. Len(s) - 1 /\ (n - 1) + 1 = n
    <3> HIDE DEF s, n
    <3> QED BY <1>1, <1>4
  <2>3. up \in Frame /\ FrameInv(up) /\ Calls(up, Top(c))
    <3>1. \A i \in 1 .. Len(s) : s[i] \in Frame
      BY <1>1
    <3> HIDE DEF s, n
    <3>2. s[n - 1] \in Frame /\ FrameInv(s[n - 1]) /\ Calls(s[n - 1], s[(n - 1) + 1])
      BY <1>1, <2>2, <3>1 DEF Chain
    <3> QED BY <1>1, <2>2, <3>2
  <2>4. up.at = "deps" /\ a.v = DepsOf[up.pkg][up.v][k]
    BY <2>1, <2>3 DEF Calls
  <2>5. g \in Frame /\ FrameInv(g) /\ g.v = up.v /\ g.at = "deps"
    BY <2>1, <2>3, <2>4, ReturnedOK
  <2>6. stack' = [stack EXCEPT ![c] = t]
    BY <2>1
  <2> HIDE DEF g
  <2>7. t \in Seq(Frame) /\ Chain(t) /\ t # <<>> /\ t[Len(t)] = g
    BY <1>1, <2>2, <2>5, PoppedChain, Popped
  <2>8. outcome' = [outcome EXCEPT ![c] = "running"]
    BY <1>4 DEF Return, ClientOK, Running
  <2> HIDE DEF t
  <2> QED BY <1>2, <2>5, <2>6, <2>7, <2>8, StackOK DEF ClientOK
<1> QED BY <1>3, <1>4

(***************************************************************************)
(* The steps.                                                              *)
(***************************************************************************)
RestOK ==
  /\ published \subseteq Release /\ offered \subseteq Release
  /\ withdrawn \subseteq Release /\ seen \subseteq Release
  /\ store \subseteq Filed
  /\ down \in [Release -> [File -> {"absent", "torn", "whole"}]]
  /\ shown \subseteq Release /\ mishaps \in 0 .. MaxMishaps /\ halfway \in BOOLEAN

LEMMA TypeParts == RestOK /\ ClientOK => TypeOK
BY DEF RestOK, ClientOK, TypeOK

LEMMA MishapTypes ==
  ASSUME RestOK, NEW m, Mishap(m)
  PROVE  mishaps' \in 0 .. MaxMishaps
BY AcquireAssumption DEF RestOK, Mishap

LEMMA ToldTypes ==
  ASSUME RestOK, ClientOK, NEW c \in Client, Running(c), Told(c)
  PROVE  seen' \subseteq Release /\ shown' \subseteq Release
<1>1. Top(c).pkg \in Pkg /\ answer[c] \subseteq Version
  BY TopFacts DEF Frame, ClientOK
<1> QED BY <1>1 DEF Told, Recorded, RestOK, Release

LEMMA TearTypes ==
  ASSUME RestOK, NEW trees \in SUBSET store
  PROVE  Tear(trees) \subseteq Filed
<1>1. ASSUME NEW t \in trees
      PROVE  [t EXCEPT !.torn = TRUE] \in Filed
  BY DEF RestOK, Filed
<1> QED BY <1>1 DEF Tear, RestOK

LEMMA EndsRest ==
  ASSUME RestOK, ClientOK, NEW c \in Client,
         \/ TooDeep(c) \/ TooLarge(c) \/ NoAnswer(c) \/ ListRefused(c) \/ FetchRefused(c)
         \/ DepInvalid(c) \/ Unverified(c) \/ RenameThrows(c) \/ Abandon(c)
  PROVE  RestOK' /\ ClientOK'
<1>1. PICK how \in Outcomes \ {"running"} : End(c, how)
  BY DEF TooDeep, TooLarge, NoAnswer, ListRefused, FetchRefused, DepInvalid, Unverified,
         RenameThrows, Abandon, Die, ClearThrows, Refuse, Outcomes, Refusals
<1>2. CASE ListRefused(c)
  <2>1. Running(c)
    BY <1>2 DEF ListRefused, Is
  <2> QED BY <1>1, <1>2, <2>1, ToldTypes, EndOK DEF ListRefused, RestOK, repository
<1>3. CASE NoAnswer(c)
  BY <1>1, <1>3, MishapTypes, EndOK DEF NoAnswer, RestOK, repository, cache
<1>4. CASE Abandon(c)
  <2>1. Place(c) \subseteq store
    BY DEF Place, At
  <2>2. store' \subseteq Filed
    BY <1>4, <2>1, TearTypes DEF Abandon, Die, ClearThrows, RestOK
  <2> QED BY <1>1, <1>4, <2>2, MishapTypes, EndOK DEF Abandon, Die, ClearThrows, RestOK, repository
<1>5. CASE \/ TooDeep(c) \/ TooLarge(c) \/ FetchRefused(c) \/ DepInvalid(c) \/ Unverified(c)
           \/ RenameThrows(c)
  <2>1. UNCHANGED <<repository, cache, history>>
    BY <1>5 DEF TooDeep, TooLarge, FetchRefused, DepInvalid, Unverified, RenameThrows, Refuse
  <2> QED BY <1>1, <2>1, EndOK DEF RestOK, repository, cache, history
<1> QED BY <1>2, <1>3, <1>4, <1>5

LEMMA ListServedRest ==
  ASSUME RestOK, ClientOK, NEW c \in Client, ListServed(c)
  PROVE  RestOK' /\ ClientOK'
<1>1. Running(c) /\ count[c] < MaxClosure
  <2>1. count[c] \in Nat /\ MaxClosure \in Nat /\ ~(count[c] >= MaxClosure)
    BY AcquireAssumption DEF ListServed, Full, ClientOK
  <2> QED BY <2>1 DEF ListServed, Is
<1>2. answer' \in [Client -> SUBSET Version]
  BY DEF ListServed, ClientOK
<1>3. Move(c, "list") /\ memo' = memo /\ count' = count /\ outcome' = outcome
  BY DEF ListServed
<1>4. ClientOK'
  BY <1>1, <1>2, <1>3, Moves DEF ClientOK, Waiting
<1> QED BY <1>4 DEF ListServed, RestOK, repository, cache, history

LEMMA ListReadRest ==
  ASSUME RestOK, ClientOK, NEW c \in Client, ListRead(c)
  PROVE  RestOK' /\ ClientOK'
<1>1. Running(c) /\ count[c] < MaxClosure
  BY DEF ListRead, Listed, Is, ClientOK
<1>2. /\ count' \in [Client -> 0 .. MaxClosure]
      /\ \A d \in Client \ {c} : count'[d] = count[d]
  BY <1>1, AcquireAssumption DEF ListRead, ClientOK
<1>3. Move(c, "fetch") /\ memo' = memo /\ answer' = answer /\ outcome' = outcome
  BY DEF ListRead
<1>4. ClientOK'
  BY <1>1, <1>2, <1>3, Moves DEF ClientOK, Waiting
<1>5. seen' \subseteq Release /\ shown' \subseteq Release
  BY <1>1, ToldTypes DEF ListRead
<1> QED BY <1>4, <1>5 DEF ListRead, RestOK, repository

LEMMA ListHadRest ==
  ASSUME RestOK, ClientOK, NEW c \in Client, ListHad(c)
  PROVE  RestOK' /\ ClientOK'
<1>1. Running(c)
  BY DEF ListHad, Listed, Is
<1>2. PICK a \in Had(c) : Return(c, a)
  BY DEF ListHad
<1>3. a \in Acquired /\ a.v = Top(c).v
  BY DEF Had, Rel, ClientOK
<1>4. ClientOK'
  BY <1>1, <1>2, <1>3, ReturnOK DEF ListHad, ClientOK
<1>5. seen' \subseteq Release /\ shown' \subseteq Release
  BY <1>1, ToldTypes DEF ListHad
<1> QED BY <1>4, <1>5 DEF ListHad, RestOK, repository

LEMMA FetchRest ==
  ASSUME RestOK, ClientOK, NEW c \in Client, Fetch(c)
  PROVE  RestOK' /\ ClientOK'
<1> DEFINE f == Top(c)
           g == [f EXCEPT !.at = "deps", !.todo = Asked(DepsOf[f.pkg][f.v])]
<1>1. Running(c)
  BY DEF Fetch, Is
<1>2. g \in Frame /\ FrameInv(g) /\ g.v = f.v /\ g.at = "deps"
  BY <1>1, TopFacts, FetchedOK
<1>3. Retop(c, g) /\ memo' = memo /\ count' = count /\ outcome' = outcome
  BY DEF Fetch
<1>4. answer' \in [Client -> SUBSET Version]
  BY DEF Fetch, ClientOK
<1> HIDE DEF g
<1>5. ClientOK'
  BY <1>1, <1>2, <1>3, <1>4, RetopOK DEF ClientOK
<1> QED BY <1>5 DEF Fetch, RestOK, repository, cache, history

LEMMA DescendRest ==
  ASSUME RestOK, ClientOK, NEW c \in Client, Descend(c)
  PROVE  RestOK' /\ ClientOK'
<1> DEFINE f == Top(c)
<1>1. /\ Running(c) /\ f.at = "deps"
  BY DEF Descend, Is
<1>2. PICK k \in First(f.todo) :
        /\ Usable(k)
        /\ stack' = [stack EXCEPT ![c] =
             Append(@, Enter(Names[k], DepsOf[f.pkg][f.v][k]))]
  BY DEF Descend
<1> DEFINE g == Enter(Names[k], DepsOf[f.pkg][f.v][k])
<1>3. f \in Frame /\ FrameInv(f) /\ f = stack[c][Len(stack[c])]
  BY <1>1, TopFacts
<1>4. k \in f.todo /\ f.todo \subseteq Asked(DepsOf[f.pkg][f.v])
  BY <1>1, <1>3 DEF FrameInv, First, Waiting
<1>5. DepsOf[f.pkg][f.v][k] \in Version /\ k \in Key /\ Names[k] \in Pkg
  BY <1>2, <1>3, <1>4, AskedTypes, UsableNames DEF Frame
<1>6. g \in Frame /\ FrameInv(g) /\ g.v = DepsOf[f.pkg][f.v][k] /\ g.at = "enter"
  BY <1>5, EnterTypes
<1>7. \A j \in First(f.todo) : j = k
  <2>1. \A j \in First(f.todo) : j \in Key /\ Rank[j] <= Rank[k] /\ Rank[k] <= Rank[j]
    BY <1>3, <1>2 DEF First, Frame
  <2>2. \A j \in Key : Rank[j] \in Nat
    BY KeyAssumption
  <2> QED BY <1>5, <2>1, <2>2, KeyAssumption
<1> HIDE DEF g
<1>8. Calls(f, g)
  BY <1>1, <1>6, <1>7 DEF Calls
<1> DEFINE t == Append(stack[c], g)
<1>9. t \in Seq(Frame) /\ Chain(t) /\ t # <<>> /\ t[Len(t)] = g
  BY <1>1, <1>3, <1>6, <1>8, TopFacts, PushedChain, Pushed
<1>10. stack' = [stack EXCEPT ![c] = t]
  BY <1>2 DEF g
<1>11. outcome' = [outcome EXCEPT ![c] = "running"]
  BY <1>1 DEF Descend, ClientOK, Running
<1>12. answer' = answer /\ memo' = memo /\ count' = count
  BY DEF Descend
<1> HIDE DEF t
<1>13. ClientOK'
  BY <1>6, <1>9, <1>10, <1>11, <1>12, StackOK DEF ClientOK
<1> QED BY <1>13 DEF Descend, RestOK, repository, cache, history

LEMMA UnpackedIs ==
  ASSUME NEW c \in Client
  PROVE  Unpacked(c) = Unpack(Top(c))
BY DEF Unpacked, Unpack

LEMMA UnpackTypes ==
  ASSUME NEW f \in Frame
  PROVE  Unpack(f) \in Filed
BY HashTypes DEF Frame, Unpack, Filed

\* What was verified is pinned by its publisher, and its own lock agrees.
LEMMA VerifiedIs ==
  ASSUME NEW c \in Client, Verified(c)
  PROVE  /\ Holds(Unpack(Top(c)), Standing(store))
         /\ PinnedBy(Unpack(Top(c))) /\ Consistent(Top(c).pins)
<1>1. Unpack(Top(c)).pins = Top(c).pins
  BY DEF Unpack
<1> QED BY <1>1, UnpackedIs DEF Verified, Evaluated, Holds

LEMMA BuildRest ==
  ASSUME RestOK, ClientOK, NEW c \in Client, Build(c)
  PROVE  /\ RestOK' /\ ClientOK' /\ stack'[c] # <<>>
         /\ stack'[c][Len(stack'[c])] =
              [Top(c) EXCEPT !.at = "clear", !.canon = Unpack(Top(c)).canon]
<1> DEFINE f == Top(c)
           g == [f EXCEPT !.at = "clear", !.canon = Unpack(f).canon]
<1>1. Running(c) /\ f.at = "deps" /\ f.todo = {}
  BY DEF Build, Built, Is
<1>2. Consistent(f.pins) /\ PinnedBy(Unpack(f))
  BY VerifiedIs DEF Build
<1>3. g \in Frame /\ FrameInv(g) /\ g.v = f.v /\ g.at = "clear"
  BY <1>1, <1>2, TopFacts, BuiltOK
<1>4. Retop(c, g) /\ answer' = answer /\ memo' = memo /\ count' = count /\ outcome' = outcome
  BY UnpackedIs DEF Build
<1> HIDE DEF g
<1>5. ClientOK' /\ stack'[c] # <<>> /\ stack'[c][Len(stack'[c])] = g
  BY <1>1, <1>3, <1>4, RetopOK DEF ClientOK
<1> QED BY <1>5 DEF g, Build, RestOK, repository, cache, history

\* A step that takes a tree through the places of its installation.
LEMMA InstallStep ==
  ASSUME ClientOK, NEW c \in Client, Running(c), Top(c).at \in Installing,
         NEW place \in Installing, NEW x \in File \cup {""},
         Retop(c, [Top(c) EXCEPT !.at = place, !.file = x]),
         UNCHANGED <<answer, memo, count, outcome>>
  PROVE  /\ ClientOK' /\ stack'[c] # <<>>
         /\ LET g == stack'[c][Len(stack'[c])] IN
              /\ g.at = place /\ g.pkg = Top(c).pkg /\ g.canon = Top(c).canon
              /\ Unpack(g) = Unpack(Top(c))
<1> DEFINE f == Top(c)
           g == [f EXCEPT !.at = place, !.file = x]
<1>1. f \in Frame /\ FrameInv(f)
  BY TopFacts
<1>2. /\ g \in Frame /\ FrameInv(g) /\ g.v = f.v /\ g.pkg = f.pkg
      /\ g.at = place /\ g.canon = f.canon /\ Unpack(g) = Unpack(f)
  BY <1>1, InstallingOK
<1>3. Retop(c, g)
  OBVIOUS
<1> HIDE DEF g
<1>4. place # "list"
  BY DEF Installing
<1>5. ClientOK' /\ stack'[c] # <<>> /\ stack'[c][Len(stack'[c])] = g
  BY <1>2, <1>3, <1>4, RetopOK DEF ClientOK
<1> QED BY <1>2, <1>5

\* A move that leaves the file alone.
LEMMA MoveIs ==
  ASSUME ClientOK, NEW c \in Client, Running(c), NEW place
  PROVE  [Top(c) EXCEPT !.at = place] = [Top(c) EXCEPT !.at = place, !.file = Top(c).file]
         /\ Top(c).file \in File \cup {""}
BY TopFacts DEF Frame

\* What an installing step leaves at the top of the stack of c: the same tree,
\* at the next place.
Installed(c, place) ==
  /\ stack'[c] # <<>>
  /\ stack'[c][Len(stack'[c])].at = place
  /\ stack'[c][Len(stack'[c])].pkg = Top(c).pkg
  /\ stack'[c][Len(stack'[c])].canon = Top(c).canon
  /\ Unpack(stack'[c][Len(stack'[c])]) = Unpack(Top(c))
  /\ \A d \in Client \ {c} : stack'[d] = stack[d]

LEMMA MovesOn ==
  ASSUME ClientOK, NEW c \in Client, Running(c), Top(c).at \in Installing,
         NEW place \in Installing, NEW x \in File \cup {""},
         \/ Move(c, place)
         \/ Retop(c, [Top(c) EXCEPT !.at = place, !.file = x]),
         UNCHANGED <<answer, memo, count, outcome>>
  PROVE  ClientOK' /\ Installed(c, place)
<1>1. PICK y \in File \cup {""} : Retop(c, [Top(c) EXCEPT !.at = place, !.file = y])
  BY MoveIs DEF Move
<1>2. \A d \in Client \ {c} : stack'[d] = stack[d]
  BY <1>1 DEF Retop, ClientOK
<1> QED BY <1>1, <1>2, InstallStep DEF Installed

LEMMA ClearRest ==
  ASSUME RestOK, ClientOK, NEW c \in Client, Clear(c)
  PROVE  RestOK' /\ ClientOK' /\ Installed(c, IF Place(c) = {} THEN "rename" ELSE "clearing")
<1>1. Running(c) /\ Top(c).at \in Installing
  BY DEF Clear, Is, Installing
<1>2. ClientOK' /\ Installed(c, IF Place(c) = {} THEN "rename" ELSE "clearing")
  <2>1. (IF Place(c) = {} THEN "rename" ELSE "clearing") \in Installing
    BY DEF Installing
  <2>2. UNCHANGED <<answer, memo, count, outcome>>
    BY DEF Clear
  <2> QED BY <1>1, <2>1, <2>2, MovesOn DEF Clear
<1>3. Place(c) \subseteq store
  BY DEF Place, At
<1> QED BY <1>2, <1>3, TearTypes DEF Clear, RestOK, repository, history

LEMMA ClearedRest ==
  ASSUME RestOK, ClientOK, NEW c \in Client, Cleared(c)
  PROVE  RestOK' /\ ClientOK' /\ Installed(c, "rename")
<1>1. Running(c) /\ Top(c).at \in Installing /\ "rename" \in Installing
  BY DEF Cleared, Is, Installing
<1>2. ClientOK' /\ Installed(c, "rename")
  BY <1>1, MovesOn DEF Cleared
<1> QED BY <1>2 DEF Cleared, RestOK, repository, history

LEMMA RenameRest ==
  ASSUME RestOK, ClientOK, NEW c \in Client, Rename(c)
  PROVE  RestOK' /\ ClientOK' /\ Installed(c, "keep")
<1>1. Running(c) /\ Top(c).at \in Installing /\ "keep" \in Installing
  BY DEF Rename, Is, Installing
<1>2. ClientOK' /\ Installed(c, "keep")
  BY <1>1, MovesOn DEF Rename, Move
<1>3. Unpacked(c) \in Filed
  BY <1>1, TopFacts, UnpackedIs, UnpackTypes
<1> QED BY <1>2, <1>3 DEF Rename, RestOK, repository, history

LEMMA KeepRest ==
  ASSUME RestOK, ClientOK, NEW c \in Client, Keep(c)
  PROVE  RestOK' /\ ClientOK' /\ Installed(c, "keeping")
<1>1. Running(c) /\ Top(c).at \in Installing /\ "keeping" \in Installing
  BY DEF Keep, Is, Installing
<1>2. PICK i \in Lacking(c) :
        /\ down' = [down EXCEPT ![Rel(Top(c))][FileOrder[i]] = "torn"]
        /\ Retop(c, [Top(c) EXCEPT !.at = "keeping", !.file = FileOrder[i]])
  BY DEF Keep
<1>3. FileOrder[i] \in File
  BY DEF Lacking, FileOrder, File
<1>4. ClientOK' /\ Installed(c, "keeping")
  BY <1>1, <1>2, <1>3, MovesOn DEF Keep
<1>5. Rel(Top(c)) \in Release
  BY <1>1, TopFacts DEF Rel, Frame, Release
<1>6. down' \in [Release -> [File -> {"absent", "torn", "whole"}]]
  BY <1>2, <1>3, <1>5 DEF RestOK
<1> QED BY <1>4, <1>6 DEF Keep, RestOK, repository, history

LEMMA KeptRest ==
  ASSUME RestOK, ClientOK, NEW c \in Client, Kept(c)
  PROVE  RestOK' /\ ClientOK' /\ Installed(c, "keep")
<1>1. Running(c) /\ Top(c).at \in Installing /\ "keep" \in Installing
  BY DEF Kept, Is, Installing
<1>2. ClientOK' /\ Installed(c, "keep")
  BY <1>1, MovesOn DEF Kept
<1>3. Rel(Top(c)) \in Release
  BY <1>1, TopFacts DEF Rel, Frame, Release
<1>4. down' \in [Release -> [File -> {"absent", "torn", "whole"}]]
  BY <1>3 DEF Kept, RestOK
<1> QED BY <1>2, <1>4 DEF Kept, RestOK, repository, history

LEMMA DoneRest ==
  ASSUME RestOK, ClientOK, NEW c \in Client, Done(c)
  PROVE  RestOK' /\ ClientOK'
<1> DEFINE a == [pkg |-> Top(c).pkg, v |-> Top(c).v, canon |-> Top(c).canon,
                 closure |-> Top(c).pins]
<1>1. Running(c)
  BY DEF Done, Is
<1>2. a \in Acquired /\ a.v = Top(c).v
  BY <1>1, TopFacts DEF Frame, Acquired
<1>3. Return(c, a) /\ memo' = [memo EXCEPT ![c] = @ \cup {a}] /\ count' = count
  BY DEF Done
<1>4. memo' \in [Client -> SUBSET Acquired]
  BY <1>2, <1>3 DEF ClientOK
<1>5. ClientOK'
  BY <1>1, <1>2, <1>3, <1>4, ReturnOK
<1> QED BY <1>5 DEF Done, RestOK, repository, cache, history

LEMMA AskRest ==
  ASSUME RestOK, ClientOK, NEW c \in Client, NEW r \in Wanted[c], NEW fresh \in BOOLEAN,
         Ask(c, r, fresh)
  PROVE  RestOK' /\ ClientOK'
<1> DEFINE f == Enter(r[1], r[2])
           s == <<f>>
<1>1. f \in Frame /\ FrameInv(f) /\ f.at = "enter"
  <2>1. r[1] \in Pkg /\ r[2] \in Version
    BY AcquireAssumption DEF Release
  <2> QED BY <2>1, EnterTypes
<1> HIDE DEF f
<1>2. s \in Seq(Frame) /\ Chain(s) /\ s # <<>> /\ s[Len(s)] = f
  BY <1>1, SingleChain
<1>3. stack' = [stack EXCEPT ![c] = s]
  BY DEF Ask, f
<1>4. outcome' = [outcome EXCEPT ![c] = "running"]
  BY DEF Ask
<1>5. /\ answer' \in [Client -> SUBSET Version] /\ memo' \in [Client -> SUBSET Acquired]
      /\ count' \in [Client -> 0 .. MaxClosure]
      /\ \A d \in Client \ {c} : count'[d] = count[d]
  BY AcquireAssumption DEF Ask, ClientOK
<1> HIDE DEF s
<1>6. ClientOK'
  BY <1>1, <1>2, <1>3, <1>4, <1>5, StackOK
<1> QED BY <1>6 DEF Ask, RestOK, repository, cache, history

LEMMA WorldRest ==
  ASSUME RestOK, ClientOK, NEW r \in Release, Publish(r) \/ RollBack(r) \/ Withdraw(r)
  PROVE  RestOK' /\ ClientOK'
<1>1. UNCHANGED <<cache, clients, shown, halfway>>
  BY DEF Publish, RollBack, Withdraw, history
<1>2. ClientOK'
  BY <1>1 DEF ClientOK, clients, Running, Is, Top
<1>3. mishaps' \in 0 .. MaxMishaps
  BY MishapTypes DEF Publish, RollBack, Withdraw, history, RestOK
<1> QED BY <1>1, <1>2, <1>3 DEF Publish, RollBack, Withdraw, RestOK, cache, history

LEMMA AcquireInit == Init => RestOK /\ ClientOK
<1> SUFFICES ASSUME Init PROVE RestOK /\ ClientOK
  OBVIOUS
<1>1. stack \in [Client -> Seq(Frame)] /\ \A c \in Client : stack[c] = <<>> /\ Chain(stack[c])
  BY EmptyChain DEF Init
<1>2. ClientOK
  BY <1>1, AcquireAssumption DEF Init, ClientOK, Outcomes, Running, Is
<1>3. RestOK
  <2>1. down \in [Release -> [File -> {"absent", "torn", "whole"}]]
    BY DEF Init
  <2>2. mishaps \in 0 .. MaxMishaps
    BY AcquireAssumption DEF Init
  <2> QED BY <2>1, <2>2, AcquireAssumption DEF Init, RestOK
<1> QED BY <1>2, <1>3

LEMMA AcquireStep == RestOK /\ ClientOK /\ [Next]_vars => RestOK' /\ ClientOK'
<1> SUFFICES ASSUME RestOK, ClientOK, [Next]_vars PROVE RestOK' /\ ClientOK'
  OBVIOUS
<1>1. ASSUME NEW c \in Client, Step(c) \/ Abandon(c) PROVE RestOK' /\ ClientOK'
  BY <1>1, EndsRest, ListServedRest, ListHadRest, ListReadRest, FetchRest, DescendRest,
     BuildRest, ClearRest, ClearedRest, RenameRest, KeepRest, KeptRest, DoneRest DEF Step
<1>2. ASSUME NEW c \in Client, NEW r \in Wanted[c], NEW fresh \in BOOLEAN, Ask(c, r, fresh)
      PROVE  RestOK' /\ ClientOK'
  BY <1>2, AskRest
<1>3. ASSUME NEW r \in Release, Publish(r) \/ RollBack(r) \/ Withdraw(r)
      PROVE  RestOK' /\ ClientOK'
  BY <1>3, WorldRest
<1>4. CASE UNCHANGED vars
  BY <1>4 DEF vars, repository, cache, clients, history, RestOK, ClientOK, Running, Is, Top
<1> QED BY <1>1, <1>2, <1>3, <1>4 DEF Next

LEMMA StackInvariant == Spec => [](RestOK /\ ClientOK)
BY AcquireInit, AcquireStep, PTL DEF Spec

\* Every state keeps its type: no run counts past the closure cap, and every
\* frame of every stack is a package at a version.
THEOREM AcquireTypes == Spec => []TypeOK
BY StackInvariant, TypeParts, PTL

(***************************************************************************)
(* StoreIsVerified.                                                        *)
(***************************************************************************)
Good(t) ==
  /\ PinnedBy(t) /\ Consistent(t.pins)
  /\ \A k \in Asked(DepsOf[t.pkg][t.v]) :
       \E e \in t.pins : e.key = k /\ e.v = DepsOf[t.pkg][t.v][k]

\* What is about to be installed is good.
LEMMA InstallingIsGood ==
  ASSUME NEW f \in Frame, FrameInv(f), f.at \in Installing
  PROVE  Good(Unpack(f))
<1>1. f.todo = {} /\ Consistent(f.pins) /\ PinnedBy(Unpack(f)) /\ PinsAsked(f)
  BY DEF FrameInv, Installing, Waiting
<1>2. Unpack(f).pins = f.pins /\ Unpack(f).pkg = f.pkg /\ Unpack(f).v = f.v
  BY DEF Unpack
<1> QED BY <1>1, <1>2 DEF Good, PinsAsked

\* A tree that is being removed says what it said.
LEMMA TornIsGood ==
  ASSUME NEW t \in Filed, Good(t)
  PROVE  Good([t EXCEPT !.torn = TRUE])
<1> DEFINE u == [t EXCEPT !.torn = TRUE]
<1>1. u.pkg = t.pkg /\ u.v = t.v /\ u.canon = t.canon /\ u.pins = t.pins
  BY DEF Filed
<1> QED BY <1>1 DEF Good, PinnedBy

LEMMA TearIsGood ==
  ASSUME RestOK, \A t \in store : Good(t), NEW trees \in SUBSET store
  PROVE  \A t \in Tear(trees) : Good(t)
<1>1. \A t \in trees : Good([t EXCEPT !.torn = TRUE])
  BY TornIsGood DEF RestOK
<1> QED BY <1>1 DEF Tear

\* Where the store changes.
LEMMA StoreChanges ==
  ASSUME [Next]_vars, store' # store
  PROVE  \E c \in Client :
           \/ Clear(c) \/ Cleared(c) \/ Rename(c)
           \/ Abandon(c) /\ Is(c, "clearing") /\ store' = Tear(Place(c))
BY DEF Next, Step, TooDeep, TooLarge, NoAnswer, ListServed, ListRefused, ListHad, ListRead,
   FetchRefused, Fetch, Descend, DepInvalid, Build, Unverified, RenameThrows, Keep, Kept, Done,
   Abandon, Die, ClearThrows, Ask, Publish, RollBack, Withdraw, Refuse, cache, vars

LEMMA StoreStep ==
  ASSUME RestOK, ClientOK, [Next]_vars, \A t \in store : Good(t)
  PROVE  \A t \in store' : Good(t)
<1>1. CASE store' = store
  BY <1>1
<1>2. ASSUME NEW c \in Client, store' = Tear(Place(c)) PROVE \A t \in store' : Good(t)
  BY <1>2, TearIsGood DEF Place, At
<1>3. ASSUME NEW c \in Client, Cleared(c) PROVE \A t \in store' : Good(t)
  BY <1>3 DEF Cleared
<1>4. ASSUME NEW c \in Client, Rename(c) PROVE \A t \in store' : Good(t)
  <2>1. Running(c) /\ Top(c).at \in Installing
    BY <1>4 DEF Rename, Is, Installing
  <2>2. Good(Unpacked(c))
    BY <2>1, TopFacts, InstallingIsGood, UnpackedIs
  <2> QED BY <1>4, <2>2 DEF Rename
<1> QED BY <1>1, <1>2, <1>3, <1>4, StoreChanges DEF Clear

\* A place of the store holds only a release that means what its publisher's
\* manifest pins, with one lock entry a key, every import at the minimum its
\* dep block declares, however clients interleave and wherever one dies.
THEOREM StoresAreVerified == Spec => []StoreIsVerified
<1>1. Init => \A t \in store : Good(t)
  BY DEF Init
<1>2. RestOK /\ ClientOK /\ (\A t \in store : Good(t)) /\ [Next]_vars
        => (\A t \in store : Good(t))'
  BY StoreStep
<1>3. (\A t \in store : Good(t)) => StoreIsVerified
  BY DEF Good, StoreIsVerified
<1> QED BY <1>1, <1>2, <1>3, StackInvariant, PTL DEF Spec

(***************************************************************************)
(* NoRollbackTaken.                                                        *)
(***************************************************************************)
\* A step of one client leaves the stacks of the others alone.
LEMMA OthersStay ==
  ASSUME ClientOK, NEW c \in Client, Step(c) \/ Abandon(c)
  PROVE  \A d \in Client \ {c} : stack'[d] = stack[d] /\ outcome'[d] = outcome[d]
<1>1. ASSUME NEW how, End(c, how)
      PROVE  \A d \in Client \ {c} : stack'[d] = stack[d] /\ outcome'[d] = outcome[d]
  BY <1>1 DEF End, ClientOK
<1>2. ASSUME NEW a, Return(c, a)
      PROVE  \A d \in Client \ {c} : stack'[d] = stack[d] /\ outcome'[d] = outcome[d]
  <2>1. PICK s : stack' = [stack EXCEPT ![c] = s]
    BY <1>2 DEF Return
  <2>2. outcome' = outcome \/ outcome' = [outcome EXCEPT ![c] = "ok"]
    BY <1>2 DEF Return
  <2> QED BY <2>1, <2>2 DEF ClientOK
<1>3. ASSUME NEW f, Retop(c, f) \/ stack' = [stack EXCEPT ![c] = f], outcome' = outcome
      PROVE  \A d \in Client \ {c} : stack'[d] = stack[d] /\ outcome'[d] = outcome[d]
  BY <1>3 DEF Retop, ClientOK
<1>4. CASE \/ TooDeep(c) \/ TooLarge(c) \/ NoAnswer(c) \/ ListRefused(c) \/ FetchRefused(c)
           \/ DepInvalid(c) \/ Unverified(c) \/ RenameThrows(c) \/ Abandon(c)
  <2>1. PICK how : End(c, how)
    BY <1>4 DEF TooDeep, TooLarge, NoAnswer, ListRefused, FetchRefused, DepInvalid,
       Unverified, RenameThrows, Abandon, Die, ClearThrows, Refuse
  <2> QED BY <1>1, <2>1
<1>5. CASE ListHad(c) \/ Done(c)
  <2>1. PICK a : Return(c, a)
    BY <1>5 DEF ListHad, Done
  <2> QED BY <1>2, <2>1
<1>6. CASE \/ ListServed(c) \/ ListRead(c) \/ Fetch(c) \/ Descend(c) \/ Build(c) \/ Clear(c)
           \/ Cleared(c) \/ Rename(c) \/ Keep(c) \/ Kept(c)
  <2>1. PICK f : Retop(c, f) \/ stack' = [stack EXCEPT ![c] = f]
    BY <1>6 DEF ListServed, ListRead, Fetch, Descend, Build, Clear, Cleared, Rename, Keep,
       Kept, Move
  <2>2. outcome' = outcome
    BY <1>6 DEF ListServed, ListRead, Fetch, Descend, Build, Clear, Cleared, Rename, Keep, Kept
  <2> QED BY <1>3, <2>1, <2>2
<1> QED BY <1>4, <1>5, <1>6 DEF Step

\* The cache remembers every version a list has named.
LEMMA ShownIsSeen ==
  ASSUME [Next]_vars, shown \subseteq seen
  PROVE  (shown \subseteq seen)'
<1>1. ASSUME NEW c \in Client, Told(c) PROVE (shown \subseteq seen)'
  BY <1>1 DEF Told, Recorded
<1>2. \/ \E c \in Client : Told(c)
      \/ UNCHANGED <<seen, shown>>
  BY DEF Next, Step, Abandon, Die, ClearThrows, TooDeep, TooLarge, NoAnswer, ListServed,
     ListRefused, ListHad,
     ListRead, FetchRefused, Fetch, Descend, DepInvalid, Build, Unverified, Clear, Cleared,
     Rename, RenameThrows, Keep, Kept, Done, Ask, Publish, RollBack, Withdraw, Refuse, cache,
     history, vars
<1> QED BY <1>1, <1>2

\* A client that has a list and goes on has taken it.
LEMMA OnlyTakenGoesOn ==
  ASSUME ClientOK, [Next]_vars, NEW c \in Client, Is(c, "list"),
         outcome'[c] \in {"running", "ok"}, stack'[c] # stack[c]
  PROVE  Listed(c)
<1>1. ASSUME NEW how \in Outcomes \ {"running", "ok"}, End(c, how) PROVE FALSE
  BY <1>1 DEF End, ClientOK
<1>2. Running(c) /\ Top(c).at = "list"
  BY DEF Is
<1>3. CASE Step(c) \/ Abandon(c)
  <2>1. ~ListRefused(c)
    BY <1>1 DEF ListRefused, Outcomes, Refusals
  <2>2. ~Abandon(c)
    BY <1>1 DEF Abandon, Die, ClearThrows, Outcomes
  <2>3. ListHad(c) \/ ListRead(c)
    BY <1>2, <1>3, <2>1, <2>2 DEF Step, TooDeep, TooLarge, NoAnswer, ListServed, FetchRefused,
       Fetch, Descend, DepInvalid, Build, Built, Unverified, Clear, Cleared, Rename,
       RenameThrows, Keep, Kept, Done, Is
  <2> QED BY <2>3 DEF ListHad, ListRead
<1>4. ASSUME NEW d \in Client \ {c}, Step(d) \/ Abandon(d) PROVE FALSE
  BY <1>4, OthersStay
<1>5. ASSUME NEW d \in Client, NEW r \in Wanted[d], NEW fresh \in BOOLEAN, Ask(d, r, fresh)
      PROVE  FALSE
  BY <1>2, <1>5 DEF Ask, ClientOK
<1>6. CASE \/ UNCHANGED vars
           \/ \E r \in Release : Publish(r) \/ RollBack(r) \/ Withdraw(r)
  BY <1>6 DEF Publish, RollBack, Withdraw, vars, clients
<1> QED BY <1>3, <1>4, <1>5, <1>6 DEF Next

\* A client goes on from a list only when it names, or a tombstone accounts
\* for, every version any client of this cache was ever shown.
THEOREM RollbacksAreDetected == Spec => NoRollbackTaken
<1>1. Init => shown \subseteq seen
  BY DEF Init
<1>2. shown \subseteq seen /\ [Next]_vars => (shown \subseteq seen)'
  BY ShownIsSeen
<1> DEFINE A == \A c \in Client :
       (Is(c, "list") /\ outcome'[c] \in {"running", "ok"} /\ stack'[c] # stack[c])
         => \A r \in shown \ withdrawn : r[1] = Top(c).pkg => r[2] \in answer[c]
<1>3. shown \subseteq seen /\ RestOK /\ ClientOK /\ [Next]_vars => A
  <2> SUFFICES ASSUME shown \subseteq seen, RestOK, ClientOK, [Next]_vars,
                      NEW c \in Client, Is(c, "list"), outcome'[c] \in {"running", "ok"},
                      stack'[c] # stack[c], NEW r \in shown \ withdrawn, r[1] = Top(c).pkg
               PROVE  r[2] \in answer[c]
    OBVIOUS
  <2>1. Hidden(c) = {}
    BY OnlyTakenGoesOn DEF Listed
  <2>2. r \in Recorded(c) \ withdrawn
    BY DEF Recorded
  <2> QED BY <2>1, <2>2 DEF Hidden
<1>4. A => [A]_vars
  OBVIOUS
<1> HIDE DEF A
<1>5. Spec => [][A]_vars
  BY <1>1, <1>2, <1>3, StackInvariant, PTL DEF Spec
<1> QED BY <1>5 DEF NoRollbackTaken, A

(***************************************************************************)
(* CacheStandsAlone and AcquiredIsFiled.  What the store provides is asked *)
(* by package and meaning, and until a removal stops halfway never less.   *)
(***************************************************************************)
Ready == Untorn \cup Coming

Provided(trees) == {<<t.pkg, t.canon>> : t \in trees}
Available == Provided(Ready)

\* A tree is torn only while a client removes it to put its like there.
TornIsReplaced ==
  \A t \in store : t.torn => \E c \in Client :
    Is(c, "clearing") /\ t.pkg = Top(c).pkg /\ t.canon = Top(c).canon

\* What a client installs stands on what is available, and so is what it has
\* installed in its run.
ClientStands(c) ==
  /\ Is(c, "clear") \/ Is(c, "clearing") \/ Is(c, "rename") =>
       Holds(Unpacked(c), Ready)
  /\ Is(c, "keep") \/ Is(c, "keeping") => <<Top(c).pkg, Top(c).canon>> \in Available
  /\ \A a \in memo[c] : <<a.pkg, a.canon>> \in Available

Stands ==
  /\ TornIsReplaced
  /\ \A t \in Untorn : Holds(t, Ready)
  /\ \A c \in Client : ClientStands(c)

StandInv == halfway \/ Stands

\* What a client is about to put in a place cleared for it.
Doing(c) == IF Is(c, "clearing") \/ Is(c, "rename") THEN {Unpacked(c)} ELSE {}

NotInstalling(c) == ~Running(c) \/ Top(c).at \notin Installing

LEMMA HoldsAmong ==
  ASSUME NEW t, NEW A, NEW B, Holds(t, A), Provided(A) \subseteq Provided(B)
  PROVE  Holds(t, B)
<1>1. ASSUME NEW u \in A PROVE \E w \in B : w.pkg = u.pkg /\ w.canon = u.canon
  <2>1. <<u.pkg, u.canon>> \in Provided(A)
    BY DEF Provided
  <2>2. PICK w \in B : <<u.pkg, u.canon>> = <<w.pkg, w.canon>>
    BY <2>1 DEF Provided
  <2> QED BY <2>2
<1> QED BY <1>1 DEF Holds

LEMMA StandingIsWhole == Provided(Standing(store)) \subseteq Available
<1>1. Standing(store) \subseteq Untorn
  BY DEF Standing, Untorn
<1> QED BY <1>1 DEF Provided, Available, Ready

LEMMA ComingIs == Coming = UNION {Doing(c) : c \in Client}
BY DEF Coming, Doing

LEMMA StackStays ==
  ASSUME NEW d \in Client, stack'[d] = stack[d]
  PROVE  /\ Top(d)' = Top(d) /\ Unpacked(d)' = Unpacked(d) /\ Doing(d)' = Doing(d)
         /\ \A place : Is(d, place)' = Is(d, place)
<1>1. Top(d)' = Top(d) /\ Running(d)' = Running(d)
  BY DEF Top, Running
<1>2. \A place : Is(d, place)' = Is(d, place)
  BY <1>1 DEF Is
<1>3. Unpacked(d)' = Unpacked(d)
  BY <1>1 DEF Unpacked
<1> QED BY <1>1, <1>2, <1>3 DEF Doing

LEMMA UnpackedFacts ==
  ASSUME ClientOK, NEW c \in Client, Running(c), Top(c).at \in Installing
  PROVE  /\ Unpacked(c).pkg = Top(c).pkg /\ Unpacked(c).canon = Top(c).canon
         /\ Unpacked(c).torn = FALSE
<1>1. Top(c).canon = Unpack(Top(c)).canon
  BY TopFacts DEF FrameInv
<1> QED BY <1>1, UnpackedIs DEF Unpack

LEMMA RetopIs ==
  ASSUME ClientOK, NEW c \in Client, Running(c), NEW f \in Frame, Retop(c, f)
  PROVE  Running(c)' /\ Top(c)' = f
<1> DEFINE s == stack[c]
           t == [s EXCEPT ![Len(s)] = f]
<1>1. s \in Seq(Frame) /\ s # <<>>
  BY TopFacts
<1>2. t # <<>> /\ t[Len(t)] = f
  BY <1>1, Replaced
<1>3. stack'[c] = t
  BY DEF Retop, ClientOK
<1> HIDE DEF t
<1> QED BY <1>2, <1>3 DEF Running, Top

LEMMA ReturnIs ==
  ASSUME ClientOK, NEW c \in Client, Running(c), NEW a, Return(c, a)
  PROVE  NotInstalling(c)'
<1> DEFINE s == stack[c]
           n == Len(s)
<1>1. s \in Seq(Frame) /\ s # <<>> /\ Chain(s) /\ n \in Nat /\ n > 0 /\ n = Len(s)
  BY TopFacts
<1>2. CASE n = 1
  BY <1>2 DEF Return, ClientOK, NotInstalling, Running
<1>3. CASE n # 1
  <2> DEFINE up == s[n - 1]
  <2>1. PICK k \in First(up.todo) :
          stack' = [stack EXCEPT ![c] = Append(SubSeq(@, 1, n - 2),
            [up EXCEPT !.todo = @ \ {k},
                       !.pins = Joined(@, [key |-> k, v |-> a.v, canon |-> a.canon], a.closure)])]
    BY <1>3 DEF Return
  <2> DEFINE g == [up EXCEPT !.todo = @ \ {k},
                !.pins = Joined(@, [key |-> k, v |-> a.v, canon |-> a.canon], a.closure)]
             t == Append(SubSeq(s, 1, n - 2), g)
  <2>2. n > 1 /\ n - 1 \in 1 .. Len(s) /\ n - 1 \in 1 .. Len(s) - 1
    <3> HIDE DEF s, n
    <3> QED BY <1>1, <1>3
  <2>3. up.at = "deps" /\ up \in Frame
    <3>1. \A i \in 1 .. Len(s) : s[i] \in Frame
      BY <1>1
    <3> HIDE DEF s, n
    <3> QED BY <1>1, <2>2, <3>1 DEF Chain, Calls
  <2>4. g.at = "deps"
    BY <2>3 DEF Frame
  <2>5. stack'[c] = t
    BY <2>1 DEF ClientOK
  <2>6. SubSeq(s, 1, n - 2) \in Seq(Frame)
    <3>1. \A i \in 1 .. n - 2 : s[i] \in Frame
      BY <1>1
    <3> HIDE DEF s
    <3>2. n - 2 \in Int
      BY <1>1
    <3> QED BY <3>1, <3>2, SubSeqProperties
  <2> HIDE DEF g
  <2>7. t # <<>> /\ t[Len(t)] = g
    <3> DEFINE u == SubSeq(s, 1, n - 2)
    <3> HIDE DEF u
    <3>1. Append(u, g) # <<>> /\ Append(u, g)[Len(Append(u, g))] = g
      BY <2>6 DEF u
    <3> QED BY <3>1 DEF u
  <2> HIDE DEF t
  <2> QED BY <2>4, <2>5, <2>7 DEF NotInstalling, Running, Top, Installing
<1> QED BY <1>2, <1>3

(***************************************************************************)
(* What is available, and what stands on it, by the part of a step that    *)
(* changes it.                                                             *)
(***************************************************************************)
\* Nothing of another client's changes.
Others(c) ==
  \A d \in Client \ {c} : stack'[d] = stack[d] /\ memo'[d] = memo[d]

LEMMA MemosStay ==
  ASSUME ClientOK, NEW c \in Client, Step(c) \/ Abandon(c)
  PROVE  Others(c)
<1>1. memo' = memo \/ \E m : memo' = [memo EXCEPT ![c] = m]
  BY DEF Step, Abandon, Die, ClearThrows, TooDeep, TooLarge, NoAnswer, ListServed,
     ListRefused, ListHad,
     ListRead, FetchRefused, Fetch, Descend, DepInvalid, Build, Unverified, Clear, Cleared,
     Rename, RenameThrows, Keep, Kept, Done, Refuse, End
<1>2. \A d \in Client \ {c} : memo'[d] = memo[d]
  BY <1>1 DEF ClientOK
<1> QED BY <1>2, OthersStay DEF Others

LEMMA OthersKeep ==
  ASSUME Stands, NEW c \in Client, Others(c), Available \subseteq Available'
  PROVE  \A d \in Client \ {c} : ClientStands(d)'
<1> SUFFICES ASSUME NEW d \in Client \ {c} PROVE ClientStands(d)'
  OBVIOUS
<1>1. stack'[d] = stack[d] /\ memo'[d] = memo[d]
  BY DEF Others
<1>2. /\ Top(d)' = Top(d) /\ Unpacked(d)' = Unpacked(d)
      /\ \A place : Is(d, place)' = Is(d, place)
  BY <1>1, StackStays
<1>3. ClientStands(d)
  BY DEF Stands
<1>4. Holds(Unpacked(d), Ready) => Holds(Unpacked(d), Ready')
  BY HoldsAmong DEF Available
<1>5. Is(d, "clear")' \/ Is(d, "clearing")' \/ Is(d, "rename")' =>
        Holds(Unpacked(d)', Ready')
  BY <1>2, <1>3, <1>4 DEF ClientStands
<1>6. Is(d, "keep")' \/ Is(d, "keeping")' => <<Top(d)'.pkg, Top(d)'.canon>> \in Available'
  BY <1>2, <1>3 DEF ClientStands
<1>7. \A a \in memo'[d] : <<a.pkg, a.canon>> \in Available'
  BY <1>1, <1>3 DEF ClientStands
<1> QED BY <1>5, <1>6, <1>7 DEF ClientStands

\* A step of c that leaves what is available there keeps what stands on it, if
\* the trees it adds and c itself do.
LEMMA StandsOn ==
  ASSUME Stands, NEW c \in Client, Others(c), Available \subseteq Available',
         TornIsReplaced', \A t \in Untorn' \ Untorn : Holds(t, Ready'), ClientStands(c)'
  PROVE  Stands'
<1>1. \A t \in Untorn : Holds(t, Ready')
  BY HoldsAmong DEF Stands, Available
<1>2. \A t \in Untorn' : Holds(t, Ready')
  BY <1>1
<1>3. \A d \in Client : ClientStands(d)'
  BY OthersKeep
<1> QED BY <1>2, <1>3 DEF Stands

\* A client that removes nothing leaves every torn tree to who removes it.
LEMMA TornStays ==
  ASSUME TornIsReplaced, NEW c \in Client, Others(c), ~Is(c, "clearing"),
         \A t \in store' : t.torn => t \in store
  PROVE  TornIsReplaced'
<1> SUFFICES ASSUME NEW t \in store', t.torn
             PROVE  \E d \in Client : Is(d, "clearing")' /\ t.pkg = Top(d)'.pkg
                                                       /\ t.canon = Top(d)'.canon
  BY DEF TornIsReplaced
<1>1. PICK d \in Client : Is(d, "clearing") /\ t.pkg = Top(d).pkg /\ t.canon = Top(d).canon
  BY DEF TornIsReplaced
<1>2. stack'[d] = stack[d]
  BY <1>1 DEF Others
<1> QED BY <1>1, <1>2, StackStays

LEMMA OthersDoing ==
  ASSUME NEW c \in Client, Others(c)
  PROVE  \A d \in Client \ {c} : Doing(d)' = Doing(d)
BY StackStays DEF Others

LEMMA ReadyIs == /\ Ready = Untorn \cup UNION {Doing(c) : c \in Client}
                 /\ Ready' = Untorn' \cup UNION {Doing(c)' : c \in Client}
<1>1. Ready = Untorn \cup UNION {Doing(c) : c \in Client}
  BY ComingIs DEF Ready
<1>2. (Ready = Untorn \cup UNION {Doing(c) : c \in Client})'
  BY <1>1, PTL
<1> QED BY <1>1, <1>2

\* A step of c that changes neither the store nor what c is about to put there.
LEMMA QuietReady ==
  ASSUME NEW c \in Client, Others(c), store' = store, Doing(c)' = Doing(c)
  PROVE  Ready' = Ready /\ Untorn' = Untorn /\ Available' = Available
<1>1. \A d \in Client : Doing(d)' = Doing(d)
  BY OthersDoing
<1>2. Untorn' = Untorn
  BY DEF Untorn
<1>3. Ready' = Ready
  BY <1>1, <1>2, ReadyIs
<1> QED BY <1>2, <1>3 DEF Available

LEMMA QuietStands ==
  ASSUME Stands, NEW c \in Client, Others(c), store' = store, Doing(c)' = Doing(c),
         ~Is(c, "clearing"), ClientStands(c)'
  PROVE  Stands'
<1>1. Untorn' = Untorn /\ Available' = Available
  BY QuietReady
<1>2. TornIsReplaced'
  BY TornStays DEF Stands
<1> QED BY <1>1, <1>2, StandsOn

LEMMA NotInstallingFacts ==
  ASSUME NEW c \in Client, NotInstalling(c)
  PROVE  /\ Doing(c) = {}
         /\ \A place \in Installing : ~Is(c, place)
BY DEF NotInstalling, Doing, Is, Installing

LEMMA NotInstallingNext ==
  ASSUME NEW c \in Client, NotInstalling(c)'
  PROVE  /\ Doing(c)' = {}
         /\ \A place \in Installing : ~Is(c, place)'
BY DEF NotInstalling, Doing, Is, Installing

\* The steps of a client that installs nothing, before the step or after it.
LEMMA IdleStands ==
  ASSUME Stands, NEW c \in Client, Others(c), store' = store,
         NotInstalling(c), NotInstalling(c)', memo'[c] \subseteq memo[c]
  PROVE  Stands'
<1>1. Doing(c) = {} /\ Doing(c)' = {} /\ ~Is(c, "clearing")
  BY NotInstallingFacts, NotInstallingNext DEF Installing
<1>2. Available' = Available
  BY <1>1, QuietReady
<1>3. \A place \in Installing : ~Is(c, place)'
  BY NotInstallingNext
<1>4. \A a \in memo'[c] : <<a.pkg, a.canon>> \in Available'
  BY <1>2 DEF Stands, ClientStands
<1>5. ClientStands(c)'
  BY <1>3, <1>4 DEF ClientStands, Installing
<1> QED BY <1>1, <1>5, QuietStands

LEMMA EndIs ==
  ASSUME ClientOK, NEW c \in Client, NEW how, End(c, how)
  PROVE  NotInstalling(c)' /\ memo'[c] = {}
BY DEF End, ClientOK, NotInstalling, Running

LEMMA WaitingStep ==
  ASSUME RestOK, ClientOK, NEW c \in Client,
         \/ TooDeep(c) \/ TooLarge(c) \/ NoAnswer(c) \/ ListRefused(c) \/ FetchRefused(c)
         \/ DepInvalid(c) \/ Unverified(c)
         \/ ListServed(c) \/ ListHad(c) \/ ListRead(c) \/ Fetch(c) \/ Descend(c)
  PROVE  /\ NotInstalling(c) /\ store' = store
         /\ NotInstalling(c)' /\ memo'[c] \subseteq memo[c]
<1>1. Running(c) /\ Top(c).at \notin Installing
  BY DEF TooDeep, TooLarge, NoAnswer, ListRefused, FetchRefused, DepInvalid, Unverified,
     ListServed, ListHad, ListRead, Listed, Fetch, Descend, Built, Is, Installing
<1>2. store' = store
  BY DEF TooDeep, TooLarge, NoAnswer, ListRefused, FetchRefused, DepInvalid, Unverified,
     ListServed, ListHad, ListRead, Fetch, Descend, cache
<1>3. CASE \/ TooDeep(c) \/ TooLarge(c) \/ NoAnswer(c) \/ ListRefused(c) \/ FetchRefused(c)
           \/ DepInvalid(c) \/ Unverified(c)
  <2>1. PICK how : End(c, how)
    BY <1>3 DEF TooDeep, TooLarge, NoAnswer, ListRefused, FetchRefused, DepInvalid, Unverified,
       Refuse
  <2> QED BY <1>1, <1>2, <2>1, EndIs DEF NotInstalling
<1>4. CASE ListServed(c) \/ ListRead(c)
  <2>1. PICK place \in Waiting : Move(c, place)
    BY <1>4 DEF ListServed, ListRead, Waiting
  <2> DEFINE g == [Top(c) EXCEPT !.at = place]
  <2>2. g \in Frame /\ g.at = place
    BY <1>1, TopFacts, WaitingOK
  <2>3. Retop(c, g)
    BY <2>1 DEF Move
  <2> HIDE DEF g
  <2>4. Top(c)' = g
    BY <1>1, <2>2, <2>3, RetopIs
  <2>5. memo' = memo
    BY <1>4 DEF ListServed, ListRead
  <2> QED BY <1>1, <1>2, <2>2, <2>4, <2>5 DEF NotInstalling, Waiting, Installing
<1>5. CASE ListHad(c)
  <2>1. PICK a : Return(c, a)
    BY <1>5 DEF ListHad
  <2>2. NotInstalling(c)'
    BY <1>1, <2>1, ReturnIs
  <2> QED BY <1>1, <1>2, <1>5, <2>2 DEF ListHad, NotInstalling
<1>6. CASE Fetch(c)
  <2> DEFINE f == Top(c)
             g == [f EXCEPT !.at = "deps", !.todo = Asked(DepsOf[f.pkg][f.v])]
  <2>1. g \in Frame /\ g.at = "deps"
    BY <1>1, TopFacts, FetchedOK
  <2>2. Retop(c, g) /\ memo' = memo
    BY <1>6 DEF Fetch
  <2> HIDE DEF g
  <2>3. Top(c)' = g
    BY <1>1, <2>1, <2>2, RetopIs
  <2> QED BY <1>1, <1>2, <2>1, <2>2, <2>3 DEF NotInstalling, Installing
<1>7. CASE Descend(c)
  <2>1. PICK k \in First(Top(c).todo) :
          /\ Usable(k)
          /\ stack' = [stack EXCEPT ![c] =
               Append(@, Enter(Names[k], DepsOf[Top(c).pkg][Top(c).v][k]))]
    BY <1>7 DEF Descend
  <2> DEFINE g == Enter(Names[k], DepsOf[Top(c).pkg][Top(c).v][k])
  <2>2. stack'[c] = Append(stack[c], g)
    BY <2>1 DEF ClientOK
  <2>3. g.at = "enter"
    BY DEF Enter
  <2> HIDE DEF g
  <2>4. Append(stack[c], g) # <<>> /\ Append(stack[c], g)[Len(Append(stack[c], g))] = g
    BY <1>1, TopFacts
  <2>5. Top(c)' = g
    BY <2>2, <2>4 DEF Top
  <2>6. memo' = memo
    BY <1>7 DEF Descend
  <2> QED BY <1>1, <1>2, <2>3, <2>5, <2>6 DEF NotInstalling, Installing
<1> QED BY <1>3, <1>4, <1>5, <1>6, <1>7

LEMMA AskStands ==
  ASSUME ClientOK, Stands, NEW c \in Client, NEW r \in Wanted[c], NEW fresh \in BOOLEAN,
         Ask(c, r, fresh)
  PROVE  Stands'
<1>1. NotInstalling(c) /\ store' = store
  BY DEF Ask, NotInstalling, cache
<1>2. Others(c) /\ memo'[c] \subseteq memo[c]
  BY DEF Ask, Others, ClientOK
<1>3. stack'[c] = <<Enter(r[1], r[2])>>
  BY DEF Ask, ClientOK
<1>4. NotInstalling(c)'
  <2>1. Top(c)' = Enter(r[1], r[2])
    BY <1>3 DEF Top
  <2>2. Enter(r[1], r[2]).at = "enter"
    BY DEF Enter
  <2> QED BY <2>1, <2>2 DEF NotInstalling, Installing
<1> QED BY <1>1, <1>2, <1>4, IdleStands

\* What is verified stands on what is available.
LEMMA BuildStands ==
  ASSUME RestOK, ClientOK, Stands, NEW c \in Client, Build(c)
  PROVE  Stands'
<1> DEFINE f == Top(c)
           g == [f EXCEPT !.at = "clear", !.canon = Unpack(f).canon]
<1>1. Running(c) /\ f.at = "deps" /\ f.todo = {} /\ store' = store /\ memo' = memo
  BY DEF Build, Built, Is, cache
<1>2. Consistent(f.pins) /\ PinnedBy(Unpack(f)) /\ Holds(Unpack(f), Standing(store))
  BY VerifiedIs DEF Build
<1>3. g \in Frame /\ g.at = "clear" /\ Unpack(g) = Unpack(f)
  BY <1>1, <1>2, TopFacts, BuiltOK
<1>4. Running(c)' /\ Top(c)' = g
  <2>1. Retop(c, g)
    BY UnpackedIs DEF Build
  <2> HIDE DEF g
  <2> QED BY <1>1, <1>3, <2>1, RetopIs
<1> HIDE DEF g
<1>5. Unpacked(c)' = Unpack(f)
  BY <1>3, <1>4 DEF Unpacked, Unpack
<1>6. Others(c)
  BY MemosStay DEF Step
<1>7. Doing(c) = {} /\ Doing(c)' = {} /\ ~Is(c, "clearing")
  BY <1>1, <1>3, <1>4 DEF Doing, Is
<1>8. Available' = Available
  BY <1>1, <1>6, <1>7, QuietReady
<1>9. Holds(Unpacked(c)', Ready')
  BY <1>2, <1>5, <1>8, StandingIsWhole, HoldsAmong DEF Available
<1>10. ~Is(c, "keep")' /\ ~Is(c, "keeping")'
  BY <1>3, <1>4 DEF Is
<1>11. \A a \in memo'[c] : <<a.pkg, a.canon>> \in Available'
  BY <1>1, <1>8 DEF Stands, ClientStands
<1>12. ClientStands(c)'
  BY <1>9, <1>10, <1>11 DEF ClientStands
<1> QED BY <1>1, <1>6, <1>7, <1>12, QuietStands

\* A tree that is in its place for good: its place is cleared under the same
\* client, or its like is put there.
LEMMA InstalledIs ==
  ASSUME ClientOK, NEW c \in Client, Running(c), NEW place, Installed(c, place)
  PROVE  /\ Running(c)' /\ Top(c)'.at = place
         /\ Top(c)'.pkg = Top(c).pkg /\ Top(c)'.canon = Top(c).canon
         /\ Unpacked(c)' = Unpacked(c)
<1>1. Unpack(Top(c)') = Unpack(Top(c)) /\ Running(c)'
  BY DEF Installed, Top, Running
<1>2. Unpacked(c)' = Unpacked(c)
  BY <1>1 DEF Unpacked, Unpack
<1> QED BY <1>1, <1>2 DEF Installed, Top

LEMMA ClearStands ==
  ASSUME RestOK, ClientOK, Stands, NEW c \in Client, Clear(c)
  PROVE  Stands'
<1> DEFINE gone == Place(c)
           x == Unpacked(c)
<1>1. Running(c) /\ Top(c).at = "clear" /\ Top(c).at \in Installing
  BY DEF Clear, Is, Installing
<1>2. /\ Running(c)' /\ Top(c)'.at = IF gone = {} THEN "rename" ELSE "clearing"
      /\ Top(c)'.pkg = Top(c).pkg /\ Top(c)'.canon = Top(c).canon
      /\ Unpacked(c)' = x
  BY <1>1, ClearRest, InstalledIs
<1>3. x.pkg = Top(c).pkg /\ x.canon = Top(c).canon
  BY <1>1, UnpackedFacts
<1>4. Others(c) /\ memo' = memo
  BY MemosStay DEF Step, Clear
<1>5. store' = (store \ gone) \cup {[t EXCEPT !.torn = TRUE] : t \in gone}
  BY DEF Clear, Tear
<1>6. \A t \in gone : t \in Filed /\ t.pkg = x.pkg /\ t.canon = x.canon
  BY <1>3 DEF Place, At, RestOK
<1>7. Doing(c) = {} /\ Doing(c)' = {x}
  BY <1>1, <1>2 DEF Doing, Is
<1>8. ASSUME NEW t \in gone
      PROVE  /\ [t EXCEPT !.torn = TRUE].torn = TRUE
             /\ [t EXCEPT !.torn = TRUE].pkg = x.pkg
             /\ [t EXCEPT !.torn = TRUE].canon = x.canon
  BY <1>6 DEF Filed
<1> HIDE DEF x, gone
<1>9. Untorn' \subseteq Untorn /\ Untorn \subseteq Untorn' \cup gone
  BY <1>5, <1>8 DEF Untorn
<1>10. Doing(c)' \subseteq Ready' /\ Untorn' \subseteq Ready'
  BY ReadyIs
<1>11. ASSUME NEW u \in Ready
       PROVE  \E w \in Ready' : w.pkg = u.pkg /\ w.canon = u.canon
  <2>1. CASE u \in gone
    BY <1>6, <1>7, <1>10, <2>1
  <2>2. CASE u \in Untorn'
    BY <1>10, <2>2
  <2>3. ASSUME NEW d \in Client, u \in Doing(d) PROVE u \in Ready'
    BY <1>4, <1>7, <2>3, OthersDoing, ReadyIs
  <2> QED BY <1>9, <2>1, <2>2, <2>3, ReadyIs
<1>12. Available \subseteq Available'
  <2> SUFFICES ASSUME NEW u \in Ready PROVE <<u.pkg, u.canon>> \in Available'
    BY DEF Available, Provided
  <2>1. PICK w \in Ready' : w.pkg = u.pkg /\ w.canon = u.canon
    BY <1>11
  <2> QED BY <2>1 DEF Available, Provided
<1>13. TornIsReplaced'
  <2> SUFFICES ASSUME NEW t \in store', t.torn
               PROVE  \E d \in Client : Is(d, "clearing")' /\ t.pkg = Top(d)'.pkg
                                                         /\ t.canon = Top(d)'.canon
    BY DEF TornIsReplaced
  <2>1. CASE t \in store
    <3>1. PICK d \in Client : Is(d, "clearing") /\ t.pkg = Top(d).pkg /\ t.canon = Top(d).canon
      BY <2>1 DEF Stands, TornIsReplaced
    <3>2. d # c
      BY <1>1, <3>1 DEF Is
    <3>3. stack'[d] = stack[d]
      BY <1>4, <3>2 DEF Others
    <3> QED BY <3>1, <3>3, StackStays
  <2>2. CASE t \notin store
    <3>1. gone # {} /\ t.pkg = x.pkg /\ t.canon = x.canon
      <4>1. PICK u \in gone : t = [u EXCEPT !.torn = TRUE]
        BY <1>5, <2>2
      <4> QED BY <1>8, <4>1
    <3>2. Is(c, "clearing")'
      BY <1>2, <3>1 DEF Is
    <3> QED BY <1>2, <1>3, <3>1, <3>2
  <2> QED BY <2>1, <2>2
<1>14. ClientStands(c)'
  <2>1. Holds(x, Ready')
    <3>1. Holds(x, Ready)
      BY <1>1 DEF Stands, ClientStands, Is, x
    <3> QED BY <1>12, <3>1, HoldsAmong DEF Available
  <2>2. ~Is(c, "keep")' /\ ~Is(c, "keeping")'
    BY <1>2 DEF Is
  <2>3. \A a \in memo'[c] : <<a.pkg, a.canon>> \in Available'
    BY <1>4, <1>12 DEF Stands, ClientStands
  <2> QED BY <1>2, <2>1, <2>2, <2>3 DEF ClientStands
<1> QED BY <1>4, <1>9, <1>12, <1>13, <1>14, StandsOn

LEMMA ClearedStands ==
  ASSUME RestOK, ClientOK, Stands, NEW c \in Client, Cleared(c)
  PROVE  Stands'
<1> DEFINE gone == Place(c)
           x == Unpacked(c)
<1>1. Running(c) /\ Top(c).at = "clearing" /\ Top(c).at \in Installing
  BY DEF Cleared, Is, Installing
<1>2. /\ Running(c)' /\ Top(c)'.at = "rename"
      /\ Top(c)'.pkg = Top(c).pkg /\ Top(c)'.canon = Top(c).canon
      /\ Unpacked(c)' = x
  BY <1>1, ClearedRest, InstalledIs
<1>3. x.pkg = Top(c).pkg /\ x.canon = Top(c).canon
  BY <1>1, UnpackedFacts
<1>4. Others(c) /\ memo' = memo
  BY MemosStay DEF Step, Cleared
<1>5. store' = store \ gone
  BY DEF Cleared
<1>6. gone = {t \in store : t.pkg = x.pkg /\ t.canon = x.canon}
  BY <1>3 DEF Place, At
<1>7. Doing(c) = {x} /\ Doing(c)' = {x}
  BY <1>1, <1>2 DEF Doing, Is
<1> HIDE DEF x, gone
<1>8. Untorn' \subseteq Untorn /\ Untorn \subseteq Untorn' \cup gone
  BY <1>5 DEF Untorn
<1>9. x \in Ready' /\ Untorn' \subseteq Ready'
  BY <1>7, ReadyIs
<1>10. ASSUME NEW u \in Ready
       PROVE  \E w \in Ready' : w.pkg = u.pkg /\ w.canon = u.canon
  <2>1. CASE u \in gone
    BY <1>6, <1>9, <2>1
  <2>2. CASE u \in Untorn'
    BY <1>9, <2>2
  <2>3. ASSUME NEW d \in Client, u \in Doing(d) PROVE u \in Ready'
    BY <1>4, <1>7, <2>3, OthersDoing, ReadyIs
  <2> QED BY <1>8, <2>1, <2>2, <2>3, ReadyIs
<1>11. Available \subseteq Available'
  <2> SUFFICES ASSUME NEW u \in Ready PROVE <<u.pkg, u.canon>> \in Available'
    BY DEF Available, Provided
  <2>1. PICK w \in Ready' : w.pkg = u.pkg /\ w.canon = u.canon
    BY <1>10
  <2> QED BY <2>1 DEF Available, Provided
<1>12. TornIsReplaced'
  <2> SUFFICES ASSUME NEW t \in store', t.torn
               PROVE  \E d \in Client : Is(d, "clearing")' /\ t.pkg = Top(d)'.pkg
                                                         /\ t.canon = Top(d)'.canon
    BY DEF TornIsReplaced
  <2>1. PICK d \in Client : Is(d, "clearing") /\ t.pkg = Top(d).pkg /\ t.canon = Top(d).canon
    BY <1>5 DEF Stands, TornIsReplaced
  <2>2. d # c
    BY <1>3, <1>5, <1>6, <2>1
  <2>3. stack'[d] = stack[d]
    BY <1>4, <2>2 DEF Others
  <2> QED BY <2>1, <2>3, StackStays
<1>13. ClientStands(c)'
  <2>1. Holds(x, Ready')
    <3>1. Holds(x, Ready)
      BY <1>1 DEF Stands, ClientStands, Is, x
    <3> QED BY <1>11, <3>1, HoldsAmong DEF Available
  <2>2. ~Is(c, "keep")' /\ ~Is(c, "keeping")'
    BY <1>2 DEF Is
  <2>3. \A a \in memo'[c] : <<a.pkg, a.canon>> \in Available'
    BY <1>4, <1>11 DEF Stands, ClientStands
  <2> QED BY <1>2, <2>1, <2>2, <2>3 DEF ClientStands
<1> QED BY <1>4, <1>8, <1>11, <1>12, <1>13, StandsOn

LEMMA RenameStands ==
  ASSUME RestOK, ClientOK, Stands, NEW c \in Client, Rename(c)
  PROVE  Stands'
<1> DEFINE x == Unpacked(c)
<1>1. Running(c) /\ Top(c).at = "rename" /\ Top(c).at \in Installing
  BY DEF Rename, Is, Installing
<1>2. /\ Running(c)' /\ Top(c)'.at = "keep"
      /\ Top(c)'.pkg = Top(c).pkg /\ Top(c)'.canon = Top(c).canon
  BY <1>1, RenameRest, InstalledIs
<1>3. x.pkg = Top(c).pkg /\ x.canon = Top(c).canon /\ x.torn = FALSE
  BY <1>1, UnpackedFacts
<1>4. Others(c) /\ memo' = memo
  BY MemosStay DEF Step, Rename
<1>5. store' = store \cup {x}
  BY DEF Rename
<1>6. Doing(c) = {x} /\ Doing(c)' = {}
  BY <1>1, <1>2 DEF Doing, Is
<1> HIDE DEF x
<1>7. Untorn' = Untorn \cup {x}
  BY <1>3, <1>5 DEF Untorn
<1>8. Ready' = Ready
  <2>1. \A d \in Client \ {c} : Doing(d)' = Doing(d)
    BY <1>4, OthersDoing
  <2>2. UNION {Doing(d) : d \in Client} = {x} \cup UNION {Doing(d)' : d \in Client}
    BY <1>6, <2>1
  <2> QED BY <1>7, <2>2, ReadyIs
<1>9. Available' = Available
  BY <1>8 DEF Available
<1>10. TornIsReplaced'
  <2>1. ~Is(c, "clearing") /\ \A t \in store' : t.torn => t \in store
    BY <1>1, <1>3, <1>5 DEF Is
  <2> QED BY <1>4, <2>1, TornStays DEF Stands
<1>11. Holds(x, Ready')
  BY <1>1, <1>8 DEF Stands, ClientStands, Is, x
<1>12. ClientStands(c)'
  <2>1. x \in Ready
    BY <1>6, ReadyIs
  <2>2. <<Top(c)'.pkg, Top(c)'.canon>> \in Available'
    BY <1>2, <1>3, <1>9, <2>1 DEF Available, Provided
  <2>3. ~Is(c, "clear")' /\ ~Is(c, "clearing")' /\ ~Is(c, "rename")'
    BY <1>2 DEF Is
  <2>4. \A a \in memo'[c] : <<a.pkg, a.canon>> \in Available'
    BY <1>4, <1>9 DEF Stands, ClientStands
  <2> QED BY <2>2, <2>3, <2>4 DEF ClientStands
<1> QED BY <1>4, <1>7, <1>9, <1>10, <1>11, <1>12, StandsOn

\* What stands in the way of a rename, or is being put back there, provides
\* what the rename would have.
LEMMA ThrowsStands ==
  ASSUME RestOK, ClientOK, Stands, NEW c \in Client, RenameThrows(c)
  PROVE  Stands'
<1> DEFINE x == Unpacked(c)
<1>1. Running(c) /\ Top(c).at = "rename" /\ Top(c).at \in Installing
  BY DEF RenameThrows, Is, Installing
<1>2. NotInstalling(c)' /\ memo'[c] = {}
  BY EndIs DEF RenameThrows
<1>3. x.pkg = Top(c).pkg /\ x.canon = Top(c).canon
  BY <1>1, UnpackedFacts
<1>4. Others(c)
  BY MemosStay DEF Step
<1>5. store' = store /\ Untorn' = Untorn
  BY DEF RenameThrows, cache, Untorn
<1>6. Doing(c) = {x} /\ Doing(c)' = {} /\ ~Is(c, "clearing")
  BY <1>1, <1>2, NotInstallingNext DEF Doing, Is
<1>7. PICK t \in store : t.pkg = x.pkg /\ t.canon = x.canon
  BY <1>3 DEF RenameThrows, Place, At
<1> HIDE DEF x
<1>8. \A d \in Client \ {c} : Doing(d)' = Doing(d)
  BY <1>4, OthersDoing
<1>9. \E w \in Ready' : w.pkg = x.pkg /\ w.canon = x.canon
  <2>1. CASE ~t.torn
    BY <1>5, <1>7, <2>1, ReadyIs DEF Untorn
  <2>2. CASE t.torn
    <3>1. PICK d \in Client : Is(d, "clearing") /\ t.pkg = Top(d).pkg /\ t.canon = Top(d).canon
      BY <2>2 DEF Stands, TornIsReplaced
    <3>2. Unpacked(d).pkg = t.pkg /\ Unpacked(d).canon = t.canon
      BY <3>1, UnpackedFacts DEF Is, Installing
    <3>3. Unpacked(d) \in Doing(d) /\ d # c
      BY <1>6, <3>1 DEF Doing
    <3>4. Unpacked(d) \in Ready'
      BY <1>8, <3>3, ReadyIs
    <3> QED BY <1>7, <3>2, <3>4
  <2> QED BY <2>1, <2>2
<1>10. ASSUME NEW u \in Ready
       PROVE  \E w \in Ready' : w.pkg = u.pkg /\ w.canon = u.canon
  <2>1. CASE u \in Untorn
    BY <1>5, <2>1, ReadyIs
  <2>2. ASSUME NEW d \in Client, u \in Doing(d), u # x PROVE u \in Ready'
    BY <1>6, <1>8, <2>2, ReadyIs
  <2> QED BY <1>9, <2>1, <2>2, ReadyIs
<1>11. Available \subseteq Available'
  <2> SUFFICES ASSUME NEW u \in Ready PROVE <<u.pkg, u.canon>> \in Available'
    BY DEF Available, Provided
  <2>1. PICK w \in Ready' : w.pkg = u.pkg /\ w.canon = u.canon
    BY <1>10
  <2> QED BY <2>1 DEF Available, Provided
<1>12. TornIsReplaced'
  BY <1>4, <1>5, <1>6, TornStays DEF Stands
<1>13. ClientStands(c)'
  <2>1. \A place \in Installing : ~Is(c, place)'
    BY <1>2, NotInstallingNext
  <2> QED BY <1>2, <2>1 DEF ClientStands, Installing
<1> QED BY <1>4, <1>5, <1>11, <1>12, <1>13, StandsOn

LEMMA KeepStands ==
  ASSUME RestOK, ClientOK, Stands, NEW c \in Client, Keep(c) \/ Kept(c)
  PROVE  Stands'
<1>1. /\ Running(c) /\ Top(c).at \in {"keep", "keeping"}
      /\ Is(c, "keep") \/ Is(c, "keeping")
      /\ store' = store /\ memo' = memo
  BY DEF Keep, Kept, Is
<1>2. /\ Running(c)' /\ Top(c)'.at \in {"keep", "keeping"}
      /\ Top(c)'.pkg = Top(c).pkg /\ Top(c)'.canon = Top(c).canon
  BY <1>1, KeepRest, KeptRest, InstalledIs
<1>3. Others(c)
  BY MemosStay DEF Step
<1>4. Doing(c) = {} /\ Doing(c)' = {} /\ ~Is(c, "clearing")
  BY <1>1, <1>2 DEF Doing, Is
<1>5. Available' = Available
  BY <1>1, <1>3, <1>4, QuietReady
<1>6. ClientStands(c)'
  <2>1. ~Is(c, "clear")' /\ ~Is(c, "clearing")' /\ ~Is(c, "rename")'
    BY <1>2 DEF Is
  <2>2. <<Top(c)'.pkg, Top(c)'.canon>> \in Available'
    BY <1>1, <1>2, <1>5 DEF Stands, ClientStands
  <2>3. \A a \in memo'[c] : <<a.pkg, a.canon>> \in Available'
    BY <1>1, <1>5 DEF Stands, ClientStands
  <2> QED BY <2>1, <2>2, <2>3 DEF ClientStands
<1> QED BY <1>1, <1>3, <1>4, <1>6, QuietStands

LEMMA DoneStands ==
  ASSUME RestOK, ClientOK, Stands, NEW c \in Client, Done(c)
  PROVE  Stands'
<1> DEFINE b == [pkg |-> Top(c).pkg, v |-> Top(c).v, canon |-> Top(c).canon,
                 closure |-> Top(c).pins]
<1>1. /\ Running(c) /\ Is(c, "keep") /\ Top(c).at = "keep" /\ store' = store
      /\ Return(c, b) /\ memo' = [memo EXCEPT ![c] = @ \cup {b}]
  BY DEF Done, Is, cache
<1>2. b.pkg = Top(c).pkg /\ b.canon = Top(c).canon
  OBVIOUS
<1> HIDE DEF b
<1>3. NotInstalling(c)'
  BY <1>1, ReturnIs
<1>4. Others(c)
  BY MemosStay DEF Step
<1>5. Doing(c) = {} /\ Doing(c)' = {} /\ ~Is(c, "clearing")
  BY <1>1, <1>3, NotInstallingNext DEF Doing, Is
<1>6. Available' = Available
  BY <1>1, <1>4, <1>5, QuietReady
<1>7. ClientStands(c)'
  <2>1. \A place \in Installing : ~Is(c, place)'
    BY <1>3, NotInstallingNext
  <2>2. <<b.pkg, b.canon>> \in Available
    BY <1>1, <1>2 DEF Stands, ClientStands
  <2>3. memo'[c] = memo[c] \cup {b}
    BY <1>1 DEF ClientOK
  <2>4. \A a \in memo'[c] : <<a.pkg, a.canon>> \in Available'
    BY <1>6, <2>2, <2>3 DEF Stands, ClientStands
  <2> QED BY <2>1, <2>4 DEF ClientStands, Installing
<1> QED BY <1>1, <1>4, <1>5, <1>7, QuietStands

LEMMA UnmovedStands ==
  ASSUME Stands, UNCHANGED <<store, stack, memo>>
  PROVE  Stands'
<1>1. \A d \in Client : /\ Top(d)' = Top(d) /\ Unpacked(d)' = Unpacked(d)
                        /\ Doing(d)' = Doing(d)
                        /\ \A place : Is(d, place)' = Is(d, place)
  BY StackStays
<1>2. Untorn' = Untorn
  BY DEF Untorn
<1>3. Ready' = Ready
  BY <1>1, <1>2, ReadyIs
<1>4. Available' = Available
  BY <1>3 DEF Available
<1>5. TornIsReplaced'
  BY <1>1 DEF Stands, TornIsReplaced
<1>6. \A t \in Untorn' : Holds(t, Ready')
  BY <1>2, <1>3 DEF Stands
<1>7. ASSUME NEW c \in Client PROVE ClientStands(c)'
  <2>1. ClientStands(c)
    BY DEF Stands
  <2>2. Is(c, "clear")' \/ Is(c, "clearing")' \/ Is(c, "rename")' =>
          Holds(Unpacked(c)', Ready')
    BY <1>1, <1>3, <2>1 DEF ClientStands
  <2>3. Is(c, "keep")' \/ Is(c, "keeping")' => <<Top(c)'.pkg, Top(c)'.canon>> \in Available'
    BY <1>1, <1>4, <2>1 DEF ClientStands
  <2>4. \A a \in memo'[c] : <<a.pkg, a.canon>> \in Available'
    BY <1>4, <2>1 DEF ClientStands
  <2> QED BY <2>2, <2>3, <2>4 DEF ClientStands
<1> QED BY <1>5, <1>6, <1>7 DEF Stands

LEMMA StandInit == Init => StandInv
<1> SUFFICES ASSUME Init PROVE Stands
  BY DEF StandInv
<1>1. store = {} /\ Untorn = {}
  BY DEF Init, Untorn
<1>2. \A c \in Client : ~Running(c) /\ memo[c] = {}
  BY DEF Init, Running
<1>3. \A c \in Client : ClientStands(c)
  BY <1>2 DEF ClientStands, Is
<1> QED BY <1>1, <1>3 DEF Stands, TornIsReplaced

LEMMA StandStep == RestOK /\ ClientOK /\ StandInv /\ [Next]_vars => StandInv'
<1> SUFFICES ASSUME RestOK, ClientOK, StandInv, [Next]_vars, ~halfway' PROVE Stands'
  BY DEF StandInv
<1>1. halfway' = halfway \/ \E c \in Client : Abandon(c)
  BY DEF Next, Step, TooDeep, TooLarge, NoAnswer, ListServed, ListRefused, ListHad,
     ListRead, FetchRefused, Fetch, Descend, DepInvalid, Build, Unverified, Clear, Cleared,
     Rename, RenameThrows, Keep, Kept, Done, Ask, Publish, RollBack, Withdraw, Refuse,
     history, vars
<1>2. ~(\E c \in Client : Abandon(c))
  BY DEF Abandon, Die, ClearThrows
<1>3. Stands
  BY <1>1, <1>2 DEF StandInv
<1>4. ASSUME NEW c \in Client, Step(c) PROVE Stands'
  <2>1. CASE \/ TooDeep(c) \/ TooLarge(c) \/ NoAnswer(c) \/ ListRefused(c) \/ FetchRefused(c)
             \/ DepInvalid(c) \/ Unverified(c)
             \/ ListServed(c) \/ ListHad(c) \/ ListRead(c) \/ Fetch(c) \/ Descend(c)
    <3>1. Others(c)
      BY <1>4, MemosStay
    <3> QED BY <1>3, <2>1, <3>1, WaitingStep, IdleStands
  <2>2. CASE Build(c)
    BY <1>3, <2>2, BuildStands
  <2>3. CASE Clear(c) \/ Cleared(c) \/ Rename(c) \/ RenameThrows(c)
    BY <1>3, <2>3, ClearStands, ClearedStands, RenameStands, ThrowsStands
  <2>4. CASE Keep(c) \/ Kept(c) \/ Done(c)
    BY <1>3, <2>4, KeepStands, DoneStands
  <2> QED BY <1>4, <2>1, <2>2, <2>3, <2>4 DEF Step
<1>5. ASSUME NEW c \in Client, NEW r \in Wanted[c], NEW fresh \in BOOLEAN, Ask(c, r, fresh)
      PROVE  Stands'
  BY <1>3, <1>5, AskStands
<1>6. CASE \/ UNCHANGED vars
           \/ \E r \in Release : Publish(r) \/ RollBack(r) \/ Withdraw(r)
  BY <1>3, <1>6, UnmovedStands DEF Publish, RollBack, Withdraw, vars, cache, clients
<1> QED BY <1>2, <1>4, <1>5, <1>6 DEF Next

LEMMA StandInvariant == Spec => []StandInv
BY StandInit, StandStep, StackInvariant, PTL DEF Spec

\* As long as no client dies or throws in the middle of removing a tree,
\* every tree in the store evaluates with nothing
\* but the store and the trees that are being put back, whoever removes whose
\* tree to put its own there.
THEOREM TheCacheStandsAlone == Spec => []CacheStandsAlone
<1>1. StandInv => CacheStandsAlone
  BY DEF StandInv, Stands, Untorn, Ready, CacheStandsAlone
<1> QED BY <1>1, StandInvariant, PTL

\* Every package a run has acquired, and was not refused, is filed or being
\* filed again, until a removal stops halfway.
THEOREM WhatIsAcquiredIsFiled == Spec => []AcquiredIsFiled
<1>1. StandInv => AcquiredIsFiled
  <2> SUFFICES ASSUME Stands, NEW c \in Client, NEW a \in memo[c]
               PROVE  \E t \in Untorn \cup Coming : t.pkg = a.pkg /\ t.canon = a.canon
    BY DEF StandInv, AcquiredIsFiled
  <2>1. <<a.pkg, a.canon>> \in Available
    BY DEF Stands, ClientStands
  <2>2. PICK t \in Ready : <<a.pkg, a.canon>> = <<t.pkg, t.canon>>
    BY <2>1 DEF Available, Provided
  <2> QED BY <2>2 DEF Ready, Untorn
<1> QED BY <1>1, StandInvariant, PTL
=============================================================================
