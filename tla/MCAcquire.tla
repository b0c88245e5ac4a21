----------------------------- MODULE MCAcquire -----------------------------
(***************************************************************************)
(* Small worlds for module Acquire.                                        *)
(***************************************************************************)
EXTENDS Acquire, TLC

MCRank == [k \in Key |-> CASE k = "a" -> 1 [] k = "b" -> 2 [] k = "p" -> 3
                           [] k = "q" -> 4 [] k = "bad" -> 5]
MCNames == [k \in Key |-> IF k = "bad" THEN "" ELSE k]

Block(r) == [k \in Key |-> IF k \in DOMAIN r THEN r[k] ELSE 0]
World(deps(_, _)) == [p \in Pkg |-> [v \in 0 .. MaxVersion |-> deps(p, v)]]

\* Two versions of b mean the same and share a place of the store.
OneMeaning == [p \in Pkg |-> [v \in 0 .. MaxVersion |-> "m1"]]

\* p@1 needs a@1, which needs b@1, and b@1 itself; it moves when p@2 is
\* published.  a@2 needs itself.  q@1 has an unusable key.  q@2 needs b@2,
\* and b@1 through a@1.
Tangle ==
  World(LAMBDA p, v :
    CASE p = "a" /\ v = 1 -> Block([b |-> 1])
      [] p = "a" /\ v = 2 -> Block([a |-> 2])
      [] p = "p" /\ v = 1 -> Block([a |-> 1, b |-> 1])
      [] p = "q" /\ v = 1 -> Block([bad |-> 1])
      [] p = "q" /\ v = 2 -> Block([a |-> 1, b |-> 2])
      [] OTHER            -> Block(<<>>))
Moving == {<<"p", 2>>}
TangleFirst == (Pkg \X Version) \ Moving
TangleWanted ==
  [c \in Client |-> IF c = "x" THEN {<<"a", 2>>, <<"p", 1>>}
                    ELSE {<<"q", 1>>, <<"q", 2>>}]
AllWanted == [c \in Client |-> TangleFirst]
=============================================================================
