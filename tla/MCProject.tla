----------------------------- MODULE MCProject -----------------------------
(***************************************************************************)
(* Small worlds for TLC.  Each is the dependency graph of a few releases;  *)
(* a configuration picks one, the keys, the verbs and the faults.          *)
(***************************************************************************)
EXTENDS Project, TLC, Sequences

\* Byte order of the keys used below.
MCRank ==
  [k \in Key |-> CASE k = "a" -> 2 [] k = "alias:b" -> 3 [] k = "b" -> 4
                   [] k = "c" -> 5 [] k = "bad key!" -> 6
                   [] k = "d" -> 7 [] k = "e" -> 8]

\* A path names itself, an alias its package, an unusable key nothing.
MCNames ==
  [k \in Key |-> CASE k = "alias:b" -> "b" [] k = "bad key!" -> ""
                   [] OTHER -> k]

\* A dep block from a record of the keys it holds.
Block(r) == [k \in Key |-> IF k \in DOMAIN r THEN r[k] ELSE 0]
Nothing == Block(<<>>)

\* Version 2 of a package means something else than version 1 ...
Distinct == [p \in Pkg |-> [v \in 0 .. MaxVersion |-> IF v < 2 THEN "m1" ELSE "m2"]]
\* ... or changes only its bytes.
Same == [p \in Pkg |-> [v \in 0 .. MaxVersion |-> "m1"]]

World(deps(_, _)) == [p \in Pkg |-> [v \in 0 .. MaxVersion |-> deps(p, v)]]

\* Shared: a needs b@1, and the project may raise b itself.
SharedDeps ==
  World(LAMBDA p, v : IF p = "a" THEN Block([b |-> 1]) ELSE Nothing)
SharedRoots == {Block([a |-> 1]), Block([a |-> 1, b |-> 2])}

\* Cyclic: a needs b at its own version, and b@2 needs a@2 in turn.  No
\* release asks for less than its predecessor.
CyclicDeps ==
  World(LAMBDA p, v : CASE p = "a"           -> Block([b |-> v])
                        [] p = "b" /\ v = 2 -> Block([a |-> 2])
                        [] OTHER             -> Nothing)

\* Mixed: a@1 needs b@2 under an alias, a@2 only b@1, c@1 raises a to 2; the
\* two releases of b mean the same; one project declares a bad key.
MixedDeps ==
  World(LAMBDA p, v :
    CASE p = "a" -> [k \in Key |-> IF k = "alias:b" THEN (IF v = 2 THEN 1 ELSE 2) ELSE 0]
      [] p = "c" -> Block([a |-> 2])
      [] OTHER   -> Nothing)
MixedMeaning ==
  [p \in Pkg |-> [v \in 0 .. MaxVersion |-> IF p = "b" \/ v < 2 THEN "m1" ELSE "m2"]]
MixedRoots ==
  {Block([a |-> 1]),
   [k \in Key |-> IF k \in {"a", "alias:b", "c"} THEN 1 ELSE 0],
   [k \in Key |-> IF k \in {"b", "bad key!"} THEN 1 ELSE 0]}

\* SharedPlace: b@1 and b@2 mean the same, and only b@2 needs d; c needs e@1,
\* and e@1 needs b@2, so that the place of b@1 is filled again.
SharedPlaceDeps ==
  World(LAMBDA p, v : CASE p = "b" /\ v = 2 -> Block([d |-> 1])
                        [] p = "c"           -> Block([e |-> 1])
                        [] p = "e" /\ v = 1 -> Block([b |-> 2])
                        [] OTHER             -> Nothing)
SharedPlaceRoots == {Block([b |-> 1, c |-> 1, e |-> 2]), Block([d |-> 1])}

AllReleases == Pkg \X Version
FirstReleases == Pkg \X {1}
=============================================================================
