--------------------------- MODULE PackagesProofs ---------------------------
(***************************************************************************)
(* What the operators of module Packages return, for every value of the    *)
(* constants.                                                              *)
(***************************************************************************)
EXTENDS Packages, TLAPS

LEMMA LabelFacts ==
  /\ 0 \in Label
  /\ Version \subseteq Label
  /\ Label \subseteq Nat
  /\ \A v \in Label : v # 0 => v \in Version
  /\ NoBids \in Bids
BY WorldAssumption DEF Label, Version, NoBids, Bids

LEMMA NoTreeIsNoTree == NoTree \notin Tree
BY PkgAssumption DEF NoTree, Tree

LEMMA ReleasedType ==
  ASSUME NEW p \in Pkg, NEW v \in Label
  PROVE  Released(p, v) \in Tree
BY DEF Released, Tree

LEMMA DepsType ==
  ASSUME NEW t \in Tree \cup {NoTree}
  PROVE  Deps(t) \in Bids
<1>1. CASE t = NoTree
  BY <1>1, LabelFacts DEF Deps
<1>2. CASE t # NoTree
  <2>1. t.pkg \in Pkg /\ t.v \in Label
    BY <1>2 DEF Tree
  <2> QED BY <1>2, <2>1, WorldAssumption, LabelFacts DEF Deps
<1> QED BY <1>1, <1>2

\* Raise never lowers and never invents a minimum.
LEMMA RaiseFacts ==
  ASSUME NEW have \in Bids, NEW want \in Bids
  PROVE  /\ Raise(have, want) \in Bids
         /\ \A k \in Key : have[k] <= Raise(have, want)[k]
         /\ \A k \in Key : want[k] <= Raise(have, want)[k]
         /\ \A k \in Key : Raise(have, want)[k] \in {have[k], want[k]}
<1>1. \A k \in Key : have[k] \in Nat /\ want[k] \in Nat
  BY LabelFacts DEF Bids
<1>2. \A k \in Key : Raise(have, want)[k] =
                       IF have[k] < want[k] THEN want[k] ELSE have[k]
  BY DEF Raise
<1>3. Raise(have, want) \in Bids
  BY DEF Raise, Bids
<1> QED BY <1>1, <1>2, <1>3

LEMMA CanonType ==
  ASSUME NEW t \in Tree, NEW engine \in Nat
  PROVE  CanonOf(t, engine) \in Canon
<1>1. t.pkg \in Pkg /\ t.v \in Label
  BY DEF Tree
<1>2. MeaningOf[t.pkg][t.v] \in Meaning
  BY <1>1, WorldAssumption
<1>3. CASE Mainless(t)
  BY <1>3 DEF CanonOf, Canon
<1>4. CASE ~Mainless(t)
  BY <1>2, <1>4 DEF CanonOf, Canon
<1> QED BY <1>3, <1>4

\* Only a tree without a main file has the empty canon.
LEMMA EmptyCanon ==
  ASSUME NEW t, NEW engine \in Nat, engine # 0
  PROVE  CanonOf(t, engine) = NoCanon <=> Mainless(t)
<1>1. CASE Mainless(t)
  BY <1>1 DEF CanonOf
<1>2. CASE ~Mainless(t)
  <2>1. CanonOf(t, engine).engine = engine
    BY <1>2 DEF CanonOf
  <2>2. NoCanon.engine = 0
    BY DEF NoCanon
  <2> QED BY <1>2, <2>1, <2>2
<1> QED BY <1>1, <1>2

LEMMA PinType ==
  ASSUME NEW t \in Tree, NEW v \in Version, NEW engine \in Nat
  PROVE  Pin(t, v, engine) \in Entry
BY CanonType DEF Pin, Entry

LEMMA EntryIsNotNoEntry == NoEntry \notin Entry
BY WorldAssumption DEF NoEntry, Entry, Version

\* A path a store offers is a tree of the package asked for.
LEMMA StoredType ==
  ASSUME NEW store \in [Pkg -> [Meaning -> Label]],
         NEW p \in Pkg, NEW m \in Meaning
  PROVE  Stored(store, p, m) \in Tree \cup {NoTree}
<1>1. store[p][m] \in Label
  OBVIOUS
<1> QED BY <1>1, ReleasedType DEF Stored

LEMMA StoredIsTree ==
  ASSUME NEW store \in [Pkg -> [Meaning -> Label]],
         NEW p \in Pkg, NEW m \in Meaning, store[p][m] # 0
  PROVE  Stored(store, p, m) \in Tree
<1>1. store[p][m] \in Label
  OBVIOUS
<1> QED BY <1>1, ReleasedType DEF Stored

LEMMA UnderPinType ==
  ASSUME NEW store \in [Pkg -> [Meaning -> Label]], NEW p \in Pkg, NEW c
  PROVE  UnderPin(store, p, c) \in Tree \cup {NoTree}
<1>1. CASE c.engine = 1 /\ c.meaning \in Meaning
  BY <1>1, StoredType DEF UnderPin
<1>2. CASE ~(c.engine = 1 /\ c.meaning \in Meaning)
  BY <1>2 DEF UnderPin
<1> QED BY <1>1, <1>2

LEMMA UsableNames ==
  ASSUME NEW k \in Key, Usable(k)
  PROVE  Names[k] \in Pkg
BY PkgAssumption DEF Usable

LEMMA HeldTreeType ==
  ASSUME NEW k \in Key, Usable(k), NEW c, NEW v \in Label,
         NEW vendor \in [Key -> Tree \cup {NoTree}],
         NEW store \in [Pkg -> [Meaning -> Label]], NEW down
  PROVE  HeldTree(k, c, v, vendor, store, down) \in Tree \cup {NoTree}
<1>1. Names[k] \in Pkg
  BY UsableNames
<1>2. UnderPin(store, Names[k], c) \in Tree \cup {NoTree}
  BY <1>1, UnderPinType
<1>3. MeaningOf[Names[k]][v] \in Meaning
  BY <1>1, WorldAssumption
<1>4. Stored(store, Names[k], MeaningOf[Names[k]][v]) \in Tree \cup {NoTree}
  BY <1>1, <1>3, StoredType
<1>5. vendor[k] \in Tree \cup {NoTree}
  OBVIOUS
<1> QED BY <1>2, <1>4, <1>5 DEF HeldTree

\* What is vendored is what the stores offer, whatever the pins say.
LEMMA VendoredIsHeld ==
  ASSUME NEW k, NEW c, NEW v, NEW vendor, NEW store, NEW down,
         vendor[k] # NoTree
  PROVE  HeldTree(k, c, v, vendor, store, down) = vendor[k]
BY DEF HeldTree
=============================================================================
