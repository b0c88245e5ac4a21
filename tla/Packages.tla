------------------------------ MODULE Packages ------------------------------
(***************************************************************************)
(* The data of the package tooling (ts/src/pkg.ts, ts/src/mod.ts): the     *)
(* keys a `dep` block may hold, the trees a store may hold, the pins a     *)
(* lock entry carries, and the pure questions the verbs ask of them.       *)
(*                                                                         *)
(* A version is a number, so versionCompare is <=; 0 is "no version": a    *)
(* dep block is a function from every key to a version, 0 where the key is *)
(* absent.  A tree is the release it was copied from and what happened to  *)
(* its bytes since; a digest of it is that record, since digests do not    *)
(* collide.                                                                *)
(***************************************************************************)
EXTENDS Integers, FiniteSets

CONSTANTS
  Key,          \* the keys of a dep block: package paths and aliases
  Rank,         \* the byte order of the keys (cmpBytes)
  Pkg,          \* the packages
  Names,        \* the package a key names; "" when the key is unusable
  MaxVersion,
  Meaning,      \* what a module may mean, as a canon-hash tells it
  DepsOf,       \* DepsOf[p][v]: the dep block of the release p v
  MeaningOf     \* MeaningOf[p][v]: the meaning its manifest pins

Version == 1 .. MaxVersion
Label   == 0 .. MaxVersion
Bids    == [Key -> Label]

ASSUME KeyAssumption ==
  /\ IsFiniteSet(Key)
  /\ Rank \in [Key -> Nat]
  /\ \A j, k \in Key : Rank[j] = Rank[k] => j = k

ASSUME PkgAssumption ==
  /\ "" \notin Pkg
  /\ Names \in [Key -> Pkg \cup {""}]

ASSUME WorldAssumption ==
  /\ MaxVersion \in Nat \ {0}
  /\ "edited" \notin Meaning
  /\ DepsOf \in [Pkg -> [Label -> Bids]]
  /\ MeaningOf \in [Pkg -> [Label -> Meaning]]

(***************************************************************************)
(* Trees.  v is the release the tree was copied from (0, for the version   *)
(* "": a copy put there by hand).  bytes: as released; partial, when a     *)
(* file that nothing imports is missing; cut, when the package file is cut *)
(* short and says nothing; edited to something else that evaluates; broken *)
(* when its main file evaluates to an error; mainless when it has none.    *)
(* manifest: whether the served manifest is kept beside the tree, which    *)
(* every acquired tree has and no hand copy has.                           *)
(***************************************************************************)
Damages == {"partial", "cut", "edited", "broken", "mainless"}

Tree == [pkg : Pkg, v : Label, bytes : Damages \cup {"released"}, manifest : BOOLEAN]

NoTree == [pkg |-> "", v |-> 0, bytes |-> "absent", manifest |-> FALSE]

Released(p, v) == [pkg |-> p, v |-> v, bytes |-> "released", manifest |-> TRUE]

NoBids == [k \in Key |-> 0]

\* What a tree's package file says of itself (packageSelf) and of others
\* (declaredDeps): a file that is missing or cut short says nothing.
Said(t) == IF t.bytes = "cut" THEN 0 ELSE t.v

Deps(t) == IF t = NoTree \/ t.bytes = "cut" THEN NoBids ELSE DepsOf[t.pkg][t.v]

\* A tree that a store offers, as it has its package file, and that has lost
\* its main file: existsSync(main) fails.
Mainless(t) == t.bytes = "mainless"

\* MVS takes the highest of the minima asked for.
Raise(have, want) == [k \in Key |-> IF have[k] < want[k] THEN want[k] ELSE have[k]]

Asked(bids) == {k \in Key : bids[k] # 0}

Usable(k) == Names[k] # ""

\* The first of the keys in byte order: at most one, as ranks differ.
First(keys) == {k \in keys : \A j \in keys : Rank[k] <= Rank[j]}

(***************************************************************************)
(* Lock entries.                                                           *)
(***************************************************************************)
NoCanon == [meaning |-> "", engine |-> 0]
Canon   == [meaning : Meaning \cup {"edited"}, engine : Nat] \cup {NoCanon}
Entry   == [v : Version, canon : Canon, tree : Tree]
NoEntry == [v |-> 0, canon |-> NoCanon, tree |-> NoTree]
NoLock  == [k \in Key |-> NoEntry]

\* The canon-hash of a tree's main file under an engine, and the empty one
\* where there is no main file.  What a package's imports add to its meaning
\* is abstracted: a hash tells releases apart.
CanonOf(t, engine) ==
  IF Mainless(t) THEN NoCanon
  ELSE [meaning |-> IF t.bytes \in {"released", "partial", "cut"}
                      THEN MeaningOf[t.pkg][t.v] ELSE "edited",
        engine |-> engine]

\* Mutant of Pin: the version the tree's own package file says.
PinOwnVersion(t, v, engine) ==
  [v |-> Said(t), canon |-> CanonOf(t, engine), tree |-> t]

\* pinTree: the version as SELECTED, the rest from the tree as it stands.
\* Nothing is evaluated where there is no main file, and the pin is empty.
Pin(t, v, engine) == [v |-> v, canon |-> CanonOf(t, engine), tree |-> t]

\* archiveOf digests the sources, storedManifest the manifest beside them.
SameArchive(t, u) == t.pkg = u.pkg /\ t.v = u.v /\ t.bytes = u.bytes

\* pkgVerify of one entry against the tree the stores hold: bytes (the
\* archive pin, then the manifest pin and every file the tree has), before
\* meaning.
BytesHold(e, t) ==
  /\ t.bytes # "broken"
  /\ SameArchive(e.tree, t)
  /\ IF t.manifest THEN t.bytes \notin {"edited", "cut"} ELSE ~e.tree.manifest

(***************************************************************************)
(* The local stores: the vendor tree, then the cache.  The cache files a   *)
(* tree under its package and the canon it was served with, and a served   *)
(* manifest under its package and version.                                 *)
(***************************************************************************)
Stored(store, p, m) == IF store[p][m] = 0 THEN NoTree ELSE Released(p, store[p][m])

\* Releases are pinned by the engine that published them, 1.
UnderPin(store, p, canon) ==
  IF canon.engine = 1 /\ canon.meaning \in Meaning
    THEN Stored(store, p, canon.meaning) ELSE NoTree

\* storeDir: vendor whatever its version, then the cache under the locked
\* canon, then under the canon of the manifest downloaded for the version.
HeldTree(k, canon, v, vendor, store, down) ==
  LET p      == Names[k]
      pinned == UnderPin(store, p, canon)
  IN IF vendor[k] # NoTree THEN vendor[k]
     ELSE IF pinned # NoTree THEN pinned
     ELSE IF <<p, v>> \in down THEN Stored(store, p, MeaningOf[p][v])
     ELSE NoTree

(***************************************************************************)
(* Standalone evaluation of a vendored tree.  Its imports resolve through  *)
(* the project: vendor first, checked against the canon the project's      *)
(* LOCK pins at that moment, else the cache under that pin (resolveModule).*)
(* A cached tree keeps the lock it was acquired with and stands alone.     *)
(***************************************************************************)
\* The imports of its main file, whatever became of its package file.
ImportsOf(t) == IF t = NoTree THEN {} ELSE Asked(DepsOf[t.pkg][t.v])

\* What evaluates: neither an error nor nothing at all.
Meaningful(t) == t.bytes \notin {"broken", "mainless"}

\* What resolveModule finds for an import of d.
Resolved(d, lock, vendor, store) ==
  IF vendor[d] # NoTree THEN vendor[d]
  ELSE IF lock[d] # NoEntry /\ Usable(d)
         THEN UnderPin(store, Names[d], lock[d].canon) ELSE NoTree

ImportHolds(d, lock, vendor, store, engine) ==
  LET t == Resolved(d, lock, vendor, store)
  IN /\ Usable(d)
     /\ t # NoTree
     /\ Meaningful(t)
     /\ lock[d] # NoEntry => CanonOf(t, engine) = lock[d].canon

\* The imports beneath k, through vendored trees, at any depth: what every
\* set of keys has that holds k's imports and those of its members.
ImportClosure(k, vendor) ==
  {d \in Key : \A keys \in SUBSET Key :
     (ImportsOf(vendor[k]) \cup UNION {ImportsOf(vendor[e]) : e \in keys}) \subseteq keys
       => d \in keys}

\* options.eval of the tree t found for k, `ok`.  A cached tree evaluates
\* against its own lock, whose pins are the publishing engine's.
Evaluates(k, t, lock, vendor, store, engine) ==
  /\ Meaningful(t)
  /\ IF t = vendor[k]
       THEN \A d \in ImportClosure(k, vendor) :
              ImportHolds(d, lock, vendor, store, engine)
       ELSE engine = 1 \/ ImportsOf(t) = {}
=============================================================================
