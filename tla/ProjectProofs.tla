---------------------------- MODULE ProjectProofs ----------------------------
(***************************************************************************)
(* Theorems about the project and its verbs, for every key set, package    *)
(* graph, verb set and fault set.                                          *)
(***************************************************************************)
EXTENDS Project, PackagesProofs

(***************************************************************************)
(* Type correctness.                                                       *)
(***************************************************************************)

LEMMA EmptyTypes ==
  /\ NoBids \in Bids
  /\ [k \in Key |-> NoDir] \in [Key -> Dir]
  /\ NoLock \in [Key -> Entry \cup {NoEntry}]
  /\ NoVendor \in [Key -> Tree \cup {NoTree}]
  /\ EmptyStore \in [Pkg -> [Meaning -> Label]]
<1>1. NoDir \in Dir
  BY DEF Dir
<1> QED BY <1>1, LabelFacts DEF NoLock, NoVendor, EmptyStore

LEMMA DirTypes ==
  /\ InVendor \in Dir
  /\ \A p \in Pkg : \A v \in Label : InStore(p, v) \in Dir
<1>1. InVendor \in Dir
  BY DEF Dir
<1>2. ASSUME NEW p \in Pkg, NEW v \in Label
      PROVE  InStore(p, v) \in Dir
  BY WorldAssumption DEF InStore, Dir
<1> QED BY <1>1, <1>2

LEMMA DirFields ==
  /\ NoDir.at = "" /\ InVendor.at = "vendor"
  /\ \A p \in Pkg : \A v \in Label :
       /\ InStore(p, v).at = "store"
       /\ InStore(p, v).meaning = MeaningOf[p][v]
BY DEF NoDir, InVendor, InStore

LEMMA StoreDirMeaning ==
  ASSUME NEW dir \in Dir, dir.at = "store"
  PROVE  dir.meaning \in Meaning
<1>1. dir # NoDir
  BY DirFields
<1>2. dir # InVendor
  BY DirFields
<1>3. dir \in [at : {"store"}, meaning : Meaning]
  BY <1>1, <1>2 DEF Dir
<1> QED BY <1>3

\* What a step leaves alone keeps its type.
LEMMA SameTypes ==
  /\ ProjectTypeOK /\ UNCHANGED project => ProjectTypeOK'
  /\ CacheTypeOK /\ UNCHANGED cache => CacheTypeOK'
  /\ WorldTypeOK /\ UNCHANGED world => WorldTypeOK'
  /\ ControlTypeOK /\ UNCHANGED control => ControlTypeOK'
  /\ SyncTypeOK /\ UNCHANGED syncing => SyncTypeOK'
  /\ ResolveTypeOK /\ UNCHANGED resolving => ResolveTypeOK'
  /\ HistoryTypeOK /\ UNCHANGED history => HistoryTypeOK'
<1>1. ProjectTypeOK /\ UNCHANGED project => ProjectTypeOK'
  BY DEF ProjectTypeOK, project
<1>2. CacheTypeOK /\ UNCHANGED cache => CacheTypeOK'
  BY DEF CacheTypeOK, cache
<1>3. WorldTypeOK /\ UNCHANGED world => WorldTypeOK'
  BY DEF WorldTypeOK, world
<1>4. ControlTypeOK /\ UNCHANGED control => ControlTypeOK'
  BY DEF ControlTypeOK, control
<1>5. SyncTypeOK /\ UNCHANGED syncing => SyncTypeOK'
  BY DEF SyncTypeOK, syncing
<1>6. ResolveTypeOK /\ UNCHANGED resolving => ResolveTypeOK'
  BY DEF ResolveTypeOK, resolving
<1>7. HistoryTypeOK /\ UNCHANGED history => HistoryTypeOK'
  BY DEF HistoryTypeOK, history
<1> QED BY <1>1, <1>2, <1>3, <1>4, <1>5, <1>6, <1>7

LEMMA NowType ==
  /\ ProjectTypeOK => Now \in Snapshot
  /\ ProjectTypeOK' => Now' \in Snapshot
BY DEF ProjectTypeOK, Now, Snapshot

LEMMA ClearedTypes == Cleared => SyncTypeOK' /\ ResolveTypeOK'
BY EmptyTypes DEF Cleared, SyncTypeOK, ResolveTypeOK

LEMMA FinishTypes ==
  ASSUME TypeOK, NEW v \in Verdicts, Finish(v)
  PROVE  ControlTypeOK' /\ SyncTypeOK' /\ ResolveTypeOK' /\ HistoryTypeOK'
<1>1. ControlTypeOK'
  BY DEF TypeOK, ControlTypeOK, Finish, Steps
<1> QED BY <1>1, ClearedTypes, SameTypes DEF Finish, TypeOK

LEMMA BeginTypes ==
  ASSUME TypeOK, NEW m \in Modes, NEW step \in Steps, Begin(m, step)
  PROVE  ControlTypeOK' /\ HistoryTypeOK'
<1>1. ControlTypeOK'
  BY DEF Begin, ControlTypeOK, Verdicts
<1>2. HistoryTypeOK'
  BY NowType DEF TypeOK, Begin, Synced, HistoryTypeOK
<1> QED BY <1>1, <1>2

LEMMA BiddingTypes ==
  ASSUME TypeOK, NEW root \in Bids, Bidding(root)
  PROVE  SyncTypeOK' /\ ResolveTypeOK'
<1>1. SyncTypeOK'
  BY EmptyTypes DEF Bidding, SyncTypeOK, Asked
<1> QED BY <1>1, SameTypes DEF Bidding, TypeOK

LEMMA EditingTypes ==
  ASSUME TypeOK, NEW new \in Bids, Editing(new)
  PROVE  SyncTypeOK' /\ ResolveTypeOK'
<1>1. SyncTypeOK'
  BY EmptyTypes DEF Editing, SyncTypeOK
<1> QED BY <1>1, SameTypes DEF Editing, TypeOK

LEMMA ResolvingTypes ==
  ASSUME TypeOK, Resolving
  PROVE  ResolveTypeOK'
BY EmptyTypes DEF TypeOK, ProjectTypeOK, Resolving, ResolveTypeOK

LEMMA InitTypes == Init => TypeOK
<1> SUFFICES ASSUME Init PROVE TypeOK
  OBVIOUS
<1>1. ProjectTypeOK
  BY EmptyTypes, ProjectAssumption DEF Init, ProjectTypeOK
<1>2. CacheTypeOK /\ WorldTypeOK
  BY EmptyTypes, ProjectAssumption DEF Init, CacheTypeOK, WorldTypeOK
<1>3. ControlTypeOK
  BY DEF Init, ControlTypeOK, Steps, Modes, Syncs, Verdicts
<1>4. SyncTypeOK /\ ResolveTypeOK
  BY EmptyTypes DEF Init, SyncTypeOK, ResolveTypeOK
<1>5. HistoryTypeOK
  BY <1>1, NowType DEF Init, HistoryTypeOK
<1> QED BY <1>1, <1>2, <1>3, <1>4, <1>5 DEF TypeOK

\* The trees the verbs read, and what reading them bids.
LEMMA TreeTypes ==
  ASSUME TypeOK, NEW k \in Key, Usable(k), NEW v \in Label
  PROVE  LocalTree(k, v) \in Tree \cup {NoTree}
BY HeldTreeType DEF TypeOK, ProjectTypeOK, CacheTypeOK, LocalTree

LEMMA TreeInType ==
  ASSUME TypeOK, TreesFound, NEW k \in Key, dirs[k].at # "vendor" => dirs[k].at = "store"
  PROVE  TreeIn(k, dirs[k]) \in Tree \cup {NoTree}
<1>1. CASE dirs[k].at = "vendor"
  BY <1>1 DEF TypeOK, ProjectTypeOK, TreeIn
<1>2. CASE dirs[k].at = "store"
  <2>1. Names[k] \in Pkg
    BY <1>2, UsableNames DEF TreesFound, DirsFound
  <2>2. dirs[k].meaning \in Meaning
    BY <1>2, StoreDirMeaning DEF TypeOK, SyncTypeOK
  <2> QED BY <1>2, <2>1, <2>2, StoredType DEF TypeOK, CacheTypeOK, TreeIn
<1> QED BY <1>1, <1>2

LEMMA HeldAtTypes ==
  ASSUME TypeOK, NEW k \in Key, Usable(k), NEW v \in Label, HeldAt(k, v) # NoDir
  PROVE  /\ HeldAt(k, v) \in Dir
         /\ TreeIn(k, HeldAt(k, v)) \in Tree
<1>1. Names[k] \in Pkg /\ MeaningOf[Names[k]][v] \in Meaning
  BY UsableNames, WorldAssumption
<1>2. CASE HeldAt(k, v) = InVendor /\ vendor[k] # NoTree
  <2>1. TreeIn(k, HeldAt(k, v)) = vendor[k]
    BY <1>2, DirFields DEF TreeIn
  <2>2. vendor[k] \in Tree
    BY <1>2 DEF TypeOK, ProjectTypeOK
  <2> QED BY <1>2, <2>1, <2>2, DirTypes
<1>3. CASE HeldAt(k, v) = InStore(Names[k], v) /\ store[Names[k]][MeaningOf[Names[k]][v]] # 0
  <2>1. TreeIn(k, HeldAt(k, v)) = Stored(store, Names[k], MeaningOf[Names[k]][v])
    <3>1. /\ HeldAt(k, v).at = "store"
          /\ HeldAt(k, v).meaning = MeaningOf[Names[k]][v]
      BY <1>1, <1>3, DirFields
    <3> QED BY <3>1 DEF TreeIn
  <2> QED BY <1>1, <1>3, <2>1, StoredIsTree, DirTypes DEF TypeOK, CacheTypeOK
<1> QED BY <1>2, <1>3 DEF HeldAt

LEMMA ReadTypes ==
  ASSUME TypeOK, NEW k \in Key, NEW dir \in Dir, NEW t \in Tree, Read(k, dir, t)
  PROVE  /\ selected' \in Bids /\ pending' \in SUBSET Key /\ dirs' \in [Key -> Dir]
         /\ \A d \in Key : selected[d] <= selected'[d]
<1>1. Deps(t) \in Bids /\ selected \in Bids
  BY DepsType DEF TypeOK, SyncTypeOK
<1>2. /\ Raise(selected, Deps(t)) \in Bids
      /\ \A d \in Key : selected[d] <= Raise(selected, Deps(t))[d]
  BY <1>1, RaiseFacts
<1> QED BY <1>1, <1>2 DEF Read, TypeOK, SyncTypeOK

(***************************************************************************)
(* One lemma per action.                                                   *)
(***************************************************************************)
LEMMA SyncStep ==
  ASSUME TypeOK, NEW frozen \in BOOLEAN, Sync(frozen)
  PROVE  TypeOK'
<1>1. (IF frozen THEN "frozen" ELSE "sync") \in Modes /\ "bid" \in Steps
  BY DEF Modes, Syncs, Steps
<1>2. ControlTypeOK' /\ HistoryTypeOK'
  BY <1>1, BeginTypes DEF Sync
<1>3. SyncTypeOK' /\ ResolveTypeOK'
  BY BiddingTypes DEF Sync, TypeOK, ProjectTypeOK
<1> QED BY <1>2, <1>3, SameTypes DEF Sync, TypeOK

LEMMA GetStep ==
  ASSUME TypeOK, NEW k \in Key, NEW v \in Version, Get(k, v)
  PROVE  TypeOK'
<1>1. "get" \in Modes /\ "edit" \in Steps
  BY DEF Modes, Syncs, Changes, Steps
<1>2. ControlTypeOK' /\ HistoryTypeOK'
  BY <1>1, BeginTypes DEF Get
<1>3. (IF declared[k] < v THEN [declared EXCEPT ![k] = v] ELSE declared) \in Bids
  BY LabelFacts DEF TypeOK, ProjectTypeOK, Bids
<1>4. SyncTypeOK' /\ ResolveTypeOK'
  BY <1>3, EditingTypes DEF Get
<1> QED BY <1>2, <1>4, SameTypes DEF Get, TypeOK

LEMMA RemoveStep ==
  ASSUME TypeOK, NEW k \in Key, Remove(k)
  PROVE  TypeOK'
<1>1. "remove" \in Modes /\ "edit" \in Steps
  BY DEF Modes, Syncs, Changes, Steps
<1>2. ControlTypeOK' /\ HistoryTypeOK'
  BY <1>1, BeginTypes DEF Remove
<1>3. [declared EXCEPT ![k] = 0] \in Bids
  BY LabelFacts DEF TypeOK, ProjectTypeOK, Bids
<1>4. SyncTypeOK' /\ ResolveTypeOK'
  BY <1>3, EditingTypes DEF Remove
<1> QED BY <1>2, <1>4, SameTypes DEF Remove, TypeOK

LEMMA TidyStep ==
  ASSUME TypeOK, Tidy
  PROVE  TypeOK'
<1>1. "tidy" \in Modes /\ "resolve" \in Steps
  BY DEF Modes, Steps
<1> QED BY <1>1, BeginTypes, ResolvingTypes, SameTypes DEF Tidy, TypeOK

LEMMA VendorStep ==
  ASSUME TypeOK, Vendor
  PROVE  TypeOK'
<1>1. "vendor" \in Modes /\ "vendoring" \in Steps
  BY DEF Modes, Steps
<1>2. SyncTypeOK'
  BY DEF Vendor, TypeOK, SyncTypeOK, Locked
<1> QED BY <1>1, <1>2, BeginTypes, SameTypes DEF Vendor, TypeOK

LEMMA RefreezeStep ==
  ASSUME TypeOK, Refreeze
  PROVE  TypeOK'
<1>1. "refreeze" \in Modes /\ "repin" \in Steps
  BY DEF Modes, Steps
<1> QED BY <1>1, BeginTypes, SameTypes DEF Refreeze, TypeOK

LEMMA EditPackageFileStep ==
  ASSUME TypeOK, EditPackageFile
  PROVE  TypeOK'
<1>1. selected \in Bids
  BY DEF TypeOK, SyncTypeOK
<1>2. ProjectTypeOK' /\ ControlTypeOK'
  BY <1>1 DEF EditPackageFile, TypeOK, ProjectTypeOK, ControlTypeOK, Steps
<1> QED BY <1>1, <1>2, BiddingTypes, SameTypes DEF EditPackageFile, TypeOK
LEMMA BidUnusableStep ==
  ASSUME TypeOK, BidUnusable
  PROVE  TypeOK'
<1>1. SyncTypeOK'
  BY DEF BidUnusable, TypeOK, SyncTypeOK, First, Bad
<1> QED BY <1>1, SameTypes DEF BidUnusable, TypeOK

LEMMA BidHeldStep ==
  ASSUME TypeOK, BidHeld
  PROVE  TypeOK' /\ \A d \in Key : selected[d] <= selected'[d]
<1>1. PICK k \in First(Held) :
        Read(k, HeldAt(k, selected[k]), TreeIn(k, HeldAt(k, selected[k])))
  BY DEF BidHeld
<1>2. k \in Key /\ Usable(k) /\ HeldAt(k, selected[k]) # NoDir /\ selected[k] \in Label
  BY DEF First, Held, TypeOK, SyncTypeOK, Bids
<1>3. HeldAt(k, selected[k]) \in Dir /\ TreeIn(k, HeldAt(k, selected[k])) \in Tree
  BY <1>2, HeldAtTypes
<1>4. /\ selected' \in Bids /\ pending' \in SUBSET Key /\ dirs' \in [Key -> Dir]
      /\ \A d \in Key : selected[d] <= selected'[d]
  BY <1>1, <1>2, <1>3, ReadTypes
<1>5. SyncTypeOK'
  BY <1>4 DEF BidHeld, TypeOK, SyncTypeOK
<1> QED BY <1>4, <1>5, SameTypes DEF BidHeld, TypeOK

\* Filing a set of releases fills their places and empties none.
LEMMA FiledTypes ==
  ASSUME TypeOK, NEW last \in SUBSET Release
  PROVE  /\ Filed(last) \in [Pkg -> [Meaning -> Label]]
         /\ \A p \in Pkg : \A m \in Meaning :
              store[p][m] # 0 => Filed(last)[p][m] # 0
         /\ \A r \in last : Filed(last)[r[1]][MeaningOf[r[1]][r[2]]] # 0
<1> DEFINE At(p, m) == {r \in last : r[1] = p /\ MeaningOf[p][r[2]] = m}
<1>1. \A r \in last : r[1] \in Pkg /\ r[2] \in Version /\ MeaningOf[r[1]][r[2]] \in Meaning
  BY LabelFacts, WorldAssumption DEF Release
<1>2. ASSUME NEW p \in Pkg, NEW m \in Meaning
      PROVE  /\ Filed(last)[p][m] \in Label
             /\ At(p, m) # {} => Filed(last)[p][m] # 0
             /\ store[p][m] # 0 => Filed(last)[p][m] # 0
  <2> DEFINE f == (CHOOSE r \in last : r[1] = p /\ MeaningOf[p][r[2]] = m)[2]
  <2>1. Filed(last)[p][m] = IF At(p, m) # {} THEN f ELSE store[p][m]
    BY DEF Filed
  <2>2. At(p, m) # {} => f \in Version
    BY <1>1
  <2>3. store[p][m] \in Label
    BY DEF TypeOK, CacheTypeOK
  <2>4. 0 \notin Version /\ Version \subseteq Label
    BY LabelFacts DEF Version
  <2> HIDE DEF f, At
  <2> QED BY <2>1, <2>2, <2>3, <2>4
<1>3. Filed(last) \in [Pkg -> [Meaning -> Label]]
  BY <1>2 DEF Filed
<1>4. ASSUME NEW r \in last
      PROVE  Filed(last)[r[1]][MeaningOf[r[1]][r[2]]] # 0
  <2>1. r \in At(r[1], MeaningOf[r[1]][r[2]])
    OBVIOUS
  <2> HIDE DEF At
  <2> QED BY <1>1, <1>2, <2>1
<1> HIDE DEF At
<1> QED BY <1>2, <1>3, <1>4

LEMMA BidAcquireStep ==
  ASSUME TypeOK, BidAcquire
  PROVE  /\ TypeOK'
         /\ \A d \in Key : selected[d] <= selected'[d]
         /\ \A p \in Pkg : \A m \in Meaning : store[p][m] # 0 => store'[p][m] # 0
         /\ \E k \in Key : \E v \in Label :
              /\ Usable(k) /\ dirs' = [dirs EXCEPT ![k] = InStore(Names[k], v)]
              /\ store'[Names[k]][MeaningOf[Names[k]][v]] # 0
<1>1. PICK k \in First(Fetchable) :
        LET r    == <<Names[k], selected[k]>>
            rels == AcquireClosure(r).all \ acquired
        IN /\ Acquirable(r)
           /\ \E last \in SUBSET rels :
                /\ r \in last /\ FiledBy(rels, last)
                /\ store' = Filed(last)
           /\ down' = down \cup rels
           /\ acquired' = acquired \cup rels
           /\ Read(k, InStore(r[1], r[2]), Released(r[1], r[2]))
  BY DEF BidAcquire
<1> DEFINE r    == <<Names[k], selected[k]>>
           rels == AcquireClosure(r).all \ acquired
<1>2. k \in Key /\ selected[k] \in Label /\ k \in pending
  BY DEF First, Fetchable, TypeOK, SyncTypeOK, Bids
<1>3. Usable(k) /\ Names[k] \in Pkg
  BY <1>2, UsableNames DEF BidAcquire, Fetching, Bad
<1>4. rels \subseteq Release
  BY <1>1 DEF Acquirable, TypeOK, WorldTypeOK
<1>5. PICK last \in SUBSET rels : r \in last /\ store' = Filed(last)
  BY <1>1
<1>6. last \in SUBSET Release
  BY <1>4, <1>5
<1>7. /\ store' \in [Pkg -> [Meaning -> Label]]
      /\ \A p \in Pkg : \A m \in Meaning : store[p][m] # 0 => store'[p][m] # 0
      /\ store'[Names[k]][MeaningOf[Names[k]][selected[k]]] # 0
  BY <1>5, <1>6, FiledTypes
<1>8. CacheTypeOK'
  BY <1>1, <1>4, <1>7 DEF TypeOK, CacheTypeOK
<1>9. Read(k, InStore(Names[k], selected[k]), Released(Names[k], selected[k]))
  BY <1>1
<1>10. /\ InStore(Names[k], selected[k]) \in Dir
       /\ Released(Names[k], selected[k]) \in Tree
  BY <1>2, <1>3, DirTypes, ReleasedType
<1>11. /\ selected' \in Bids /\ pending' \in SUBSET Key /\ dirs' \in [Key -> Dir]
       /\ \A d \in Key : selected[d] <= selected'[d]
  BY <1>2, <1>9, <1>10, ReadTypes
<1>12. acquired' \in SUBSET Release
  BY <1>1, <1>4 DEF TypeOK, SyncTypeOK
<1>13. SyncTypeOK'
  BY <1>11, <1>12 DEF BidAcquire, TypeOK, SyncTypeOK
<1>14. TypeOK'
  BY <1>8, <1>13, SameTypes DEF BidAcquire, TypeOK
<1>15. dirs' = [dirs EXCEPT ![k] = InStore(Names[k], selected[k])]
  BY <1>9 DEF Read
<1> QED BY <1>2, <1>3, <1>7, <1>11, <1>14, <1>15

LEMMA BidRefusedStep ==
  ASSUME TypeOK, BidRefused
  PROVE  TypeOK'
<1>1. PICK rels \in SUBSET listed : \E last \in SUBSET rels :
        store' = Filed(last) /\ down' = down \cup rels
  BY DEF BidRefused
<1>2. PICK last \in SUBSET rels : store' = Filed(last) /\ down' = down \cup rels
  BY <1>1
<1>3. last \in SUBSET Release /\ rels \in SUBSET Release
  BY <1>1, <1>2 DEF TypeOK, WorldTypeOK
<1>4. store' \in [Pkg -> [Meaning -> Label]]
  BY <1>2, <1>3, FiledTypes
<1>5. CacheTypeOK'
  BY <1>2, <1>3, <1>4 DEF TypeOK, CacheTypeOK
<1>6. "refused" \in Verdicts
  BY DEF Verdicts
<1> QED BY <1>5, <1>6, FinishTypes, SameTypes DEF BidRefused, TypeOK

LEMMA BidEndSteps ==
  ASSUME TypeOK, ConfigRefused \/ BidFrozen \/ BidDone
  PROVE  TypeOK'
<1>1. CASE ConfigRefused \/ BidFrozen
  BY <1>1, FinishTypes, SameTypes DEF ConfigRefused, BidFrozen, TypeOK, Verdicts
<1>2. CASE BidDone
  <2>1. ControlTypeOK'
    BY <1>2 DEF BidDone, TypeOK, ControlTypeOK, Steps
  <2> QED BY <1>2, <2>1, SameTypes DEF BidDone, TypeOK
<1> QED BY <1>1, <1>2
LEMMA CopySteps ==
  ASSUME TypeOK, TreesFound, Copy \/ CopyDone
  PROVE  TypeOK'
<1>1. CASE Copy
  <2>1. PICK k \in First(ToCopy) : /\ vendor' = [vendor EXCEPT ![k] = TreeIn(k, dirs[k])]
                                   /\ dirs' = [dirs EXCEPT ![k] = InVendor]
    BY <1>1 DEF Copy
  <2>2. k \in Key /\ dirs[k].at = "store"
    BY DEF First, ToCopy
  <2>3. TreeIn(k, dirs[k]) \in Tree \cup {NoTree}
    BY <2>2, TreeInType
  <2>4. ProjectTypeOK'
    BY <1>1, <2>1, <2>2, <2>3 DEF Copy, TypeOK, ProjectTypeOK
  <2>5. SyncTypeOK'
    BY <1>1, <2>1, DirTypes DEF Copy, TypeOK, SyncTypeOK
  <2> QED BY <1>1, <2>4, <2>5, SameTypes DEF Copy, TypeOK
<1>2. CASE CopyDone
  <2>1. ControlTypeOK'
    BY <1>2 DEF CopyDone, TypeOK, ControlTypeOK, Steps
  <2> QED BY <1>2, <2>1, ResolvingTypes, SameTypes DEF CopyDone, TypeOK
<1> QED BY <1>1, <1>2

LEMMA RoundStep ==
  ASSUME TypeOK, Round
  PROVE  TypeOK' /\ rsel' = Raise(rsel, frontier)
<1>1. rsel' = Raise(rsel, frontier) /\ frontier' \in Bids
      /\ rmissing' \subseteq rmissing \cup Raised
  BY DEF Round
<1>2. rsel' \in Bids
  BY <1>1, RaiseFacts DEF TypeOK, ResolveTypeOK
<1>3. ResolveTypeOK'
  BY <1>1, <1>2 DEF Round, TypeOK, ResolveTypeOK, Raised
<1> QED BY <1>1, <1>3, SameTypes DEF Round, TypeOK

\* What pkgResolve pins: the tree found, at the version selected.
LEMMA PinnedTypes ==
  ASSUME TypeOK, TreesFound, ResolveDone
  PROVE  /\ newlock' \in [Key -> Entry \cup {NoEntry}]
         /\ \A k \in Key : newlock'[k] # NoEntry =>
              /\ k \in Asked(rsel) \ (rmissing \cup Unevaluable)
              /\ Usable(k)
              /\ newlock'[k] = Pin(LocalTree(k, rsel[k]), rsel[k], engine)
<1>1. newlock' = [k \in Key |->
         IF k \in Asked(rsel) \ (rmissing \cup Unevaluable)
           THEN Pin(LocalTree(k, rsel[k]), rsel[k], engine) ELSE NoEntry]
  BY DEF ResolveDone
<1>2. ASSUME NEW k \in Asked(rsel) \ (rmissing \cup Unevaluable)
      PROVE  Usable(k) /\ Pin(LocalTree(k, rsel[k]), rsel[k], engine) \in Entry
  <2>1. k \in Key /\ rsel[k] \in Version /\ rsel[k] \in Label
    BY LabelFacts DEF Asked, TypeOK, ResolveTypeOK, Bids
  <2>2. Usable(k) /\ LocalTree(k, rsel[k]) # NoTree
    BY DEF TreesFound, SelectionFound, ResolveDone
  <2>3. LocalTree(k, rsel[k]) \in Tree
    BY <2>1, <2>2, TreeTypes
  <2>4. engine \in Nat
    BY ProjectAssumption DEF TypeOK, WorldTypeOK
  <2> QED BY <2>1, <2>2, <2>3, <2>4, PinType
<1> QED BY <1>1, <1>2

LEMMA ResolveDoneStep ==
  ASSUME TypeOK, TreesFound, ResolveDone
  PROVE  TypeOK'
<1>1. ResolveTypeOK'
  BY PinnedTypes DEF ResolveDone, TypeOK, ResolveTypeOK
<1>2. ControlTypeOK'
  BY DEF ResolveDone, TypeOK, ControlTypeOK, Steps
<1> QED BY <1>1, <1>2, SameTypes DEF ResolveDone, TypeOK

LEMMA PinSteps ==
  ASSUME TypeOK, Unwritable \/ Writable
  PROVE  TypeOK'
<1>1. CASE Unwritable
  <2>1. "frozen" \in Verdicts /\ ResolveVerdict \in Verdicts
    BY DEF Verdicts, ResolveVerdict
  <2> QED BY <1>1, <2>1, FinishTypes, SameTypes DEF Unwritable, TypeOK
<1>2. CASE Writable
  <2>1. ControlTypeOK'
    BY <1>2 DEF Writable, TypeOK, ControlTypeOK, Steps
  <2> QED BY <1>2, <2>1, SameTypes DEF Writable, TypeOK
<1> QED BY <1>1, <1>2

LEMMA WriteSteps ==
  ASSUME TypeOK, Prune \/ PruneDone \/ WriteLock \/ Verify
  PROVE  TypeOK'
<1>1. CASE Prune
  <2>1. ProjectTypeOK'
    BY <1>1 DEF Prune, TypeOK, ProjectTypeOK
  <2> QED BY <1>1, <2>1, SameTypes DEF Prune, TypeOK
<1>2. CASE PruneDone
  <2>1. ControlTypeOK'
    BY <1>2 DEF PruneDone, TypeOK, ControlTypeOK, Steps
  <2> QED BY <1>2, <2>1, SameTypes DEF PruneDone, TypeOK
<1>3. CASE WriteLock
  <2>1. ProjectTypeOK'
    BY <1>3 DEF WriteLock, TypeOK, ProjectTypeOK, ResolveTypeOK
  <2>2. "ok" \in Verdicts /\ "verify" \in Steps
    BY DEF Verdicts, Steps
  <2>3. ControlTypeOK' /\ SyncTypeOK' /\ ResolveTypeOK' /\ HistoryTypeOK'
    <3>1. CASE mode = "tidy"
      BY <1>3, <2>2, <3>1, FinishTypes DEF WriteLock
    <3>2. CASE mode # "tidy"
      <4>1. ControlTypeOK'
        BY <1>3, <2>2, <3>2 DEF WriteLock, TypeOK, ControlTypeOK
      <4> QED BY <1>3, <3>2, <4>1, SameTypes DEF WriteLock, TypeOK
    <3> QED BY <3>1, <3>2
  <2> QED BY <1>3, <2>1, <2>3, SameTypes DEF WriteLock, TypeOK
<1>4. CASE Verify
  <2>1. VerifyVerdict \in Verdicts
    BY DEF Verdicts, VerifyVerdict
  <2> QED BY <1>4, <2>1, FinishTypes, SameTypes DEF Verify, TypeOK
<1> QED BY <1>1, <1>2, <1>3, <1>4

LEMMA UndoSteps ==
  ASSUME TypeOK, UndoPackageFile \/ UndoLock \/ UndoClear \/ UndoVendor
  PROVE  TypeOK'
<1>1. /\ snap.declared \in Bids
      /\ snap.lock \in [Key -> Entry \cup {NoEntry}]
      /\ snap.lockFile \in {"absent", "whole", "torn"}
      /\ snap.vendor \in [Key -> Tree \cup {NoTree}]
  BY DEF TypeOK, HistoryTypeOK, Snapshot
<1>2. ProjectTypeOK'
  BY <1>1, EmptyTypes
     DEF UndoPackageFile, UndoLock, UndoClear, UndoVendor, Undo, TypeOK, ProjectTypeOK
<1>3. ControlTypeOK'
  BY DEF UndoPackageFile, UndoLock, UndoClear, UndoVendor, Undo, TypeOK,
         ControlTypeOK, Steps
<1>4. UNCHANGED <<cache, world, syncing, resolving, history>>
  BY DEF UndoPackageFile, UndoLock, UndoClear, UndoVendor, Undo
<1> QED BY <1>2, <1>3, <1>4, SameTypes DEF TypeOK

\* A locked package that is not missing has a usable key and a tree.
LEMMA LockedTreeType ==
  ASSUME TypeOK, NEW k \in Locked \ Unfetched
  PROVE  k \in Key /\ Usable(k) /\ LockedTree(k) \in Tree
<1>1. k \in Key /\ Usable(k) /\ LockedTree(k) # NoTree /\ lock[k] \in Entry
  BY DEF Locked, Unfetched, TypeOK, ProjectTypeOK
<1>2. lock[k].v \in Label
  BY <1>1, LabelFacts DEF Entry
<1> QED BY <1>1, <1>2, TreeTypes DEF LockedTree

LEMMA VendoringSteps ==
  ASSUME TypeOK, TreesFound, VendorNext \/ VendorDone
  PROVE  TypeOK'
<1>1. CASE VendorNext
  <2>1. PICK k \in First(pending) :
          /\ pending' = pending \ {k}
          /\ IF k \in Unfetched
               THEN missing' = missing \cup {k} /\ UNCHANGED vendor
               ELSE vendor' = [vendor EXCEPT ![k] = LockedTree(k)] /\ UNCHANGED missing
    BY <1>1 DEF VendorNext
  <2>2. k \in Locked /\ k \in Key
    BY <1>1 DEF First, VendorNext, TreesFound, VendoringLocked, TypeOK, SyncTypeOK
  <2>3. ProjectTypeOK'
    <3>1. CASE k \in Unfetched
      BY <1>1, <2>1, <3>1 DEF VendorNext, TypeOK, ProjectTypeOK
    <3>2. CASE k \notin Unfetched
      <4>1. LockedTree(k) \in Tree
        BY <2>2, <3>2, LockedTreeType
      <4> QED BY <1>1, <2>1, <3>2, <4>1 DEF VendorNext, TypeOK, ProjectTypeOK
    <3> QED BY <3>1, <3>2
  <2>4. SyncTypeOK'
    BY <1>1, <2>1, <2>2 DEF VendorNext, TypeOK, SyncTypeOK
  <2> QED BY <1>1, <2>3, <2>4, SameTypes DEF VendorNext, TypeOK
<1>2. CASE VendorDone
  <2>1. "ok" \in Verdicts /\ "missing" \in Verdicts
    BY DEF Verdicts
  <2> QED BY <1>2, <2>1, FinishTypes, SameTypes DEF VendorDone, TypeOK
<1> QED BY <1>1, <1>2

LEMMA RepinnedType ==
  ASSUME TypeOK, Unread = {}
  PROVE  Repinned \in [Key -> Entry \cup {NoEntry}]
<1>1. ASSUME NEW k \in Locked
      PROVE  [lock[k] EXCEPT !.canon = CanonOf(LockedTree(k), engine)] \in Entry
  <2>1. k \notin Unfetched /\ lock[k] \in Entry
    BY <1>1 DEF Unread, Unfetched, Locked, TypeOK, ProjectTypeOK
  <2>2. LockedTree(k) \in Tree
    BY <1>1, <2>1, LockedTreeType
  <2>3. CanonOf(LockedTree(k), engine) \in Canon
    BY <2>2, CanonType, ProjectAssumption DEF TypeOK, WorldTypeOK
  <2> QED BY <2>1, <2>3 DEF Entry
<1> QED BY <1>1 DEF Repinned

LEMMA RepinSteps ==
  ASSUME TypeOK, Repin \/ RepinNothing
  PROVE  TypeOK'
<1>1. "ok" \in Verdicts /\ "error" \in Verdicts /\ "missing" \in Verdicts
  BY DEF Verdicts
<1>2. CASE Repin
  <2>1. ProjectTypeOK'
    BY <1>2, RepinnedType DEF Repin, Repinning, TypeOK, ProjectTypeOK
  <2> QED BY <1>1, <1>2, <2>1, FinishTypes, SameTypes DEF Repin, TypeOK
<1>3. CASE RepinNothing
  BY <1>1, <1>3, FinishTypes, SameTypes DEF RepinNothing, TypeOK
<1> QED BY <1>2, <1>3

LEMMA TornTypes ==
  ASSUME NEW t \in Tree \cup {NoTree}
  PROVE  Torn(t) \subseteq Tree \cup {NoTree}
<1>1. CASE t = NoTree
  BY <1>1 DEF Torn
<1>2. CASE t # NoTree
  <2>1. t \in Tree
    BY <1>2
  <2>2. ASSUME NEW b \in Damages, NEW m \in {t.manifest, FALSE}
        PROVE  Damaged(t, b, m) \in Tree
    <3>1. t.pkg \in Pkg /\ t.v \in Label /\ m \in BOOLEAN
      BY <2>1 DEF Tree
    <3> QED BY <3>1 DEF Tree, Damaged
  <2> QED BY <1>2, <2>2 DEF Torn
<1> QED BY <1>1, <1>2

LEMMA ReplacingTypes ==
  ASSUME TypeOK, TreesFound, NEW r \in Replacing
  PROVE  r[1] \in Key /\ r[2] \in Tree \cup {NoTree}
<1>1. CASE pc = "copy" /\ \E k \in First(ToCopy) : r = <<k, TreeIn(k, dirs[k])>>
  <2>1. PICK k \in First(ToCopy) : r = <<k, TreeIn(k, dirs[k])>>
    BY <1>1
  <2>2. k \in Key /\ dirs[k].at = "store"
    BY DEF First, ToCopy
  <2> QED BY <2>1, <2>2, TreeInType
<1>2. CASE \E k \in First(ToPrune) : r = <<k, NoTree>>
  BY <1>2 DEF First, ToPrune
<1>3. CASE pc = "vendoring" /\ \E k \in First(pending) \ Unfetched : r = <<k, LockedTree(k)>>
  <2>1. PICK k \in First(pending) \ Unfetched : r = <<k, LockedTree(k)>>
    BY <1>3
  <2>2. k \in Locked \ Unfetched
    BY <1>3, <2>1 DEF First, TreesFound, VendoringLocked
  <2> QED BY <2>1, <2>2, LockedTreeType
<1> QED BY <1>1, <1>2, <1>3 DEF Replacing

LEMMA DieTypes ==
  ASSUME TypeOK, Die \/ Throw
  PROVE  /\ CacheTypeOK' /\ WorldTypeOK' /\ ControlTypeOK'
         /\ SyncTypeOK' /\ ResolveTypeOK' /\ HistoryTypeOK'
<1>1. ControlTypeOK'
  BY DEF Die, Throw, Ended, TypeOK, ControlTypeOK, Steps, Verdicts
<1>2. WorldTypeOK'
  BY ProjectAssumption DEF Die, Throw, Ended, Fault, TypeOK, WorldTypeOK
<1> QED BY <1>1, <1>2, ClearedTypes, SameTypes DEF Die, Throw, Ended, TypeOK

LEMMA CrashStep ==
  ASSUME TypeOK, TreesFound, Crash
  PROVE  TypeOK'
<1>1. Die \/ Throw
  BY DEF Crash, DieBetween, DieInPackageFile, DieInLock, DieInTree, DieInClear
<1>2. ProjectTypeOK'
  <2>1. CASE DieBetween \/ Throw
    BY <2>1, SameTypes DEF DieBetween, Throw, TypeOK
  <2>2. CASE DieInPackageFile
    BY <2>2, EmptyTypes DEF DieInPackageFile, TypeOK, ProjectTypeOK
  <2>3. CASE DieInLock
    BY <2>3, EmptyTypes DEF DieInLock, TypeOK, ProjectTypeOK
  <2>4. CASE DieInTree
    <3>1. PICK r \in Replacing : \E t \in Torn(vendor[r[1]]) \cup Torn(r[2]) :
            vendor' = [vendor EXCEPT ![r[1]] = t]
      BY <2>4 DEF DieInTree
    <3>2. PICK t \in Torn(vendor[r[1]]) \cup Torn(r[2]) :
            vendor' = [vendor EXCEPT ![r[1]] = t]
      BY <3>1
    <3>3. r[1] \in Key /\ r[2] \in Tree \cup {NoTree} /\ vendor[r[1]] \in Tree \cup {NoTree}
      BY ReplacingTypes DEF TypeOK, ProjectTypeOK
    <3>4. t \in Tree \cup {NoTree}
      BY <3>2, <3>3, TornTypes
    <3> QED BY <2>4, <3>2, <3>3, <3>4 DEF DieInTree, TypeOK, ProjectTypeOK
  <2>5. CASE DieInClear
    BY <2>5 DEF DieInClear, TypeOK, ProjectTypeOK
  <2> QED BY <2>1, <2>2, <2>3, <2>4, <2>5 DEF Crash
<1> QED BY <1>1, <1>2, DieTypes DEF TypeOK

LEMMA DisturbedTypes ==
  ASSUME TypeOK, ProjectTypeOK', Disturbed
  PROVE  ControlTypeOK' /\ SyncTypeOK' /\ ResolveTypeOK' /\ HistoryTypeOK'
<1>1. ControlTypeOK'
  BY DEF Disturbed, TypeOK, ControlTypeOK, Modes, Syncs, Verdicts
<1>2. HistoryTypeOK'
  BY NowType DEF Disturbed, HistoryTypeOK
<1> QED BY <1>1, <1>2, SameTypes DEF Disturbed, TypeOK

LEMMA TamperSteps ==
  ASSUME TypeOK, Author \/ Damage \/ HandCopy
  PROVE  TypeOK'
<1>1. ProjectTypeOK'
  <2>1. CASE Author
    BY <2>1, ProjectAssumption DEF Author, TypeOK, ProjectTypeOK
  <2>2. CASE Damage
    <3>1. PICK k \in Key : \E t \in Torn(vendor[k]) : vendor' = [vendor EXCEPT ![k] = t]
      BY <2>2 DEF Damage
    <3>2. PICK t \in Torn(vendor[k]) : vendor' = [vendor EXCEPT ![k] = t]
      BY <3>1
    <3>3. t \in Tree \cup {NoTree}
      BY TornTypes DEF TypeOK, ProjectTypeOK
    <3> QED BY <2>2, <3>2, <3>3 DEF Damage, TypeOK, ProjectTypeOK
  <2>3. CASE HandCopy
    <3>1. PICK k \in Key, v \in Label :
            /\ Usable(k)
            /\ vendor' = [vendor EXCEPT ![k] = [Released(Names[k], v) EXCEPT !.manifest = FALSE]]
      BY <2>3 DEF HandCopy
    <3>2. Released(Names[k], v) \in Tree
      BY <3>1, UsableNames, ReleasedType
    <3>3. [Released(Names[k], v) EXCEPT !.manifest = FALSE] \in Tree
      BY <3>2 DEF Tree
    <3> QED BY <2>3, <3>1, <3>3 DEF HandCopy, TypeOK, ProjectTypeOK
  <2> QED BY <2>1, <2>2, <2>3
<1>2. WorldTypeOK' /\ CacheTypeOK'
  BY SameTypes, ProjectAssumption
     DEF Author, Damage, HandCopy, Fault, Disturbed, TypeOK, WorldTypeOK
<1>3. Disturbed
  BY DEF Author, Damage, HandCopy
<1> QED BY <1>1, <1>2, <1>3, DisturbedTypes DEF TypeOK

LEMMA WorldSteps ==
  ASSUME TypeOK, CleanCache \/ Upgrade \/ Publish
  PROVE  TypeOK'
<1>1. CASE CleanCache
  <2>1. CacheTypeOK'
    BY <1>1, EmptyTypes DEF CleanCache, CacheTypeOK
  <2> QED BY <1>1, <2>1, SameTypes DEF CleanCache, TypeOK
<1>2. CASE Upgrade
  <2>1. ProjectTypeOK' /\ CacheTypeOK' /\ Disturbed
    BY <1>2, SameTypes DEF Upgrade, TypeOK
  <2>2. WorldTypeOK'
    BY <1>2, ProjectAssumption DEF Upgrade, Disturbed, TypeOK, WorldTypeOK
  <2> QED BY <2>1, <2>2, DisturbedTypes DEF TypeOK
<1>3. CASE Publish
  <2>1. WorldTypeOK'
    BY <1>3 DEF Publish, TypeOK, WorldTypeOK
  <2> QED BY <1>3, <2>1, SameTypes DEF Publish, TypeOK
<1> QED BY <1>1, <1>2, <1>3

(***************************************************************************)
(* The strengthening that makes the types inductive: what was found stays  *)
(* found until it is used.                                                 *)
(***************************************************************************)

\* Which steps leave the paths of a sync alone, and the cache they lead to.
LEMMA DirsKept ==
  ASSUME DirsFound, UNCHANGED <<dirs, store>>,
         pc' \in {"bid", "copy"} \/ pc \notin {"bid", "copy"} \/ ToCopy = {}
  PROVE  DirsFound'
BY DEF DirsFound, TreeIn, ToCopy

LEMMA NoDirs ==
  ASSUME dirs' = [k \in Key |-> NoDir]
  PROVE  DirsFound'
BY DirFields DEF DirsFound

LEMMA DirsFoundStep ==
  ASSUME TypeOK, TreesFound, Next
  PROVE  DirsFound'
<1>1. CASE Start
  BY <1>1, DirsKept, NoDirs
     DEF TreesFound, Start, Begin, Sync, Get, Remove, Tidy, Vendor, Refreeze, Bidding,
         Editing, cache, syncing
<1>2. CASE BidHeld
  <2>1. PICK k \in First(Held) :
          Read(k, HeldAt(k, selected[k]), TreeIn(k, HeldAt(k, selected[k])))
    BY <1>2 DEF BidHeld
  <2>2. k \in Key /\ Usable(k) /\ HeldAt(k, selected[k]) # NoDir /\ selected[k] \in Label
    BY DEF First, Held, TypeOK, SyncTypeOK, Bids
  <2>3. TreeIn(k, HeldAt(k, selected[k])) # NoTree
    BY <2>2, HeldAtTypes, NoTreeIsNoTree
  <2>4. dirs' = [dirs EXCEPT ![k] = HeldAt(k, selected[k])] /\ UNCHANGED <<vendor, store>>
    BY <1>2, <2>1 DEF Read, BidHeld, project, cache
  <2>5. ASSUME NEW j \in Key, dirs'[j].at = "store"
        PROVE  pc' \in {"bid", "copy"} /\ Usable(j) /\ TreeIn(j, dirs[j])' # NoTree
    <3>1. pc' = "bid"
      BY <1>2 DEF BidHeld, control
    <3>2. CASE j = k
      <4>1. dirs'[j] = HeldAt(k, selected[k])
        BY <2>2, <2>4, <3>2 DEF TypeOK, SyncTypeOK
      <4>2. TreeIn(j, dirs[j])' = TreeIn(k, HeldAt(k, selected[k]))
        BY <2>4, <3>2, <4>1 DEF TreeIn
      <4> QED BY <2>2, <2>3, <3>1, <3>2, <4>2
    <3>3. CASE j # k
      <4>1. dirs'[j] = dirs[j]
        BY <2>4, <3>3 DEF TypeOK, SyncTypeOK
      <4>2. TreeIn(j, dirs[j])' = TreeIn(j, dirs[j])
        BY <2>4, <4>1 DEF TreeIn
      <4> QED BY <2>5, <3>1, <4>1, <4>2 DEF TreesFound, DirsFound
    <3> QED BY <3>2, <3>3
  <2> QED BY <2>5 DEF DirsFound
<1>3. CASE BidAcquire
  <2>1. PICK k \in Key, v \in Label :
          /\ Usable(k) /\ dirs' = [dirs EXCEPT ![k] = InStore(Names[k], v)]
          /\ store'[Names[k]][MeaningOf[Names[k]][v]] # 0
    BY <1>3, BidAcquireStep
  <2>2. \A p \in Pkg : \A m \in Meaning : store[p][m] # 0 => store'[p][m] # 0
    BY <1>3, BidAcquireStep
  <2>3. store' \in [Pkg -> [Meaning -> Label]] /\ dirs \in [Key -> Dir]
    BY <1>3, BidAcquireStep DEF TypeOK, CacheTypeOK, SyncTypeOK
  <2>4. ASSUME NEW j \in Key, dirs'[j].at = "store"
        PROVE  pc' \in {"bid", "copy"} /\ Usable(j) /\ TreeIn(j, dirs[j])' # NoTree
    <3>1. Usable(j) /\ Names[j] \in Pkg
      BY <2>1, <2>3, <2>4, UsableNames DEF TreesFound, DirsFound
    <3>2. dirs'[j].meaning \in Meaning /\ store'[Names[j]][dirs'[j].meaning] # 0
      <4>1. CASE j = k
        <5>1. dirs'[j] = InStore(Names[k], v) /\ Names[k] \in Pkg
          BY <2>1, <2>3, <3>1, <4>1
        <5>2. dirs'[j].meaning = MeaningOf[Names[k]][v]
          BY <5>1, DirFields
        <5> QED BY <2>1, <4>1, <5>1, <5>2, WorldAssumption
      <4>2. CASE j # k
        <5>1. dirs'[j] = dirs[j] /\ dirs[j].at = "store" /\ dirs[j].meaning \in Meaning
          BY <2>1, <2>3, <2>4, <4>2, StoreDirMeaning
        <5>2. Stored(store, Names[j], dirs[j].meaning) # NoTree
          BY <5>1 DEF TreesFound, DirsFound, TreeIn
        <5>3. store[Names[j]][dirs[j].meaning] # 0
          BY <5>2 DEF Stored
        <5> QED BY <2>2, <3>1, <5>1, <5>3
      <4> QED BY <4>1, <4>2
    <3>3. Stored(store', Names[j], dirs'[j].meaning) \in Tree
      BY <2>3, <3>1, <3>2, StoredIsTree
    <3>4. TreeIn(j, dirs[j])' = Stored(store', Names[j], dirs'[j].meaning)
      BY <2>4 DEF TreeIn
    <3>5. pc' = "bid"
      BY <1>3 DEF BidAcquire, Fetching, control
    <3> QED BY <3>1, <3>3, <3>4, <3>5, NoTreeIsNoTree
  <2> QED BY <2>4 DEF DirsFound
<1>4. CASE Copy
  <2>1. PICK k \in First(ToCopy) : dirs' = [dirs EXCEPT ![k] = InVendor]
    BY <1>4 DEF Copy
  <2>2. UNCHANGED <<store, pc>>
    BY <1>4 DEF Copy, cache, control
  <2>3. ASSUME NEW j \in Key, dirs'[j].at = "store"
        PROVE  dirs'[j] = dirs[j]
    BY <2>1, <2>3, DirFields DEF TypeOK, SyncTypeOK
  <2> QED BY <2>2, <2>3 DEF TreesFound, DirsFound, TreeIn
<1>5. CASE BidRefused \/ ConfigRefused \/ BidFrozen \/ Unwritable \/ Verify \/ VendorDone \/ RepinNothing \/ Crash
  BY <1>5, NoDirs
     DEF BidRefused, ConfigRefused, BidFrozen, Unwritable, Verify, VendorDone, RepinNothing, Finish,
         Cleared, Crash, Ended, Throw, Die, DieBetween, DieInPackageFile, DieInLock, DieInTree, DieInClear
<1>6. CASE EditPackageFile
  BY <1>6, NoDirs DEF EditPackageFile, Bidding
<1>7. CASE WriteLock \/ Repin
  BY <1>7, NoDirs, DirsKept DEF WriteLock, Repin, Finish, Cleared, TreesFound, syncing, cache
<1>8. CASE BidUnusable \/ BidDone \/ CopyDone \/ Round \/ ResolveDone \/ Writable \/ Prune
           \/ PruneDone \/ VendorNext
  BY <1>8, DirsKept
     DEF BidUnusable, BidDone, CopyDone, Round, ResolveDone, Writable, Prune, PruneDone,
         VendorNext, TreesFound, syncing, cache, control
<1>9. CASE UndoPackageFile \/ UndoLock \/ UndoClear \/ UndoVendor
  BY <1>9, DirsKept
     DEF UndoPackageFile, UndoLock, UndoClear, UndoVendor, Undo, TreesFound, syncing, cache
<1>10. CASE Author \/ Damage \/ HandCopy \/ Upgrade \/ Publish
  BY <1>10, DirsKept
     DEF Author, Damage, HandCopy, Upgrade, Publish, Disturbed, TreesFound, syncing, cache, control
<1>11. CASE CleanCache
  BY <1>11 DEF CleanCache, TreesFound, DirsFound, syncing
<1> QED
  BY <1>1, <1>2, <1>3, <1>4, <1>5, <1>6, <1>7, <1>8, <1>9, <1>10, <1>11
     DEF Next, Continue, Environment

\* Which steps lead to, or stay in, the rounds of pkgResolve.
LEMMA IntoResolve ==
  ASSUME Next, pc' = "resolve"
  PROVE  CopyDone \/ Tidy \/ Round \/ Publish
<1>1. CASE Start
  BY <1>1 DEF Start, Sync, Get, Remove, Vendor, Refreeze, Begin
<1>2. CASE Continue
  <2>1. ASSUME NEW v, Finish(v)
        PROVE  FALSE
    BY <2>1 DEF Finish
  <2> QED
    BY <1>2, <2>1
       DEF Continue, EditPackageFile, BidUnusable, BidHeld, BidAcquire, BidRefused,
           ConfigRefused, BidFrozen, BidDone, Fetching, Copy, ResolveDone, Unwritable,
           Writable, Prune, PruneDone, WriteLock, Verify, UndoPackageFile, UndoLock,
           UndoClear, UndoVendor, Undo, VendorNext, VendorDone, Repin, Repinning, RepinNothing, control
<1>3. CASE Crash
  BY <1>3 DEF Crash, Ended, Throw, Die, DieBetween, DieInPackageFile, DieInLock, DieInTree,
              DieInClear, project
<1>4. CASE Author \/ Damage \/ HandCopy \/ Upgrade \/ CleanCache
  BY <1>4 DEF Author, Damage, HandCopy, Upgrade, CleanCache, Disturbed, control
<1> QED BY <1>1, <1>2, <1>3, <1>4 DEF Next, Environment

LEMMA IntoVendoring ==
  ASSUME Next, pc' = "vendoring"
  PROVE  Vendor \/ VendorNext \/ Publish
<1>1. CASE Start
  BY <1>1 DEF Start, Sync, Get, Remove, Tidy, Refreeze, Begin
<1>2. CASE Continue
  <2>1. ASSUME NEW v, Finish(v)
        PROVE  FALSE
    BY <2>1 DEF Finish
  <2> QED
    BY <1>2, <2>1
       DEF Continue, EditPackageFile, BidUnusable, BidHeld, BidAcquire, BidRefused,
           ConfigRefused, BidFrozen, BidDone, Fetching, Copy, CopyDone, Round, ResolveDone,
           Unwritable, Writable, Prune, PruneDone, WriteLock, Verify, UndoPackageFile,
           UndoLock, UndoClear, UndoVendor, Undo, VendorDone, Repin, Repinning, RepinNothing, control
<1>3. CASE Crash
  BY <1>3 DEF Crash, Ended, Throw, Die, DieBetween, DieInPackageFile, DieInLock, DieInTree,
              DieInClear, project
<1>4. CASE Author \/ Damage \/ HandCopy \/ Upgrade \/ CleanCache
  BY <1>4 DEF Author, Damage, HandCopy, Upgrade, CleanCache, Disturbed, control
<1> QED BY <1>1, <1>2, <1>3, <1>4 DEF Next, Environment

LEMMA SelectionFoundStep ==
  ASSUME TypeOK, TreesFound, Next
  PROVE  SelectionFound'
<1>1. SUFFICES ASSUME pc' = "resolve"
               PROVE  \A k \in Asked(rsel') \ rmissing' :
                        Usable(k) /\ LocalTree(k, rsel[k])' # NoTree
  BY DEF SelectionFound, Asked
<1>2. CASE CopyDone \/ Tidy
  BY <1>2 DEF CopyDone, Tidy, Resolving, Asked, NoBids
<1>3. CASE Publish
  BY <1>1, <1>3
     DEF Publish, TreesFound, SelectionFound, project, cache, control, resolving, LocalTree
<1>4. CASE Round
  <2> DEFINE sel  == Raise(rsel, frontier)
             read == {k \in Raised : Usable(k) /\ LocalTree(k, sel[k]) # NoTree}
  <2>1. rsel' = sel /\ rmissing' = rmissing \cup (Raised \ read)
    BY <1>4 DEF Round, ReadNow
  <2>2. UNCHANGED <<vendor, store, down, lock>> /\ pc = "resolve"
    BY <1>4 DEF Round, project, cache
  <2>3. ASSUME NEW k \in Asked(rsel') \ rmissing'
        PROVE  Usable(k) /\ LocalTree(k, sel[k]) # NoTree
    <3>1. CASE k \in Raised
      BY <2>1, <3>1
    <3>2. CASE k \notin Raised
      <4>1. k \in Key /\ sel[k] = rsel[k]
        BY <3>2 DEF Asked, Raised, Raise
      <4>2. k \in Asked(rsel) \ rmissing
        BY <2>1, <4>1 DEF Asked
      <4> QED BY <2>2, <4>1, <4>2 DEF TreesFound, SelectionFound
    <3> QED BY <3>1, <3>2
  <2>4. \A k \in Key : LocalTree(k, rsel[k])' = LocalTree(k, sel[k])
    BY <2>1, <2>2 DEF LocalTree
  <2> QED BY <2>3, <2>4 DEF Asked
<1> QED BY <1>1, <1>2, <1>3, <1>4, IntoResolve

LEMMA VendoringLockedStep ==
  ASSUME TypeOK, TreesFound, Next
  PROVE  VendoringLocked'
<1>1. SUFFICES ASSUME pc' = "vendoring"
               PROVE  pending' \subseteq Locked'
  BY DEF VendoringLocked
<1>2. CASE Vendor
  BY <1>2 DEF Vendor, Locked, project
<1>3. CASE VendorNext
  BY <1>3 DEF VendorNext, TreesFound, VendoringLocked, Locked, project
<1>4. CASE Publish
  BY <1>1, <1>4 DEF Publish, TreesFound, VendoringLocked, Locked, project, syncing, control
<1> QED BY <1>1, <1>2, <1>3, <1>4, IntoVendoring

LEMMA TypeStep ==
  ASSUME TypeOK, TreesFound, Next
  PROVE  TypeOK'
<1>1. CASE Start
  BY <1>1, SyncStep, GetStep, RemoveStep, TidyStep, VendorStep, RefreezeStep DEF Start
<1>2. CASE Continue
  BY <1>2, EditPackageFileStep, BidUnusableStep, BidHeldStep, BidAcquireStep,
     BidRefusedStep, BidEndSteps, CopySteps, RoundStep, ResolveDoneStep, PinSteps,
     WriteSteps, UndoSteps, VendoringSteps, RepinSteps
     DEF Continue
<1>3. CASE Environment
  BY <1>3, TamperSteps, WorldSteps DEF Environment
<1> QED BY <1>1, <1>2, <1>3, CrashStep DEF Next

LEMMA Stutter ==
  ASSUME TypeOK, TreesFound, UNCHANGED vars
  PROVE  TypeOK' /\ TreesFound'
<1>1. TypeOK'
  BY SameTypes DEF vars, TypeOK
<1>2. DirsFound'
  BY DEF vars, cache, syncing, control, TreesFound, DirsFound, TreeIn, project
<1>3. SelectionFound'
  BY DEF vars, cache, project, resolving, control, TreesFound, SelectionFound, LocalTree, Asked
<1>4. VendoringLocked'
  BY DEF vars, project, syncing, control, TreesFound, VendoringLocked, Locked
<1> QED BY <1>1, <1>2, <1>3, <1>4 DEF TreesFound

LEMMA InitFound == Init => TreesFound
BY NoDirs, DirFields DEF Init, TreesFound, DirsFound, SelectionFound, VendoringLocked

\* Whatever the keys, the packages, the verbs and the faults, every variable
\* keeps its type, and what a running verb found it still has when it copies
\* or pins it: materialise never copies, and pkgResolve never pins, a tree
\* that is not there.
THEOREM TypeCorrect == Spec => [](TypeOK /\ TreesFound)
<1>1. Init => TypeOK /\ TreesFound
  BY InitTypes, InitFound
<1>2. TypeOK /\ TreesFound /\ [Next]_vars => (TypeOK /\ TreesFound)'
  <2>1. ASSUME TypeOK, TreesFound, Next
        PROVE  (TypeOK /\ TreesFound)'
    BY <2>1, TypeStep, DirsFoundStep, SelectionFoundStep, VendoringLockedStep DEF TreesFound
  <2> QED BY <2>1, Stutter
<1> QED BY <1>1, <1>2, PTL DEF Spec

\* A sync copies, pkgResolve pins and pkgVendor walks only what is there: the
\* cached tree that a sync found is not taken away by a later fetch of the
\* run, and the tree read at a selected version is in a store when it comes to
\* be pinned, however often that version was raised.
THEOREM TreesStayFound == Spec => []TreesFound
BY TypeCorrect, PTL

(***************************************************************************)
(* --frozen refuses to change the lock.                                    *)
(***************************************************************************)

\* A frozen sync never edits and never takes back; once its lock text was
\* compared, what it will write is what is there.
FrozenInv ==
  mode = "frozen" =>
    /\ pc \in {"idle", "bid", "copy", "resolve", "pin", "prune", "write", "verify"}
    /\ pc \in {"prune", "write"} => newlock = lock /\ lockFile = "whole"

\* The steps that may write the package file or the lockfile.
LEMMA ProjectWriters ==
  ASSUME Next
  PROVE  \/ UNCHANGED <<declared, lock, lockFile>>
         \/ pc = "idle"
         \/ EditPackageFile
         \/ WriteLock \/ Repin
         \/ UndoPackageFile \/ UndoLock
         \/ verdict' = "died"
<1>1. CASE Start
  BY <1>1 DEF Start, Begin, Sync, Get, Remove, Tidy, Vendor, Refreeze
<1>2. CASE Continue
  BY <1>2 DEF Continue, BidUnusable, BidHeld, BidAcquire, BidRefused, ConfigRefused,
              BidFrozen, BidDone, Copy, CopyDone, Round, ResolveDone, Unwritable, Writable,
              Prune, PruneDone, Verify, UndoClear, UndoVendor, VendorNext, VendorDone, Repin, Repinning, RepinNothing,
              project
<1>3. CASE Crash
  BY <1>3 DEF Crash, Ended, Throw, Die, DieBetween, DieInPackageFile, DieInLock, DieInTree,
              DieInClear, project
<1>4. CASE Environment
  BY <1>4 DEF Environment, Author, Damage, HandCopy, CleanCache, Upgrade, Publish,
              Disturbed, project
<1> QED BY <1>1, <1>2, <1>3, <1>4 DEF Next

LEMMA FrozenInvStep ==
  ASSUME FrozenInv, Next
  PROVE  FrozenInv'
<1>1. CASE Start
  <2>1. CASE \E frozen \in BOOLEAN : Sync(frozen)
    BY <2>1 DEF Sync, Begin, FrozenInv
  <2>2. CASE ~ \E frozen \in BOOLEAN : Sync(frozen)
    BY <1>1, <2>2 DEF Start, Get, Remove, Tidy, Vendor, Refreeze, Begin, FrozenInv
  <2> QED BY <2>1, <2>2
<1>2. CASE Continue
  <2>1. ASSUME NEW v, Finish(v)
        PROVE  FrozenInv'
    BY <2>1 DEF Finish, FrozenInv, Changes
  <2>2. CASE EditPackageFile \/ VendorNext \/ VendorDone
             \/ UndoPackageFile \/ UndoLock \/ UndoClear \/ UndoVendor
    BY <2>2 DEF EditPackageFile, VendorNext, VendorDone, Repin, Repinning, RepinNothing, UndoPackageFile, UndoLock,
                UndoClear, UndoVendor, Undo, FrozenInv, Finish, control
  <2>3. CASE BidUnusable \/ BidHeld \/ BidAcquire \/ BidDone \/ Copy \/ CopyDone \/ Round
             \/ ResolveDone
    BY <2>3 DEF BidUnusable, BidHeld, BidAcquire, BidDone, Fetching, Copy, CopyDone, Round,
                ResolveDone, FrozenInv, control
  <2>4. CASE BidRefused \/ ConfigRefused \/ BidFrozen \/ Unwritable \/ Verify
    BY <2>1, <2>4 DEF BidRefused, ConfigRefused, BidFrozen, Unwritable, Verify
  <2>5. CASE Writable \/ Prune \/ PruneDone
    BY <2>5 DEF Writable, Prune, PruneDone, FrozenInv, control, project, resolving
  <2>6. CASE WriteLock \/ Repin \/ RepinNothing
    BY <2>1, <2>6 DEF WriteLock, Repin, Repinning, RepinNothing, FrozenInv
  <2> QED BY <1>2, <2>2, <2>3, <2>4, <2>5, <2>6 DEF Continue
<1>3. CASE Crash
  BY <1>3 DEF Crash, Ended, Throw, Die, DieBetween, DieInPackageFile, DieInLock, DieInTree, DieInClear,
              FrozenInv
<1>4. CASE Environment
  BY <1>4 DEF Environment, Author, Damage, HandCopy, CleanCache, Upgrade, Publish,
              Disturbed, FrozenInv, project, control, resolving
<1> QED BY <1>1, <1>2, <1>3, <1>4 DEF Next

\* A frozen sync never changes the package file or the lockfile, at any
\* step, whatever it found, fetched or refused; only its death while the
\* lockfile is rewritten with the same pins may tear it.
THEOREM FrozenLockKept == Spec => FrozenKeepsLock
<1>1. Init => FrozenInv
  BY DEF Init, FrozenInv
<1>2. FrozenInv /\ [Next]_vars => FrozenInv'
  <2>1. FrozenInv /\ UNCHANGED vars => FrozenInv'
    BY DEF FrozenInv, vars, control, resolving, project
  <2> QED BY <2>1, FrozenInvStep
<1>3. FrozenInv /\ [Next]_vars =>
        [(pc # "idle" /\ mode = "frozen" /\ verdict' # "died")
           => UNCHANGED <<declared, lock, lockFile>>]_vars
  <2> SUFFICES ASSUME FrozenInv, Next, pc # "idle", mode = "frozen", verdict' # "died"
               PROVE  UNCHANGED <<declared, lock, lockFile>>
    OBVIOUS
  <2>1. CASE WriteLock \/ Repin
    BY <2>1 DEF WriteLock, Repin, Repinning, FrozenInv
  <2>2. CASE EditPackageFile \/ UndoPackageFile \/ UndoLock
    BY <2>2 DEF EditPackageFile, UndoPackageFile, UndoLock, Undo, FrozenInv
  <2> QED BY <2>1, <2>2, ProjectWriters
<1> QED BY <1>1, <1>2, <1>3, PTL DEF Spec, FrozenKeepsLock

(***************************************************************************)
(* Bids only rise.                                                         *)
(***************************************************************************)

\* While a sync bids, no minimum it has selected is ever lowered, whichever
\* packages it reads and in whatever order it finds them.
THEOREM BidsRise == Spec => BidsOnlyRise
<1>1. TypeOK /\ [Next]_vars =>
        [(pc = "bid" /\ pc' \in {"bid", "copy"})
           => \A k \in Key : selected[k] <= selected'[k]]_vars
  <2> SUFFICES ASSUME TypeOK, Next, pc = "bid", pc' \in {"bid", "copy"}
               PROVE  \A k \in Key : selected[k] <= selected'[k]
    OBVIOUS
  <2>1. \A k \in Key : selected[k] \in Nat
    BY LabelFacts DEF TypeOK, SyncTypeOK, Bids
  <2>2. CASE selected' = selected
    BY <2>1, <2>2
  <2>3. CASE BidHeld \/ BidAcquire
    BY <2>3, BidHeldStep, BidAcquireStep
  <2>4. CASE Start \/ Crash
    BY <2>4 DEF Start, Begin, Sync, Get, Remove, Tidy, Vendor, Refreeze, Crash, Ended, Throw, Die,
                DieBetween, DieInPackageFile, DieInLock, DieInTree, DieInClear
  <2>5. CASE Continue
    <3>1. ASSUME NEW v, Finish(v)
          PROVE  FALSE
      BY <3>1 DEF Finish
    <3>2. CASE BidUnusable \/ BidDone
      BY <2>2, <3>2 DEF BidUnusable, BidDone, syncing
    <3>3. CASE BidRefused \/ ConfigRefused \/ BidFrozen
      BY <3>1, <3>3 DEF BidRefused, ConfigRefused, BidFrozen
    <3> QED
      BY <2>3, <2>5, <3>2, <3>3
         DEF Continue, EditPackageFile, Copy, CopyDone, Round, ResolveDone, Unwritable,
             Writable, Prune, PruneDone, WriteLock, Verify, UndoPackageFile, UndoLock,
             UndoClear, UndoVendor, Undo, VendorNext, VendorDone, Repin, Repinning, RepinNothing
  <2>6. CASE Environment
    BY <2>2, <2>6 DEF Environment, Author, Damage, HandCopy, CleanCache, Upgrade, Publish,
                      Disturbed, syncing
  <2> QED BY <2>4, <2>5, <2>6 DEF Next
<1> QED BY <1>1, TypeCorrect, PTL DEF Spec, BidsOnlyRise

(***************************************************************************)
(* A change that was not carried is taken back.                            *)
(***************************************************************************)
Undoing == {"undo_file", "undo_lock", "undo_clear", "undo_vendor"}

\* What has been put back at each step of settled, and that only a get or a
\* remove that ended badly gets there.
UndoInv ==
  /\ pc \in Undoing => mode \in Changes
  /\ pc \in {"undo_lock", "undo_clear", "undo_vendor"} => declared = snap.declared
  /\ pc \in {"undo_clear", "undo_vendor"} => lock = snap.lock /\ lockFile = snap.lockFile
  /\ pc \notin Undoing \cup {"idle"} => verdict = "none"
  /\ TakenBack

LEMMA NowIsSnap ==
  ASSUME HistoryTypeOK,
         declared = snap.declared, lock = snap.lock, lockFile = snap.lockFile,
         vendor = snap.vendor
  PROVE  Now = snap
BY DEF HistoryTypeOK, Snapshot, Now

LEMMA FinishUndo ==
  ASSUME pc \notin Undoing, UndoInv, NEW v, Finish(v)
  PROVE  UndoInv'
<1>1. CASE mode \in Changes /\ v # "ok"
  BY <1>1 DEF Finish, UndoInv, TakenBack, Undoing
<1>2. CASE ~(mode \in Changes /\ v # "ok")
  BY <1>2 DEF Finish, UndoInv, TakenBack, Undoing
<1> QED BY <1>1, <1>2

LEMMA UndoInvStep ==
  ASSUME TypeOK, UndoInv, Next
  PROVE  UndoInv'
<1>1. CASE Start
  <2>1. PICK step \in {"bid", "edit", "resolve", "vendoring", "repin"} : \E m : Begin(m, step)
    BY <1>1 DEF Start, Sync, Get, Remove, Tidy, Vendor, Refreeze
  <2> QED BY <2>1 DEF Begin, UndoInv, TakenBack, Undoing
<1>2. CASE Continue
  <2>1. CASE UndoPackageFile
    BY <2>1 DEF UndoPackageFile, Undo, UndoInv, TakenBack, Undoing, history
  <2>2. CASE UndoLock
    BY <2>2 DEF UndoLock, Undo, UndoInv, TakenBack, Undoing, history
  <2>3. CASE UndoClear
    BY <2>3 DEF UndoClear, Undo, UndoInv, TakenBack, Undoing, history
  <2>4. CASE UndoVendor
    <3>1. /\ declared' = snap'.declared /\ lock' = snap'.lock
          /\ lockFile' = snap'.lockFile /\ vendor' = snap'.vendor
      BY <2>4 DEF UndoVendor, Undo, UndoInv, history
    <3>2. HistoryTypeOK'
      BY <2>4, SameTypes DEF UndoVendor, Undo, TypeOK
    <3>3. Now' = snap'
      BY <3>1, <3>2 DEF HistoryTypeOK, Snapshot, Now
    <3> QED BY <2>4, <3>3 DEF UndoVendor, Undo, UndoInv, TakenBack, Undoing
  <2>5. CASE BidRefused \/ ConfigRefused \/ BidFrozen \/ Unwritable \/ Verify \/ VendorDone \/ RepinNothing
    <3>1. pc \notin Undoing /\ \E v : Finish(v)
      BY <2>5 DEF BidRefused, ConfigRefused, BidFrozen, Fetching, Unwritable, Verify,
                  VendorDone, RepinNothing, Undoing
    <3> QED BY <3>1, FinishUndo
  <2>6. CASE WriteLock
    <3>1. CASE mode = "tidy"
      BY <2>6, <3>1, FinishUndo DEF WriteLock, Undoing
    <3>2. CASE mode # "tidy"
      BY <2>6, <3>2 DEF WriteLock, UndoInv, TakenBack, Undoing
    <3> QED BY <3>1, <3>2
  <2>8. CASE Repin
    BY <2>8, FinishUndo DEF Repin, Repinning, Undoing
  <2>7. CASE EditPackageFile \/ BidUnusable \/ BidHeld \/ BidAcquire \/ BidDone \/ Copy
             \/ CopyDone \/ Round \/ ResolveDone \/ Writable \/ Prune \/ PruneDone
             \/ VendorNext
    <3>1. /\ pc \notin Undoing \cup {"idle"} /\ pc' \notin Undoing \cup {"idle"}
          /\ UNCHANGED <<mode, verdict>>
      BY <2>7 DEF EditPackageFile, BidUnusable, BidHeld, BidAcquire, BidDone, Fetching, Copy,
                  CopyDone, Round, ResolveDone, Writable, Prune, PruneDone, VendorNext,
                  control, Undoing
    <3> QED BY <3>1 DEF UndoInv, TakenBack, Undoing
  <2> QED BY <1>2, <2>1, <2>2, <2>3, <2>4, <2>5, <2>6, <2>7, <2>8 DEF Continue
<1>3. CASE Crash
  BY <1>3 DEF Crash, Ended, Throw, Die, DieBetween, DieInPackageFile, DieInLock, DieInTree, DieInClear,
              UndoInv, TakenBack, Undoing
<1>4. CASE Author \/ Damage \/ HandCopy \/ Upgrade
  BY <1>4 DEF Author, Damage, HandCopy, Upgrade, Disturbed, UndoInv, TakenBack, Undoing,
              Changes
<1>5. CASE CleanCache \/ Publish
  BY <1>5 DEF CleanCache, Publish, UndoInv, TakenBack, Undoing, Now, project, control, history
<1> QED BY <1>1, <1>2, <1>3, <1>4, <1>5 DEF Next, Environment

\* A get or a remove that ended in anything but ok, or its own death, has
\* put back the package file, the lock and the vendor tree it found,
\* however far the sync had come.
THEOREM ChangesAreTakenBack == Spec => []TakenBack
<1>1. Init => UndoInv
  BY DEF Init, UndoInv, TakenBack, Undoing, Changes
<1>2. TypeOK /\ UndoInv /\ [Next]_vars => UndoInv'
  <2>1. UndoInv /\ UNCHANGED vars => UndoInv'
    BY DEF UndoInv, TakenBack, vars, control, project, history, Now
  <2> QED BY <2>1, UndoInvStep
<1>3. UndoInv => TakenBack
  BY DEF UndoInv
<1> QED BY <1>1, <1>2, <1>3, TypeCorrect, PTL DEF Spec

(***************************************************************************)
(* The verb that a step belongs to.                                        *)
(***************************************************************************)
VerbInv ==
  /\ pc = "vendoring" => mode = "vendor"
  /\ pc = "repin" => mode = "refreeze"
  /\ pc \in Undoing => verdict # "ok"

LEMMA VerbInvStep ==
  ASSUME VerbInv, Next
  PROVE  VerbInv'
<1>1. pc' = "vendoring" => mode' = "vendor"
  <2>1. Vendor => mode' = "vendor"
    BY DEF Vendor, Begin
  <2>2. VendorNext \/ Publish => pc' = pc /\ mode' = mode
    BY DEF VendorNext, Publish, control
  <2> QED BY <2>1, <2>2, IntoVendoring DEF VerbInv
<1>2. pc' \in Undoing => verdict' # "ok"
  <2>1. SUFFICES ASSUME pc' \in Undoing
                 PROVE  verdict' # "ok"
    OBVIOUS
  <2>2. CASE pc \in Undoing /\ verdict' = verdict
    BY <2>2 DEF VerbInv
  <2>3. ASSUME NEW v, Finish(v)
        PROVE  verdict' # "ok"
    BY <2>1, <2>3 DEF Finish, Undoing
  <2>4. (\E v : Finish(v)) \/ (pc \in Undoing /\ verdict' = verdict)
    <3>1. CASE Start
      BY <2>1, <3>1 DEF Start, Sync, Get, Remove, Tidy, Vendor, Refreeze, Begin, Undoing
    <3>2. CASE Continue
      BY <2>1, <3>2
         DEF Continue, EditPackageFile, BidUnusable, BidHeld, BidAcquire, BidRefused,
             ConfigRefused, BidFrozen, BidDone, Fetching, Copy, CopyDone, Round, ResolveDone,
             Unwritable, Writable, Prune, PruneDone, WriteLock, Verify, UndoPackageFile,
             UndoLock, UndoClear, UndoVendor, Undo, VendorNext, VendorDone, Repin, Repinning, RepinNothing, control, Undoing
    <3>3. CASE Crash
      BY <2>1, <3>3 DEF Crash, Ended, Throw, Die, DieBetween, DieInPackageFile, DieInLock,
                        DieInTree, DieInClear, Undoing
    <3>4. CASE Environment
      BY <2>1, <3>4 DEF Environment, Author, Damage, HandCopy, CleanCache, Upgrade, Publish,
                        Disturbed, control, Undoing
    <3> QED BY <3>1, <3>2, <3>3, <3>4 DEF Next
  <2> QED BY <2>2, <2>3, <2>4
<1>3. pc' = "repin" => mode' = "refreeze"
  <2>1. SUFFICES ASSUME pc' = "repin"
                 PROVE  Refreeze \/ (pc = "repin" /\ mode' = mode)
    BY DEF Refreeze, Begin, VerbInv
  <2>2. CASE Start
    BY <2>1, <2>2 DEF Start, Sync, Get, Remove, Tidy, Vendor, Begin
  <2>3. CASE Continue
    <3>1. ASSUME NEW v, Finish(v)
          PROVE  FALSE
      BY <2>1, <3>1 DEF Finish
    <3> QED
      BY <2>1, <2>3, <3>1
         DEF Continue, EditPackageFile, BidUnusable, BidHeld, BidAcquire, BidRefused,
             ConfigRefused, BidFrozen, BidDone, Fetching, Copy, CopyDone, Round, ResolveDone,
             Unwritable, Writable, Prune, PruneDone, WriteLock, Verify, UndoPackageFile,
             UndoLock, UndoClear, UndoVendor, Undo, VendorNext, VendorDone, Repin,
             RepinNothing, control
  <2>4. CASE Crash
    BY <2>1, <2>4 DEF Crash, Ended, Throw, Die, DieBetween, DieInPackageFile, DieInLock,
                      DieInTree, DieInClear
  <2>5. CASE Environment
    BY <2>1, <2>5 DEF Environment, Author, Damage, HandCopy, CleanCache, Upgrade, Publish,
                      Disturbed, control
  <2> QED BY <2>2, <2>3, <2>4, <2>5 DEF Next
<1> QED BY <1>1, <1>2, <1>3 DEF VerbInv

LEMMA VerbInvInit == Init => VerbInv
BY DEF Init, VerbInv, Undoing

LEMMA VerbInvStutter == VerbInv /\ UNCHANGED vars => VerbInv'
BY DEF VerbInv, vars, control

\* Only the last check of a sync makes a project synced, and it stays so only
\* while nothing but the cache and the repository changes.
LEMMA IntoSynced ==
  ASSUME VerbInv, Next, Synced'
  PROVE  \/ Verify /\ VerifyVerdict = "ok" /\ mode \in Syncs
         \/ Synced /\ (CleanCache \/ Publish)
<1>1. pc' = "idle" /\ mode' \in Syncs /\ verdict' = "ok"
  BY DEF Synced
<1>2. CASE Start
  BY <1>1, <1>2 DEF Start, Sync, Get, Remove, Tidy, Vendor, Refreeze, Begin, Syncs, Changes
<1>3. CASE Continue
  <2>1. ASSUME NEW v, Finish(v)
        PROVE  v = "ok" /\ mode \in Syncs
    BY <1>1, <2>1 DEF Finish
  <2>2. CASE BidRefused \/ ConfigRefused \/ BidFrozen \/ Unwritable
    BY <2>1, <2>2 DEF BidRefused, ConfigRefused, BidFrozen, Unwritable
  <2>3. CASE Verify
    BY <2>1, <2>3 DEF Verify
  <2>4. CASE WriteLock
    <3>1. mode = "tidy"
      BY <1>1, <2>4 DEF WriteLock
    <3>2. Finish("ok")
      BY <2>4, <3>1 DEF WriteLock
    <3> QED BY <2>1, <3>1, <3>2 DEF Syncs, Changes
  <2>5. CASE VendorDone \/ Repin \/ RepinNothing
    BY <2>1, <2>5 DEF VendorDone, Repin, Repinning, RepinNothing, VerbInv, Syncs, Changes
  <2>6. CASE UndoPackageFile \/ UndoLock \/ UndoClear \/ UndoVendor
    BY <1>1, <2>6 DEF UndoPackageFile, UndoLock, UndoClear, UndoVendor, Undo, Undoing, VerbInv
  <2>7. CASE EditPackageFile \/ BidUnusable \/ BidHeld \/ BidAcquire \/ BidDone \/ Copy
             \/ CopyDone \/ Round \/ ResolveDone \/ Writable \/ Prune \/ PruneDone
             \/ VendorNext
    BY <1>1, <2>7
       DEF EditPackageFile, BidUnusable, BidHeld, BidAcquire, BidDone, Fetching, Copy,
           CopyDone, Round, ResolveDone, Writable, Prune, PruneDone, VendorNext, control
  <2> QED BY <1>3, <2>2, <2>3, <2>4, <2>5, <2>6, <2>7 DEF Continue
<1>4. CASE Crash
  BY <1>1, <1>4 DEF Crash, Ended, Throw, Die, DieBetween, DieInPackageFile, DieInLock, DieInTree,
              DieInClear
<1>5. CASE Author \/ Damage \/ HandCopy \/ Upgrade
  BY <1>1, <1>5 DEF Author, Damage, HandCopy, Upgrade, Disturbed
<1>6. CASE CleanCache \/ Publish
  BY <1>1, <1>6 DEF CleanCache, Publish, control, Synced
<1> QED BY <1>2, <1>3, <1>4, <1>5, <1>6 DEF Next, Environment

(***************************************************************************)
(* What the lock may pin.                                                  *)
(***************************************************************************)
\* No tree that evaluates to an error, and with the empty canon only one that
\* has no main file to evaluate.
SoundEntry(e) == e.tree.bytes # "broken" /\ (e.canon = NoCanon => Mainless(e.tree))

Sound(l) == \A k \in Key : l[k] # NoEntry => SoundEntry(l[k]) /\ Usable(k)

\* Sound pins in the lock, in the answer about to be written and in what
\* would be put back; a torn or absent lockfile pins nothing.
SoundInv ==
  /\ Sound(lock) /\ Sound(newlock) /\ Sound(snap.lock)
  /\ lockFile # "whole" => lock = NoLock
  /\ snap.lockFile # "whole" => snap.lock = NoLock

LEMMA NothingIsSound == Sound(NoLock)
BY DEF Sound, NoLock

LEMMA EngineFacts == TypeOK => engine \in Nat /\ engine # 0
BY DEF TypeOK, WorldTypeOK

\* Only a tree that evaluates is pinned, or one that has no main file.
LEMMA PinnedIsSound ==
  ASSUME TypeOK, TreesFound, ResolveDone
  PROVE  Sound(newlock')
<1>1. ASSUME NEW k \in Key, newlock'[k] # NoEntry
      PROVE  SoundEntry(newlock'[k]) /\ Usable(k)
  <2> DEFINE t == LocalTree(k, rsel[k])
  <2>1. /\ k \in Asked(rsel) \ (rmissing \cup Unevaluable)
        /\ Usable(k)
        /\ newlock'[k] = Pin(t, rsel[k], engine)
    BY <1>1, PinnedTypes
  <2>2. t.bytes # "broken"
    <3>1. Mainless(t) \/ Evaluates(k, t, lock, vendor, store, engine)
      BY <2>1 DEF Unevaluable
    <3> QED BY <3>1 DEF Mainless, Evaluates, Meaningful
  <2>3. newlock'[k].tree = t /\ newlock'[k].canon = CanonOf(t, engine)
    BY <2>1 DEF Pin
  <2> HIDE DEF t
  <2>4. newlock'[k].canon = NoCanon => Mainless(t)
    BY <2>3, EmptyCanon, EngineFacts
  <2> QED BY <2>1, <2>2, <2>3, <2>4 DEF SoundEntry
<1> QED BY <1>1 DEF Sound

\* What is pinned anew had a main file.
LEMMA RepinnedIsSound ==
  ASSUME TypeOK, Sound(lock), Repinning
  PROVE  Sound(Repinned)
<1>1. ASSUME NEW k \in Key, Repinned[k] # NoEntry
      PROVE  SoundEntry(Repinned[k]) /\ Usable(k)
  <2>1. k \in Locked /\ lock[k] # NoEntry
    BY <1>1 DEF Repinned, Locked
  <2>2. lock[k] \in Entry
    BY <2>1 DEF TypeOK, ProjectTypeOK
  <2>3. /\ Repinned[k].tree = lock[k].tree
        /\ Repinned[k].canon = CanonOf(LockedTree(k), engine)
    BY <2>1, <2>2 DEF Repinned, Entry
  <2>4. ~Mainless(LockedTree(k))
    BY <2>1 DEF Repinning, Unread
  <2>5. Repinned[k].canon # NoCanon
    BY <2>3, <2>4, EmptyCanon, EngineFacts
  <2> QED BY <2>1, <2>3, <2>5 DEF Sound, SoundEntry
<1> QED BY <1>1 DEF Sound

LEMMA SoundInvStep ==
  ASSUME TypeOK, TreesFound, SoundInv, Next
  PROVE  SoundInv'
<1>1. Now.lock = lock /\ Now.lockFile = lockFile
  BY DEF Now
<1>2. Now'.lock = lock' /\ Now'.lockFile = lockFile'
  BY DEF Now
<1>3. CASE Start
  <2>1. CASE Tidy
    BY <1>1, <2>1, NothingIsSound DEF Tidy, Begin, Resolving, project, SoundInv
  <2>2. CASE ~Tidy
    <3>1. UNCHANGED <<lock, lockFile, newlock>> /\ snap' = Now
      BY <1>3, <2>2 DEF Start, Begin, Sync, Get, Remove, Vendor, Refreeze, Bidding, Editing,
                        project, resolving
    <3> QED BY <1>1, <3>1 DEF SoundInv
  <2> QED BY <2>1, <2>2
<1>4. CASE Continue
  <2>1. CASE ResolveDone
    BY <2>1, PinnedIsSound DEF ResolveDone, SoundInv, project, history
  <2>2. CASE WriteLock
    <3>1. newlock' \in {newlock, NoLock} /\ UNCHANGED snap /\ lock' = newlock /\ lockFile' = "whole"
      BY <2>2 DEF WriteLock, Finish, Cleared, resolving, history
    <3> QED BY <3>1, NothingIsSound DEF SoundInv
  <2>3. CASE UndoLock
    BY <2>3 DEF UndoLock, Undo, SoundInv, resolving, history
  <2>4. CASE BidRefused \/ ConfigRefused \/ BidFrozen \/ Unwritable \/ Verify \/ VendorDone \/ RepinNothing
    <3>1. newlock' = NoLock /\ UNCHANGED <<snap, lock, lockFile>>
      BY <2>4 DEF BidRefused, ConfigRefused, BidFrozen, Unwritable, Verify, VendorDone, RepinNothing,
                  Finish, Cleared, history, project
    <3> QED BY <3>1, NothingIsSound DEF SoundInv
  <2>5. CASE CopyDone
    BY <2>5, NothingIsSound DEF CopyDone, Resolving, SoundInv, history, project
  <2>6. CASE EditPackageFile \/ BidUnusable \/ BidHeld \/ BidAcquire \/ BidDone \/ Copy
             \/ Round \/ Writable \/ Prune \/ PruneDone \/ UndoPackageFile \/ UndoClear
             \/ UndoVendor \/ VendorNext
    <3>1. UNCHANGED <<snap, lock, lockFile, newlock>>
      BY <2>6 DEF EditPackageFile, BidUnusable, BidHeld, BidAcquire, BidDone, Copy, Round,
                  Writable, Prune, PruneDone, UndoPackageFile, UndoClear, UndoVendor, Undo,
                  VendorNext, Bidding, project, resolving, history
    <3> QED BY <3>1 DEF SoundInv
  <2>7. CASE Repin
    <3>1. newlock' = NoLock /\ UNCHANGED <<snap, lockFile>> /\ lock' = Repinned /\ Repinning
      BY <2>7 DEF Repin, Finish, Cleared, history
    <3>2. lock = NoLock => Repinned = NoLock
      BY DEF Repinned, Locked, NoLock
    <3> QED BY <3>1, <3>2, NothingIsSound, RepinnedIsSound DEF SoundInv
  <2> QED BY <1>4, <2>1, <2>2, <2>3, <2>4, <2>5, <2>6, <2>7 DEF Continue
<1>5. CASE Crash
  <2>1. newlock' = NoLock /\ UNCHANGED snap
    BY <1>5 DEF Crash, Ended, Throw, Die, DieBetween, DieInPackageFile, DieInLock, DieInTree, DieInClear,
                Cleared, history
  <2>2. UNCHANGED <<lock, lockFile>> \/ (lock' = NoLock /\ lockFile' = "torn")
    BY <1>5 DEF Crash, Throw, DieBetween, DieInPackageFile, DieInLock, DieInTree, DieInClear,
                project
  <2> QED BY <2>1, <2>2, NothingIsSound DEF SoundInv
<1>6. CASE Author \/ Damage \/ HandCopy \/ Upgrade
  <2>1. snap' = Now' /\ UNCHANGED <<lock, lockFile, newlock>>
    BY <1>6 DEF Author, Damage, HandCopy, Upgrade, Disturbed, resolving, project
  <2> QED BY <1>2, <2>1 DEF SoundInv
<1>7. CASE CleanCache \/ Publish
  BY <1>7 DEF CleanCache, Publish, SoundInv, project, resolving, history
<1> QED BY <1>3, <1>4, <1>5, <1>6, <1>7 DEF Next, Environment

LEMMA SoundInvInit == Init => SoundInv
<1>1. Init => snap.lock = NoLock
  BY DEF Init, Now
<1> QED BY <1>1, NothingIsSound DEF Init, SoundInv

LEMMA SoundInvStutter == SoundInv /\ UNCHANGED vars => SoundInv'
BY DEF SoundInv, vars, project, resolving, history

\* A sync that answered ok has found every pin's main file, so it pins a
\* meaning of each.
Meant == Synced => \A k \in Locked : lock[k].canon # NoCanon

LEMMA MeantStep ==
  ASSUME TypeOK, VerbInv, Meant, Next
  PROVE  Meant'
<1>1. CASE Synced /\ (CleanCache \/ Publish)
  <2>1. UNCHANGED lock
    BY <1>1 DEF CleanCache, Publish, project
  <2> QED BY <1>1, <2>1 DEF Meant, Locked
<1>2. CASE Verify /\ VerifyVerdict = "ok" /\ mode \in Syncs
  <2>1. UNCHANGED lock
    BY <1>2 DEF Verify, project
  <2>2. Mismatched = {} /\ Unread = {}
    BY <1>2 DEF VerifyVerdict
  <2>3. ASSUME NEW k \in Locked
        PROVE  lock[k].canon # NoCanon
    <3>1. ~Mainless(LockedTree(k)) /\ CanonOf(LockedTree(k), engine) = lock[k].canon
      BY <2>2 DEF Mismatched, Unread
    <3> QED BY <3>1, EmptyCanon, EngineFacts
  <2> QED BY <2>1, <2>3 DEF Meant, Locked
<1>3. CASE ~Synced'
  BY <1>3 DEF Meant
<1> QED BY <1>1, <1>2, <1>3, IntoSynced

\* No verb, crash, damage or change of engine makes the lockfile pin a tree
\* that evaluated to an error when it was pinned, or a key no store can hold;
\* a lockfile torn by a crash pins nothing at all.  A tree that has lost its
\* main file is pinned, with the empty canon, and no other is; but no sync
\* answers ok over such a pin.
THEOREM LockIsSound == Spec => []EmptyPinsAreRefused
<1> DEFINE Inv == SoundInv /\ VerbInv /\ Meant
<1>1. Init => Inv
  <2>1. Init => Meant
    BY DEF Init, Meant, Synced
  <2> QED BY <2>1, SoundInvInit, VerbInvInit
<1>2. TypeOK /\ TreesFound /\ Inv /\ [Next]_vars => Inv'
  <2>1. Meant /\ UNCHANGED vars => Meant'
    BY DEF Meant, Synced, Locked, vars, project, control
  <2> QED BY <2>1, SoundInvStep, SoundInvStutter, VerbInvStep, VerbInvStutter, MeantStep
<1>3. Inv => EmptyPinsAreRefused
  BY DEF SoundInv, Sound, SoundEntry, Meant, EmptyPinsAreRefused, Locked
<1> QED BY <1>1, <1>2, <1>3, TypeCorrect, PTL DEF Spec

(***************************************************************************)
(* Module Project implements module Change: every step of a verb is a step *)
(* its user sees, or none.  What a running verb has done so far, against   *)
(* the project it found:                                                   *)
(***************************************************************************)
Edited(m, from, to) ==
  CASE m = "get"    -> to = from \/ Promise!Raised(from, to)
    [] m = "remove" -> Promise!Dropped(from, to)
    [] OTHER        -> to = from

Restoring == {"undo_lock", "undo_clear", "undo_vendor"}
Keeping == {"copy", "resolve", "pin", "vendoring"}
Endings == {"none", "ok", "died", "threw"}

\* No tree that was there is gone.
NoneGone == \A k \in Key : snap.vendor[k] # NoTree => vendor[k] # NoTree

ChangeInv ==
  /\ pc = "edit" => /\ mode \in Changes /\ declared = snap.declared
                    /\ Edited(mode, snap.declared, selected)
  /\ pc \notin {"idle", "edit"} \cup Restoring => Edited(mode, snap.declared, declared)
  /\ pc # "idle" /\ mode \in {"frozen", "vendor", "refreeze"} =>
       lock = snap.lock /\ lockFile = snap.lockFile
  /\ pc # "idle" /\ lockFile # snap.lockFile => lockFile = "whole"
  /\ pc # "idle" /\ mode = "vendor" => pc = "vendoring"
  /\ pc # "idle" /\ mode = "tidy" => pc \in {"resolve", "pin", "write"}
  /\ pc # "idle" /\ mode = "refreeze" => pc = "repin"
  /\ pc # "idle" /\ mode \in {"tidy", "refreeze"} => vendor = snap.vendor
  /\ pc \in {"edit", "bid"} =>
       lock = snap.lock /\ lockFile = snap.lockFile /\ vendor = snap.vendor
  /\ pc \in Keeping => NoneGone
  /\ pc \in Undoing => verdict \notin Endings

LEMMA NowFields ==
  /\ Now.declared = declared /\ Now.lock = lock /\ Now.lockFile = lockFile /\ Now.vendor = vendor
  /\ Now'.declared = declared' /\ Now'.lock = lock' /\ Now'.lockFile = lockFile'
  /\ Now'.vendor = vendor'
BY DEF Now

LEMMA GetEdits ==
  ASSUME TypeOK, NEW k \in Key, NEW v \in Version, Get(k, v)
  PROVE  Edited("get", declared, selected')
<1>1. CASE declared[k] < v
  <2>1. selected' = [declared EXCEPT ![k] = v]
    BY <1>1 DEF Get, Editing
  <2>2. selected'[k] = v
    BY <2>1 DEF TypeOK, ProjectTypeOK, Bids
  <2> QED BY <1>1, <2>1, <2>2 DEF Edited, Promise!Raised
<1>2. CASE ~(declared[k] < v)
  BY <1>2 DEF Get, Editing, Edited
<1> QED BY <1>1, <1>2

LEMMA StartStep ==
  ASSUME TypeOK, Start
  PROVE  ChangeInv'
<1>1. ASSUME NEW frozen \in BOOLEAN, Sync(frozen)
      PROVE  ChangeInv'
  BY <1>1, NowFields DEF Sync, Begin, project, ChangeInv, NoneGone, Edited, Undoing, Restoring, Keeping
<1>2. ASSUME NEW k \in Key, Remove(k)
      PROVE  ChangeInv'
  <2>1. Edited("remove", declared, selected')
    BY <1>2 DEF Remove, Editing, Edited, Promise!Dropped
  <2>2. /\ pc' = "edit" /\ mode' = "remove" /\ snap' = Now
        /\ UNCHANGED <<declared, lock, lockFile, vendor>>
    BY <1>2 DEF Remove, Begin, project
  <2> QED BY <2>1, <2>2, NowFields DEF ChangeInv, Undoing, Restoring, Keeping, Changes
<1>3. ASSUME NEW k \in Key, NEW v \in Version, Get(k, v)
      PROVE  ChangeInv'
  <2>1. Edited("get", declared, selected')
    BY <1>3, GetEdits
  <2>2. /\ pc' = "edit" /\ mode' = "get" /\ snap' = Now
        /\ UNCHANGED <<declared, lock, lockFile, vendor>>
    BY <1>3 DEF Get, Begin, project
  <2> QED BY <2>1, <2>2, NowFields DEF ChangeInv, Undoing, Restoring, Keeping, Changes
<1>4. CASE Tidy
  BY <1>4, NowFields DEF Tidy, Begin, project, ChangeInv, NoneGone, Edited, Undoing, Restoring, Keeping
<1>5. CASE Vendor
  BY <1>5, NowFields DEF Vendor, Begin, project, ChangeInv, NoneGone, Edited, Undoing, Restoring, Keeping
<1>6. CASE Refreeze
  BY <1>6, NowFields DEF Refreeze, Begin, project, ChangeInv, NoneGone, Edited, Undoing, Restoring, Keeping
<1> QED BY <1>1, <1>2, <1>3, <1>4, <1>5, <1>6 DEF Start

\* The answers a verb gives when it is not taken by its death.
LEMMA Answers ==
  ASSUME BidRefused \/ ConfigRefused \/ BidFrozen \/ Unwritable \/ Verify \/ VendorDone \/ RepinNothing
  PROVE  /\ pc \notin {"idle", "edit"} \cup Undoing /\ UNCHANGED project
         /\ \E v : /\ Finish(v) /\ v \notin {"none", "died", "threw"}
                   /\ v = "refused" => pc = "bid"
                   /\ v \in {"frozen", "error"} => pc \in {"bid", "pin", "repin"}
<1>1. CASE BidRefused \/ ConfigRefused \/ BidFrozen \/ VendorDone \/ RepinNothing
  BY <1>1 DEF BidRefused, ConfigRefused, BidFrozen, VendorDone, RepinNothing, Fetching, Undoing
<1>2. CASE Unwritable
  BY <1>2 DEF Unwritable, ResolveVerdict, Undoing
<1>3. CASE Verify
  BY <1>3 DEF Verify, VerifyVerdict, Undoing
<1> QED BY <1>1, <1>2, <1>3

LEMMA FinishChange ==
  ASSUME ChangeInv, pc \notin {"idle", "edit"} \cup Undoing,
         UNCHANGED project, NEW v, Finish(v), v \notin {"none", "died", "threw"}
  PROVE  ChangeInv'
<1>1. UNCHANGED <<declared, lock, lockFile, mode, snap>> /\ verdict' = v
  BY DEF Finish, project, history
<1>2. CASE mode \in Changes /\ v # "ok"
  BY <1>1, <1>2 DEF Finish, ChangeInv, Undoing, Restoring, Keeping, Changes, Endings
<1>3. CASE ~(mode \in Changes /\ v # "ok")
  BY <1>1, <1>3 DEF Finish, ChangeInv, Undoing, Restoring, Keeping
<1> QED BY <1>2, <1>3

\* The steps of a verb that write neither the package file nor the lock.
Quiet ==
  \/ BidUnusable \/ BidHeld \/ BidAcquire \/ BidDone \/ Copy \/ CopyDone \/ Round
  \/ ResolveDone \/ Writable \/ Prune \/ PruneDone \/ VendorNext

LEMMA QuietStep ==
  ASSUME Quiet
  PROVE  /\ pc \notin {"idle", "edit"} \cup Undoing /\ pc' \notin {"idle", "edit"} \cup Undoing
         /\ UNCHANGED <<declared, lock, lockFile, mode, verdict, snap>>
         /\ pc = "vendoring" => pc' = "vendoring"
<1>1. CASE BidUnusable \/ BidHeld \/ BidAcquire \/ BidDone
  BY <1>1 DEF BidUnusable, BidHeld, BidAcquire, Fetching, BidDone, project, control,
              history, Undoing
<1>2. CASE Copy \/ CopyDone \/ Round \/ ResolveDone
  BY <1>2 DEF Copy, CopyDone, Round, ResolveDone, project, control, history, Undoing
<1>3. CASE Writable \/ Prune \/ PruneDone \/ VendorNext
  BY <1>3 DEF Writable, Prune, PruneDone, VendorNext, project, control, history, Undoing
<1> QED BY <1>1, <1>2, <1>3 DEF Quiet

\* They take no tree away, until what was selected may be written.
LEMMA QuietTrees ==
  ASSUME TypeOK, TreesFound, ChangeInv, Quiet
  PROVE  /\ pc' = "bid" => pc = "bid" /\ UNCHANGED vendor
         /\ pc' \in Keeping => NoneGone'
         /\ mode = "tidy" => pc' \in {"resolve", "pin", "write"} /\ UNCHANGED vendor
         /\ mode # "refreeze"
<1>1. CASE BidUnusable \/ BidHeld \/ BidAcquire
  BY <1>1 DEF BidUnusable, BidHeld, BidAcquire, Fetching, project, control, ChangeInv, Keeping
<1>2. CASE BidDone
  BY <1>2 DEF BidDone, project, history, ChangeInv, NoneGone, Keeping
<1>3. CASE Copy
  <2>1. PICK k \in First(ToCopy) : vendor' = [vendor EXCEPT ![k] = TreeIn(k, dirs[k])]
    BY <1>3 DEF Copy
  <2>2. k \in Key /\ TreeIn(k, dirs[k]) # NoTree /\ vendor \in [Key -> Tree \cup {NoTree}]
    BY DEF First, ToCopy, TreesFound, DirsFound, TypeOK, ProjectTypeOK
  <2>3. pc = "copy" /\ UNCHANGED <<pc, snap>>
    BY <1>3 DEF Copy, control, history
  <2>4. NoneGone'
    BY <2>1, <2>2, <2>3 DEF ChangeInv, NoneGone, Keeping
  <2> QED BY <2>3, <2>4 DEF ChangeInv
<1>4. CASE CopyDone \/ Round \/ ResolveDone
  <2>1. /\ pc \in {"copy", "resolve"} /\ pc' \in {"resolve", "pin"}
        /\ UNCHANGED <<vendor, snap>>
    BY <1>4 DEF CopyDone, Round, ResolveDone, project, control, history
  <2> QED BY <2>1 DEF ChangeInv, NoneGone, Keeping
<1>5. CASE Writable \/ Prune \/ PruneDone
  BY <1>5 DEF Writable, Prune, PruneDone, project, control, ChangeInv, Keeping
<1>6. CASE VendorNext
  <2>1. PICK k \in First(pending) :
          IF k \in Unfetched THEN UNCHANGED vendor
          ELSE vendor' = [vendor EXCEPT ![k] = LockedTree(k)]
    BY <1>6 DEF VendorNext
  <2>2. pc = "vendoring" /\ UNCHANGED <<pc, snap>>
    BY <1>6 DEF VendorNext, control, history
  <2>3. k \in Locked /\ k \in Key /\ vendor \in [Key -> Tree \cup {NoTree}]
    BY <2>2 DEF First, TreesFound, VendoringLocked, Locked, TypeOK, ProjectTypeOK
  <2>4. k \in Unfetched \/ LockedTree(k) # NoTree
    BY <2>3 DEF Unfetched
  <2>5. NoneGone'
    BY <2>1, <2>2, <2>3, <2>4 DEF ChangeInv, NoneGone, Keeping
  <2> QED BY <2>2, <2>5 DEF ChangeInv
<1> QED BY <1>1, <1>2, <1>3, <1>4, <1>5, <1>6 DEF Quiet

LEMMA ContinueStep ==
  ASSUME TypeOK, TreesFound, UndoInv, FrozenInv, ChangeInv, Continue
  PROVE  ChangeInv'
<1>1. CASE EditPackageFile
  BY <1>1 DEF EditPackageFile, history, ChangeInv, Undoing, Restoring, Keeping, Changes
<1>2. CASE Quiet
  <2>1. /\ pc \notin {"idle", "edit"} \cup Undoing /\ pc' \notin {"idle", "edit"} \cup Undoing
        /\ UNCHANGED <<declared, lock, lockFile, mode, verdict, snap>>
        /\ pc = "vendoring" => pc' = "vendoring"
    BY <1>2, QuietStep
  <2>2. /\ pc' = "bid" => pc = "bid" /\ UNCHANGED vendor
        /\ pc' \in Keeping => NoneGone'
        /\ mode = "tidy" => pc' \in {"resolve", "pin", "write"} /\ UNCHANGED vendor
        /\ mode # "refreeze"
    BY <1>2, QuietTrees
  <2>3. Edited(mode, snap.declared, declared)' <=> Edited(mode, snap.declared, declared)
    BY <2>1 DEF Edited
  <2> QED BY <2>1, <2>2, <2>3 DEF ChangeInv, Undoing, Restoring
<1>3. CASE BidRefused \/ ConfigRefused \/ BidFrozen \/ Unwritable \/ Verify \/ VendorDone \/ RepinNothing
  BY <1>3, Answers, FinishChange
<1>6. CASE Repin
  <2>1. pc' = "idle"
    BY <1>6 DEF Repin, Finish
  <2> QED BY <2>1 DEF ChangeInv, Undoing, Restoring, Keeping
<1>4. CASE WriteLock
  <2>1. /\ pc = "write" /\ pc' \in {"idle", "verify"} /\ (mode = "tidy" => pc' = "idle")
        /\ UNCHANGED <<declared, mode, snap>> /\ lock' = newlock /\ lockFile' = "whole"
    BY <1>4 DEF WriteLock, Finish, history, Changes
  <2>2. mode = "frozen" => UNCHANGED <<lock, lockFile>>
    BY <2>1 DEF FrozenInv
  <2> QED BY <2>1, <2>2 DEF ChangeInv, Undoing, Restoring, Keeping
<1>5. CASE UndoPackageFile \/ UndoLock \/ UndoClear \/ UndoVendor
  <2>1. /\ pc \in Undoing /\ pc' \in Restoring \cup {"idle"} /\ UNCHANGED <<mode, verdict, snap>>
        /\ UNCHANGED <<lock, lockFile>> \/ (lock' = snap.lock /\ lockFile' = snap.lockFile)
    BY <1>5 DEF UndoPackageFile, UndoLock, UndoClear, UndoVendor, Undo, history, Undoing,
                Restoring
  <2>2. mode \in Changes
    BY <2>1 DEF UndoInv
  <2> QED BY <2>1, <2>2 DEF ChangeInv, Undoing, Restoring, Keeping, Changes
<1> QED BY <1>1, <1>2, <1>3, <1>4, <1>5, <1>6 DEF Continue, Quiet

LEMMA ChangeInvStep ==
  ASSUME TypeOK, TreesFound, UndoInv, FrozenInv, ChangeInv, Next
  PROVE  ChangeInv'
<1>1. CASE Crash
  <2>1. pc' = "idle"
    BY <1>1 DEF Crash, Throw, DieBetween, DieInPackageFile, DieInLock, DieInTree, DieInClear,
                Die, Ended
  <2> QED BY <2>1 DEF ChangeInv, Undoing, Restoring, Keeping
<1>2. CASE Author \/ Damage \/ HandCopy \/ Upgrade
  <2>1. pc' = "idle"
    BY <1>2 DEF Author, Damage, HandCopy, Upgrade, Disturbed
  <2> QED BY <2>1 DEF ChangeInv, Undoing, Restoring, Keeping
<1>3. CASE CleanCache \/ Publish
  BY <1>3 DEF CleanCache, Publish, project, control, syncing, history, ChangeInv, NoneGone
<1> QED BY <1>1, <1>2, <1>3, StartStep, ContinueStep DEF Next, Environment

(***************************************************************************)
(* Each step, seen from outside.                                           *)
(***************************************************************************)
Shown == IF pc = "idle" THEN Now ELSE snap
Verdict == IF pc = "idle" THEN verdict ELSE "none"
Seen == <<Shown, pc # "idle", mode, Verdict>>

LEMMA RunningUnseen ==
  ASSUME pc # "idle", pc' # "idle", UNCHANGED <<mode, snap>>
  PROVE  UNCHANGED Seen
BY DEF Seen, Shown, Verdict

LEMMA StartSeen ==
  ASSUME Start
  PROVE  Promise!Begin
<1>1. pc = "idle" /\ pc' # "idle" /\ snap' = Now
  BY DEF Start, Sync, Get, Remove, Tidy, Vendor, Refreeze, Begin
<1> QED BY <1>1 DEF Promise!Begin

\* A verb that ends by itself: pc tells that none of its writes is under way.
LEMMA AnswerSeen ==
  ASSUME VerbInv, ChangeInv, ChangeInv', HistoryTypeOK,
         pc \notin {"idle", "edit"} \cup Undoing, pc' = "idle",
         UNCHANGED <<declared, vendor, mode, snap>>,
         UNCHANGED <<lock, lockFile>> \/ lockFile' = "whole" \/ UNCHANGED lockFile,
         mode \in {"frozen", "vendor"} => UNCHANGED <<lock, lockFile>>,
         mode = "refreeze" => verdict' = "ok" \/ UNCHANGED <<lock, lockFile>>,
         verdict' \notin {"none", "died", "threw"}, mode \in Changes => verdict' = "ok",
         verdict' = "refused" => pc = "bid" /\ UNCHANGED <<lock, lockFile>>,
         verdict' \in {"frozen", "error"} => pc \in {"bid", "pin", "repin"}
  PROVE  Promise!Answer
<1>1. Edited(mode, snap.declared, declared)
  BY DEF ChangeInv, Undoing, Restoring
<1>2. /\ mode \in {"frozen", "vendor"} => lock' = snap.lock /\ lockFile' = snap.lockFile
      /\ mode = "refreeze" /\ verdict' # "ok" => lock' = snap.lock /\ lockFile' = snap.lockFile
      /\ mode \in {"tidy", "refreeze"} => vendor' = snap.vendor
  BY DEF ChangeInv
<1>3. lockFile' # snap.lockFile => lockFile' = "whole"
  BY DEF ChangeInv
<1>4. verdict' = "refused" => Now' = snap
  <2>1. SUFFICES ASSUME verdict' = "refused"
                 PROVE  Now' = snap
    OBVIOUS
  <2>2. declared' = snap.declared
    BY <1>1, <2>1 DEF Edited, Changes
  <2>3. lock' = snap.lock /\ lockFile' = snap.lockFile /\ vendor' = snap.vendor
    BY <2>1 DEF ChangeInv
  <2> QED BY <2>2, <2>3 DEF HistoryTypeOK, Snapshot, Now
<1>5. verdict' \in {"frozen", "error"} \/ mode = "vendor" =>
        \A k \in Key : snap.vendor[k] # NoTree => vendor'[k] # NoTree
  <2>1. SUFFICES ASSUME pc \in {"bid", "pin", "repin", "vendoring"}
                 PROVE  \A k \in Key : snap.vendor[k] # NoTree => vendor[k] # NoTree
    BY DEF ChangeInv
  <2>2. CASE pc \in {"pin", "vendoring"}
    BY <2>2 DEF ChangeInv, NoneGone, Keeping
  <2>3. CASE pc = "bid"
    BY <2>3 DEF ChangeInv
  <2>4. CASE pc = "repin"
    BY <2>4 DEF ChangeInv, VerbInv
  <2> QED BY <2>1, <2>2, <2>3, <2>4
<1>6. Edited(mode, snap.declared, declared')
  BY <1>1
<1>7. mode \in Changes /\ verdict' # "ok" => FALSE
  OBVIOUS
<1> QED BY <1>2, <1>3, <1>4, <1>5, <1>6, <1>7, NowFields
        DEF Promise!Answer, Promise!Carried, Promise!SameLock, Promise!KeepsTrees, Promise!Died,
            Edited, Changes

LEMMA ContinueSeen ==
  ASSUME TypeOK, VerbInv, UndoInv, FrozenInv, ChangeInv, ChangeInv', TypeOK', UndoInv', Continue
  PROVE  Promise!Answer \/ UNCHANGED Seen
<1>1. CASE Quiet
  BY <1>1, QuietStep, RunningUnseen
<1>2. CASE EditPackageFile \/ UndoPackageFile \/ UndoLock \/ UndoClear
  <2>1. pc # "idle" /\ pc' # "idle" /\ UNCHANGED <<mode, snap>>
    BY <1>2 DEF EditPackageFile, UndoPackageFile, UndoLock, UndoClear, Undo, history
  <2> QED BY <2>1, RunningUnseen
<1>3. CASE UndoVendor
  <2>1. /\ pc \in Undoing /\ pc # "idle" /\ pc' = "idle" /\ UNCHANGED <<mode, verdict, snap>>
    BY <1>3 DEF UndoVendor, Undo, history, Undoing
  <2>2. verdict \notin Endings /\ mode \in Changes
    BY <2>1 DEF ChangeInv, UndoInv
  <2>3. Now' = snap'
    BY <2>1, <2>2 DEF UndoInv, TakenBack, Endings
  <2> QED BY <2>1, <2>2, <2>3
          DEF Promise!Answer, Promise!Died, Promise!SameLock, Promise!KeepsTrees, Changes, Endings
<1>4. CASE BidRefused \/ ConfigRefused \/ BidFrozen \/ Unwritable \/ Verify \/ VendorDone \/ RepinNothing
  <2>1. PICK v : /\ Finish(v) /\ v \notin {"none", "died", "threw"}
                 /\ v = "refused" => pc = "bid"
                 /\ v \in {"frozen", "error"} => pc \in {"bid", "pin", "repin"}
    BY <1>4, Answers
  <2>2. /\ pc \notin {"idle", "edit"} \cup Undoing
        /\ UNCHANGED <<declared, lock, lockFile, vendor, mode, snap>>
        /\ verdict' = v
    BY <1>4, <2>1, Answers DEF Finish, project, history
  <2>3. CASE mode \in Changes /\ v # "ok"
    BY <2>1, <2>2, <2>3, RunningUnseen DEF Finish
  <2>4. CASE ~(mode \in Changes /\ v # "ok")
    BY <2>1, <2>2, <2>4, AnswerSeen DEF Finish, TypeOK
  <2> QED BY <2>3, <2>4
<1>5. CASE WriteLock
  <2>1. /\ pc = "write" /\ UNCHANGED <<declared, vendor, mode, snap>> /\ lock' = newlock /\ lockFile' = "whole"
    BY <1>5 DEF WriteLock, Finish, history
  <2>2. CASE mode = "tidy"
    <3>1. pc' = "idle" /\ verdict' = "ok"
      BY <1>5, <2>2 DEF WriteLock, Finish
    <3> QED BY <2>1, <2>2, <3>1, AnswerSeen DEF TypeOK, Undoing, Changes
  <2>3. CASE mode # "tidy"
    <3>1. pc' = "verify"
      BY <1>5, <2>3 DEF WriteLock
    <3> QED BY <2>1, <3>1, RunningUnseen
  <2> QED BY <2>2, <2>3
<1>6. CASE Repin
  <2>1. /\ pc = "repin" /\ mode = "refreeze" /\ pc' = "idle" /\ verdict' = "ok"
        /\ UNCHANGED <<declared, lockFile, vendor, mode, snap>>
    BY <1>6 DEF Repin, Repinning, Finish, history, VerbInv
  <2> QED BY <2>1, AnswerSeen DEF TypeOK, Undoing, Changes
<1> QED BY <1>1, <1>2, <1>3, <1>4, <1>5, <1>6 DEF Continue, Quiet

LEMMA CrashSeen ==
  ASSUME TypeOK, UndoInv, FrozenInv, SoundInv, ChangeInv, SoundInv', Crash
  PROVE  Promise!Die
<1>1. pc # "idle" /\ pc' = "idle" /\ verdict' \in {"died", "threw"} /\ UNCHANGED <<mode, snap>>
  BY DEF Crash, Throw, DieBetween, DieInPackageFile, DieInLock, DieInTree, DieInClear, Die,
         Ended, history
<1>2. UNCHANGED declared \/ (declared' = NoBids /\ pc \in {"undo_file", "edit"})
  BY DEF Crash, Throw, DieBetween, DieInPackageFile, DieInLock, DieInTree, DieInClear, project
<1>3. \/ UNCHANGED <<lock, lockFile>>
      \/ lock' = NoLock /\ lockFile' = "torn" /\ pc \in {"write", "undo_lock", "repin"}
  BY DEF Repinning, Crash, Throw, DieBetween, DieInPackageFile, DieInLock, DieInTree, DieInClear, project
<1>4. \/ Edited(mode, snap.declared, declared') \/ declared' = snap.declared
      \/ mode \in Changes /\ declared' = NoBids
  <2>1. CASE declared' = NoBids /\ pc \in {"undo_file", "edit"}
    BY <2>1 DEF ChangeInv, UndoInv, Undoing
  <2>2. CASE UNCHANGED declared
    BY <1>1, <2>2 DEF ChangeInv, UndoInv, Restoring
  <2> QED BY <1>2, <2>1, <2>2
<1>5. mode = "vendor" => lock' = snap.lock /\ lockFile' = snap.lockFile
  BY <1>1, <1>3 DEF ChangeInv
<1>6. mode = "frozen" => \/ lock' = snap.lock /\ lockFile' = snap.lockFile
                        \/ lockFile' = "torn"
  BY <1>1, <1>3 DEF ChangeInv
<1>7. lockFile' = "torn" => lock' = NoLock
  BY DEF SoundInv
<1>8. UNCHANGED vendor \/ pc \in {"copy", "prune", "vendoring", "undo_clear"}
  BY DEF Crash, Throw, DieBetween, DieInPackageFile, DieInLock, DieInTree, DieInClear, Replacing,
         project
<1>9. mode \in {"tidy", "refreeze"} => vendor' = snap.vendor
  BY <1>1, <1>8 DEF ChangeInv
<1> QED BY <1>1, <1>4, <1>5, <1>6, <1>7, <1>9, NowFields
        DEF Promise!Die, Promise!Carried, Promise!SameLock, Promise!Died, Edited, Changes

LEMMA EnvironmentSeen ==
  ASSUME Environment
  PROVE  Promise!Disturb \/ UNCHANGED Seen
<1>1. CASE Author \/ Damage \/ HandCopy \/ Upgrade
  <2>1. /\ pc = "idle" /\ pc' = "idle" /\ verdict' = "none"
        /\ UNCHANGED <<lock, lockFile>>
    BY <1>1 DEF Author, Damage, HandCopy, Upgrade, Disturbed, project
  <2> QED BY <2>1, NowFields DEF Promise!Disturb, Promise!SameLock
<1>2. CASE CleanCache \/ Publish
  BY <1>2 DEF CleanCache, Publish, project, control, history, Seen, Shown, Verdict, Now
<1> QED BY <1>1, <1>2 DEF Environment

ImplementationInv == VerbInv /\ UndoInv /\ FrozenInv /\ SoundInv /\ ChangeInv

\* What a verb promises, it does: seen between verbs, a get or a remove has
\* carried its one edit or has changed nothing, what a repository refused has
\* changed nothing, a frozen run and a `pkg vendor` have written no lock, a
\* tidy and a refreeze no tree, and no tree is gone that a frozen or an error
\* answer found, whatever was refused, disturbed or died in between, for any
\* set of packages, releases and faults.
THEOREM ChangeImplemented == Spec => KeepsPromise
<1>1. Init => ImplementationInv
  <2>1. Init => UndoInv /\ FrozenInv /\ ChangeInv
    BY DEF Init, UndoInv, TakenBack, Undoing, Changes, FrozenInv, ChangeInv, Restoring, Keeping
  <2>2. Init => snap.lock = NoLock
    BY DEF Init, Now
  <2> QED BY <2>1, <2>2, NothingIsSound, VerbInvInit DEF Init, SoundInv, ImplementationInv
<1>2. TypeOK /\ TreesFound /\ ImplementationInv /\ [Next]_vars => ImplementationInv'
  <2>1. CASE Next
    BY <2>1, VerbInvStep, UndoInvStep, FrozenInvStep, SoundInvStep, ChangeInvStep
       DEF ImplementationInv
  <2>2. CASE UNCHANGED vars
    BY <2>2 DEF vars, control, project, resolving, syncing, history, ImplementationInv, VerbInv,
                UndoInv, TakenBack, Now, FrozenInv, SoundInv, ChangeInv, NoneGone
  <2> QED BY <2>1, <2>2
<1>3. Init => Promise!Init
  BY NowFields DEF Init, Promise!Init
<1>4. TypeOK /\ ImplementationInv /\ TypeOK' /\ ImplementationInv' /\ [Next]_vars
        => [Promise!Next]_(Promise!view)
  <2>1. SUFFICES ASSUME TypeOK, ImplementationInv, TypeOK', ImplementationInv', [Next]_vars
                 PROVE  Promise!Next \/ UNCHANGED Seen
    BY DEF Promise!view, Seen, Shown, Verdict
  <2>2. CASE UNCHANGED vars
    BY <2>2 DEF vars, project, control, history, Seen, Shown, Verdict, Now
  <2>3. CASE Next
    BY <2>1, <2>3, StartSeen, ContinueSeen, CrashSeen, EnvironmentSeen
       DEF Next, Promise!Next, ImplementationInv
  <2> QED BY <2>1, <2>2, <2>3
<1> QED BY <1>1, <1>2, <1>3, <1>4, TypeCorrect, PTL DEF Spec, KeepsPromise, Promise!Spec

(***************************************************************************)
(* A sync's lock is the highest minima, and its build needs no cache.      *)
(*                                                                         *)
(* Where releases that mean the same may differ in what they need, neither *)
(* holds: the place of the store where a sync found a release may hold     *)
(* another by the time it is copied, whose needs were never bid            *)
(* (SharedPlace.cfg).                                                      *)
(***************************************************************************)
OneDepBlock ==
  \A p \in Pkg : \A v, w \in Version :
    MeaningOf[p][v] = MeaningOf[p][w] => DepsOf[p][v] = DepsOf[p][w]

\* a asks for no more than b of any key.
Below(a, b) == \A k \in Key : a[k] <= b[k]

\* A release is filed under its own meaning.
StoreFiled ==
  \A p \in Pkg : \A m \in Meaning : store[p][m] # 0 => MeaningOf[p][store[p][m]] = m

\* What a sync has read, it has bid.
Bidden ==
  pc \in {"bid", "copy"} \/ (pc \in {"resolve", "pin"} /\ mode \in Syncs) =>
    /\ Below(declared, selected)
    /\ pending \subseteq Asked(selected)
    /\ \A k \in Asked(selected) \ pending : Usable(k) => dirs[k] # NoDir
    /\ \A k \in Key : dirs[k] # NoDir =>
         /\ Usable(k) /\ selected[k] # 0
         /\ Below(Deps(TreeIn(k, dirs[k])), selected)
    /\ \A k \in Key : dirs[k].at = "vendor" => vendor[k] # NoTree
    /\ pc # "bid" => pending = {}
    /\ pc \in {"resolve", "pin"} => \A k \in Key : dirs[k].at # "store"

\* v is asked for: by the project, or by a package that pkgResolve read.
AskedFor(k, v) ==
  declared[k] = v \/ \E j \in Asked(rsel) : Usable(j) /\ Deps(vendor[j])[k] = v

\* The rounds of pkgResolve select and bid what is asked for, and all of it,
\* within what the sync has bid.
Rounds ==
  pc \in {"resolve", "pin"} /\ mode \in Syncs =>
    /\ Below(rsel, selected) /\ Below(frontier, selected)
    /\ Below(declared, Raise(rsel, frontier))
    /\ \A j \in Asked(rsel) : Usable(j) => Below(Deps(vendor[j]), Raise(rsel, frontier))
    /\ \A k \in Key : /\ rsel[k] # 0 => AskedFor(k, rsel[k])
                      /\ frontier[k] # 0 => AskedFor(k, frontier[k])
    /\ \A k \in rmissing : ~Usable(k)
    /\ pc = "pin" =>
         /\ Raised = {}
         /\ \A k \in Key \ (rmissing \cup Unevaluable) : newlock[k].v = rsel[k]

\* A lock whose versions are the highest minima, of packages all vendored.
Exact(l) ==
  \A k \in Key :
    /\ l[k] # NoEntry => vendor[k] # NoTree
    /\ declared[k] <= l[k].v
    /\ \A j \in Key : l[j] # NoEntry => Deps(vendor[j])[k] <= l[k].v
    /\ l[k] # NoEntry => \/ declared[k] = l[k].v
                         \/ \E j \in Key : l[j] # NoEntry /\ Deps(vendor[j])[k] = l[k].v

Written ==
  /\ pc \in {"prune", "write"} /\ mode \in Syncs =>
       /\ Exact(newlock)
       /\ pc = "prune" => \A k \in Key : newlock[k] # NoEntry => selected[k] # 0
  /\ (pc = "verify" /\ mode \in Syncs) \/ Synced => Exact(lock)

Standalone == VerbInv /\ OfflineBuild

LockInv == StoreFiled /\ Bidden /\ Rounds /\ Written /\ Standalone

(***************************************************************************)
(* The store.                                                              *)
(***************************************************************************)

\* What an acquire does to a sync: it files releases, and reads the one it
\* was asked for.
LEMMA AcquireReads ==
  ASSUME TypeOK, BidAcquire
  PROVE  \E k \in Key : \E last \in SUBSET Release :
           /\ Usable(k) /\ k \in pending
           /\ <<Names[k], selected[k]>> \in last /\ store' = Filed(last)
           /\ Read(k, InStore(Names[k], selected[k]), Released(Names[k], selected[k]))
<1>1. PICK k \in First(Fetchable) :
        LET r    == <<Names[k], selected[k]>>
            rels == AcquireClosure(r).all \ acquired
        IN /\ Acquirable(r)
           /\ \E last \in SUBSET rels :
                /\ r \in last /\ FiledBy(rels, last)
                /\ store' = Filed(last)
           /\ down' = down \cup rels
           /\ acquired' = acquired \cup rels
           /\ Read(k, InStore(r[1], r[2]), Released(r[1], r[2]))
  BY DEF BidAcquire
<1> DEFINE r    == <<Names[k], selected[k]>>
           rels == AcquireClosure(r).all \ acquired
<1>2. k \in Key /\ k \in pending
  BY DEF First, Fetchable, TypeOK, SyncTypeOK
<1>3. Usable(k)
  BY <1>2 DEF BidAcquire, Fetching, Bad
<1>4. rels \subseteq Release
  BY <1>1 DEF Acquirable, TypeOK, WorldTypeOK
<1>5. PICK last \in SUBSET rels : r \in last /\ store' = Filed(last)
  BY <1>1
<1>6. last \in SUBSET Release
  BY <1>4, <1>5
<1>7. Read(k, InStore(Names[k], selected[k]), Released(Names[k], selected[k]))
  BY <1>1
<1> QED BY <1>2, <1>3, <1>5, <1>6, <1>7

LEMMA RefusedFiles ==
  ASSUME TypeOK, BidRefused
  PROVE  \E last \in SUBSET Release : store' = Filed(last)
<1>1. PICK rels \in SUBSET listed : \E last \in SUBSET rels : store' = Filed(last)
  BY DEF BidRefused
<1> QED BY <1>1 DEF TypeOK, WorldTypeOK

\* What is filed is filed under its own meaning.
LEMMA FiledMeaning ==
  ASSUME StoreFiled, NEW last \in SUBSET Release, store' = Filed(last)
  PROVE  StoreFiled'
<1>1. ASSUME NEW p \in Pkg, NEW m \in Meaning, Filed(last)[p][m] # 0
      PROVE  MeaningOf[p][Filed(last)[p][m]] = m
  <2>1. CASE \E r \in last : r[1] = p /\ MeaningOf[p][r[2]] = m
    <3> DEFINE f == CHOOSE r \in last : r[1] = p /\ MeaningOf[p][r[2]] = m
    <3>1. MeaningOf[p][f[2]] = m
      BY <2>1
    <3>2. Filed(last)[p][m] = f[2]
      BY <2>1 DEF Filed
    <3> HIDE DEF f
    <3> QED BY <3>1, <3>2
  <2>2. CASE ~ \E r \in last : r[1] = p /\ MeaningOf[p][r[2]] = m
    <3>1. Filed(last)[p][m] = store[p][m]
      BY <2>2 DEF Filed
    <3> QED BY <1>1, <3>1 DEF StoreFiled
  <2> QED BY <2>1, <2>2
<1> QED BY <1>1 DEF StoreFiled

LEMMA StoreWriters ==
  ASSUME TypeOK, Next
  PROVE  \/ UNCHANGED store
         \/ store' = EmptyStore
         \/ \E last \in SUBSET Release : store' = Filed(last)
<1>1. CASE Start
  BY <1>1 DEF Start, Sync, Get, Remove, Tidy, Vendor, Refreeze, cache
<1>2. CASE BidAcquire
  BY <1>2, AcquireReads
<1>3. CASE BidRefused
  BY <1>3, RefusedFiles
<1>4. CASE Continue /\ ~BidAcquire /\ ~BidRefused
  BY <1>4 DEF Continue, EditPackageFile, BidUnusable, BidHeld, ConfigRefused, BidFrozen,
              BidDone, Copy, CopyDone, Round, ResolveDone, Unwritable, Writable, Prune,
              PruneDone, WriteLock, Verify, UndoPackageFile, UndoLock, UndoClear,
              UndoVendor, Undo, VendorNext, VendorDone, Repin, Repinning, RepinNothing, cache
<1>5. CASE Crash
  BY <1>5 DEF Crash, Ended, Throw, Die, DieBetween, DieInPackageFile, DieInLock, DieInTree,
              DieInClear, cache
<1>6. CASE Environment
  BY <1>6 DEF Environment, Author, Damage, HandCopy, CleanCache, Upgrade, Publish, cache
<1> QED BY <1>1, <1>2, <1>3, <1>4, <1>5, <1>6 DEF Next

LEMMA StoreFiledStep ==
  ASSUME TypeOK, StoreFiled, Next
  PROVE  StoreFiled'
<1>1. CASE UNCHANGED store
  BY <1>1 DEF StoreFiled
<1>2. CASE store' = EmptyStore
  BY <1>2 DEF StoreFiled, EmptyStore
<1> QED BY <1>1, <1>2, StoreWriters, FiledMeaning

\* A place of the store that is filled keeps what its tree needs.
LEMMA PlacesKeepNeeds ==
  ASSUME TypeOK, TypeOK', OneDepBlock, StoreFiled, StoreFiled',
         NEW p \in Pkg, NEW m \in Meaning, store[p][m] # 0, store'[p][m] # 0
  PROVE  Deps(Stored(store', p, m)) = Deps(Stored(store, p, m))
<1>1. store[p][m] \in Version /\ store'[p][m] \in Version
  BY LabelFacts DEF TypeOK, CacheTypeOK
<1>2. DepsOf[p][store'[p][m]] = DepsOf[p][store[p][m]]
  BY <1>1 DEF OneDepBlock, StoreFiled
<1>3. /\ Stored(store, p, m) = Released(p, store[p][m])
      /\ Stored(store', p, m) = Released(p, store'[p][m])
  BY DEF Stored
<1>4. Released(p, store[p][m]) \in Tree /\ Released(p, store'[p][m]) \in Tree
  BY <1>1, LabelFacts, ReleasedType
<1>5. \A v \in Version : Released(p, v) \in Tree => Deps(Released(p, v)) = DepsOf[p][v]
  BY NoTreeIsNoTree DEF Deps, Released
<1> QED BY <1>1, <1>2, <1>3, <1>4, <1>5

(***************************************************************************)
(* What a sync has read, it has bid.                                       *)
(***************************************************************************)
Working == {"bid", "copy", "resolve", "pin"}

\* Which steps lead to, or stay in, the part of a verb that selects.
LEMMA IntoWorking ==
  ASSUME Next, pc' \in Working
  PROVE  \/ \E frozen \in BOOLEAN : Sync(frozen)
         \/ Tidy \/ EditPackageFile
         \/ BidUnusable \/ BidHeld \/ BidAcquire \/ BidDone
         \/ Copy \/ CopyDone \/ Round \/ ResolveDone \/ Publish
<1>1. CASE Start
  BY <1>1 DEF Start, Get, Remove, Vendor, Refreeze, Begin, Working
<1>2. CASE Continue
  <2>1. ASSUME NEW v, Finish(v)
        PROVE  FALSE
    BY <2>1 DEF Finish, Working
  <2> QED
    BY <1>2, <2>1
       DEF Continue, BidRefused, ConfigRefused, BidFrozen, Unwritable, Writable, Prune,
           PruneDone, WriteLock, Verify, UndoPackageFile, UndoLock, UndoClear, UndoVendor,
           Undo, VendorNext, VendorDone, Repin, Repinning, RepinNothing, control, Working
<1>3. CASE Crash
  BY <1>3 DEF Crash, Ended, Throw, Die, DieBetween, DieInPackageFile, DieInLock, DieInTree,
              DieInClear, project, Working
<1>4. CASE Author \/ Damage \/ HandCopy \/ Upgrade \/ CleanCache
  BY <1>4 DEF Author, Damage, HandCopy, Upgrade, CleanCache, Disturbed, control, Working
<1> QED BY <1>1, <1>2, <1>3, <1>4 DEF Next, Environment

LEMMA BelowFacts ==
  ASSUME NEW a \in Bids, NEW b \in Bids
  PROVE  /\ Below(a, a) /\ Below(a, Raise(a, b)) /\ Below(b, Raise(a, b))
         /\ Below(NoBids, a) /\ Raise(NoBids, a) = a
         /\ \A c \in Bids : /\ Below(a, b) /\ Below(b, c) => Below(a, c)
                            /\ Below(a, c) /\ Below(b, c) => Below(Raise(a, b), c)
<1>1. \A k \in Key : a[k] \in Nat /\ b[k] \in Nat
  BY LabelFacts DEF Bids
<1>2. Below(a, a) /\ Below(a, Raise(a, b)) /\ Below(b, Raise(a, b))
  BY <1>1, RaiseFacts DEF Below
<1>3. Below(NoBids, a)
  BY <1>1 DEF Below, NoBids
<1>4. Raise(NoBids, a) = a
  <2>1. \A k \in Key : Raise(NoBids, a)[k] = a[k]
    BY <1>1 DEF Raise, NoBids
  <2>2. a = [k \in Key |-> a[k]] /\ Raise(NoBids, a) = [k \in Key |-> Raise(NoBids, a)[k]]
    BY DEF Bids, Raise
  <2> QED BY <2>1, <2>2
<1>5. ASSUME NEW c \in Bids
      PROVE  /\ Below(a, b) /\ Below(b, c) => Below(a, c)
             /\ Below(a, c) /\ Below(b, c) => Below(Raise(a, b), c)
  <2>1. \A k \in Key : c[k] \in Nat
    BY LabelFacts DEF Bids
  <2>2. Below(a, b) /\ Below(b, c) => Below(a, c)
    BY <1>1, <2>1 DEF Below
  <2>3. Below(a, c) /\ Below(b, c) => Below(Raise(a, b), c)
    BY RaiseFacts DEF Below
  <2> QED BY <2>2, <2>3
<1> QED BY <1>2, <1>3, <1>4, <1>5

\* A sync that begins has read nothing and bid what the project declares.
LEMMA BiddingBidden ==
  ASSUME declared' \in Bids, Bidding(declared'), pc' = "bid"
  PROVE  Bidden'
<1>1. selected' = declared' /\ pending' = Asked(selected') /\ dirs' = [k \in Key |-> NoDir]
  BY DEF Bidding
<1>2. Below(declared', selected')
  BY <1>1, BelowFacts
<1>3. \A k \in Key : dirs'[k] = NoDir /\ dirs'[k].at = ""
  BY <1>1, DirFields
<1> QED BY <1>1, <1>2, <1>3 DEF Bidden

\* Reading the package found for k, whose needs are those bid, and leaving
\* what the other packages need.
LEMMA ReadBidden ==
  ASSUME TypeOK, TypeOK', TreesFound, Bidden, pc = "bid", pc' = "bid", UNCHANGED <<declared, vendor>>,
         NEW k \in pending, Usable(k), NEW dir \in Dir, NEW t \in Tree,
         Read(k, dir, t), dir # NoDir, dir.at = "vendor" => vendor[k] # NoTree,
         Deps(TreeIn(k, dir)') = Deps(t),
         \A j \in Key : \A d \in Dir :
           d = dirs[j] /\ d # NoDir => Deps(TreeIn(j, d)') = Deps(TreeIn(j, d))
  PROVE  Bidden'
<1>1. /\ k \in Key /\ selected \in Bids /\ declared \in Bids /\ dirs \in [Key -> Dir]
      /\ pending \subseteq Key
  BY DEF TypeOK, SyncTypeOK, ProjectTypeOK
<1>2. Deps(t) \in Bids
  BY DepsType
<1>3. /\ dirs' = [dirs EXCEPT ![k] = dir]
      /\ selected' = Raise(selected, Deps(t))
      /\ pending' = (pending \ {k}) \cup {d \in Key : selected[d] < Deps(t)[d]}
  BY DEF Read
<1>4. /\ selected' \in Bids
      /\ Below(selected, selected') /\ Below(Deps(t), selected')
      /\ \A d \in Key : selected'[d] \in {selected[d], Deps(t)[d]}
  BY <1>1, <1>2, <1>3, RaiseFacts, BelowFacts
<1>5. \A d \in Key : selected[d] \in Nat /\ selected'[d] \in Nat /\ Deps(t)[d] \in Nat
  BY <1>1, <1>2, <1>4, LabelFacts DEF Bids
<1>6. /\ Below(declared, selected) /\ pending \subseteq Asked(selected)
      /\ \A j \in Asked(selected) \ pending : Usable(j) => dirs[j] # NoDir
      /\ \A j \in Key : dirs[j] # NoDir =>
           /\ Usable(j) /\ selected[j] # 0
           /\ Below(Deps(TreeIn(j, dirs[j])), selected)
      /\ \A j \in Key : dirs[j].at = "vendor" => vendor[j] # NoTree
  BY DEF Bidden
<1>7. \A d \in Key : selected[d] # 0 => selected'[d] # 0
  BY <1>4, <1>5 DEF Below
<1>8. Below(declared', selected')
  BY <1>1, <1>4, <1>6, BelowFacts
<1>9. pending' \subseteq Asked(selected')
  <2>1. ASSUME NEW d \in Key, selected[d] < Deps(t)[d]
        PROVE  selected'[d] # 0
    BY <1>4, <1>5, <2>1 DEF Below
  <2> QED BY <1>1, <1>3, <1>6, <1>7, <2>1 DEF Asked
<1>10. \A j \in Key : j # k => dirs'[j] = dirs[j]
  BY <1>1, <1>3
<1>11. dirs'[k] = dir
  BY <1>1, <1>3
<1>12. \A j \in Asked(selected') \ pending' : Usable(j) => dirs'[j] # NoDir
  <2>1. SUFFICES ASSUME NEW j \in Asked(selected') \ pending', Usable(j), j # k
                 PROVE  dirs[j] # NoDir
    BY <1>10, <1>11 DEF Asked
  <2>2. j \in Key /\ selected'[j] # 0 /\ j \notin pending /\ ~(selected[j] < Deps(t)[j])
    BY <1>3, <2>1 DEF Asked
  <2>3. selected[j] # 0
    BY <1>4, <1>5, <2>2
  <2> QED BY <1>6, <2>1, <2>2, <2>3 DEF Asked
<1>13. ASSUME NEW j \in Key, dirs'[j] # NoDir
       PROVE  /\ Usable(j) /\ selected'[j] # 0
              /\ Below(Deps(TreeIn(j, dirs[j])'), selected')
  <2>1. CASE j = k
    <3>1. TreeIn(j, dirs[j])' = TreeIn(k, dir)'
      BY <1>11, <2>1 DEF TreeIn
    <3>2. selected[k] # 0
      BY <1>6 DEF Asked
    <3> QED BY <1>1, <1>4, <1>7, <2>1, <3>1, <3>2
  <2>2. CASE j # k
    <3> DEFINE d == dirs[j]
    <3>1. dirs'[j] = d /\ d # NoDir /\ d \in Dir
      BY <1>1, <1>10, <1>13, <2>2
    <3>2. Usable(j) /\ selected[j] # 0 /\ Below(Deps(TreeIn(j, d)), selected)
      BY <1>6, <3>1
    <3>3. \A e \in Dir : e = d => Deps(TreeIn(j, e)') = Deps(TreeIn(j, e))
      BY <3>1
    <3>4. Deps(TreeIn(j, dirs[j])') = Deps(TreeIn(j, d))
      <4>1. PICK e \in Dir : e = d
        BY <3>1
      <4>2. TreeIn(j, dirs[j])' = TreeIn(j, e)'
        BY <3>1, <4>1 DEF TreeIn
      <4> QED BY <3>3, <4>1, <4>2
    <3>5. Deps(TreeIn(j, d)) \in Bids
      <4>1. d # NoDir => d.at \in {"vendor", "store"}
        BY <3>1, DirFields DEF Dir
      <4> QED BY <3>1, <4>1, TreeInType, DepsType
    <3>6. Below(Deps(TreeIn(j, d)), selected')
      <4> HIDE DEF d
      <4> QED BY <1>1, <1>4, <3>2, <3>5, BelowFacts
    <3> QED BY <1>7, <3>2, <3>4, <3>6
  <2> QED BY <2>1, <2>2
<1>14. \A j \in Key : dirs'[j].at = "vendor" => vendor'[j] # NoTree
  BY <1>6, <1>10, <1>11
<1> QED BY <1>8, <1>9, <1>12, <1>13, <1>14 DEF Bidden

LEMMA BiddenHeld ==
  ASSUME TypeOK, TypeOK', TreesFound, Bidden, BidHeld
  PROVE  Bidden'
<1>1. PICK k \in First(Held) :
        Read(k, HeldAt(k, selected[k]), TreeIn(k, HeldAt(k, selected[k])))
  BY DEF BidHeld
<1>2. /\ k \in Key /\ k \in pending /\ Usable(k) /\ HeldAt(k, selected[k]) # NoDir
      /\ selected[k] \in Label
  BY DEF First, Held, TypeOK, SyncTypeOK, Bids
<1> DEFINE v == selected[k]
           dir == HeldAt(k, v)
           t == TreeIn(k, dir)
<1>3. dir \in Dir /\ t \in Tree
  BY <1>2, HeldAtTypes
<1>4. UNCHANGED <<declared, vendor, store, pc>> /\ pc = "bid"
  BY DEF BidHeld, project, cache, control
<1>5. dir.at = "vendor" => vendor[k] # NoTree
  <2>1. dir.at = "vendor" => dir = InVendor \/ dir = InStore(Names[k], v)
    BY <1>2 DEF HeldAt
  <2>2. InStore(Names[k], v).at = "store"
    BY DEF InStore
  <2>3. CASE dir = InVendor
    <3>1. InVendor # InStore(Names[k], v)
      BY <2>2, DirFields
    <3> QED BY <1>2, <2>3, <3>1 DEF HeldAt
  <2> QED BY <2>1, <2>2, <2>3
<1>6. \A j \in Key : \A d \in Dir : TreeIn(j, d)' = TreeIn(j, d)
  BY <1>4 DEF TreeIn
<1>7. Read(k, dir, t) /\ dir # NoDir
  BY <1>1, <1>2
<1> DEFINE d0 == dir
<1>8. PICK d \in Dir, u \in Tree : d = dir /\ u = t
  BY <1>3
<1>9. Read(k, d, u) /\ d # NoDir /\ (d.at = "vendor" => vendor[k] # NoTree)
  BY <1>5, <1>7, <1>8
<1>10. Deps(TreeIn(k, d)') = Deps(u)
  BY <1>2, <1>6, <1>8
<1> HIDE DEF dir, t, d0
<1> QED BY <1>2, <1>4, <1>6, <1>9, <1>10, ReadBidden

LEMMA BiddenAcquired ==
  ASSUME TypeOK, TypeOK', TreesFound, OneDepBlock, StoreFiled, StoreFiled', Bidden,
         BidAcquire
  PROVE  Bidden'
<1>1. PICK k \in Key, last \in SUBSET Release :
        /\ Usable(k) /\ k \in pending
        /\ <<Names[k], selected[k]>> \in last /\ store' = Filed(last)
        /\ Read(k, InStore(Names[k], selected[k]), Released(Names[k], selected[k]))
  BY AcquireReads
<1>2. PICK v \in Version : v = selected[k]
  <2>1. pc = "bid"
    BY DEF BidAcquire, Fetching
  <2>2. selected[k] # 0
    BY <1>1, <2>1 DEF Bidden, Asked
  <2> QED BY <1>1, <2>2, LabelFacts DEF TypeOK, SyncTypeOK, Bids
<1> DEFINE p == Names[k]
           m == MeaningOf[p][v]
           dir == InStore(p, v)
           t == Released(p, v)
<1>3. p \in Pkg /\ m \in Meaning /\ v \in Label
  BY <1>1, UsableNames, LabelFacts, WorldAssumption
<1>4. UNCHANGED <<declared, vendor, pc>> /\ pc = "bid"
  BY DEF BidAcquire, Fetching, project, control
<1>5. \A q \in Pkg : \A n \in Meaning : store[q][n] # 0 => store'[q][n] # 0
  BY BidAcquireStep
<1>6. dir \in Dir /\ t \in Tree /\ dir.at = "store" /\ dir.meaning = m /\ dir # NoDir
  BY <1>3, DirTypes, ReleasedType, DirFields
<1>7. store'[p][m] # 0
  <2>1. <<p, v>> \in last
    BY <1>1, <1>2
  <2> QED BY <1>1, <2>1, FiledTypes
<1>8. Deps(TreeIn(k, dir)') = Deps(t)
  <2>1. store'[p][m] \in Version /\ MeaningOf[p][store'[p][m]] = MeaningOf[p][v]
    BY <1>3, <1>7, LabelFacts DEF TypeOK, CacheTypeOK, StoreFiled
  <2>2. DepsOf[p][store'[p][m]] = DepsOf[p][v]
    BY <1>2, <1>3, <2>1 DEF OneDepBlock
  <2>3. TreeIn(k, dir)' = Released(p, store'[p][m])
    BY <1>6, <1>7 DEF TreeIn, Stored
  <2>4. \A w \in Version : Deps(Released(p, w)) = DepsOf[p][w]
    <3>1. \A w \in Version : Released(p, w) \in Tree
      BY <1>3, ReleasedType, LabelFacts
    <3> QED BY <3>1, NoTreeIsNoTree DEF Deps, Released
  <2> QED BY <1>2, <2>1, <2>2, <2>3, <2>4
<1>9. ASSUME NEW j \in Key, NEW d \in Dir, d = dirs[j], d # NoDir
      PROVE  Deps(TreeIn(j, d)') = Deps(TreeIn(j, d))
  <2>1. CASE d.at = "store"
    <3>1. Usable(j) /\ Names[j] \in Pkg /\ TreeIn(j, d) # NoTree /\ d.meaning \in Meaning
      BY <1>9, <2>1, UsableNames, StoreDirMeaning DEF TreesFound, DirsFound
    <3>2. TreeIn(j, d) = Stored(store, Names[j], d.meaning)
      BY <2>1 DEF TreeIn
    <3>3. TreeIn(j, d)' = Stored(store', Names[j], d.meaning)
      BY <2>1 DEF TreeIn
    <3>4. store[Names[j]][d.meaning] # 0
      BY <3>1, <3>2 DEF Stored
    <3> QED BY <1>5, <3>1, <3>2, <3>3, <3>4, PlacesKeepNeeds
  <2>2. CASE d.at # "store"
    BY <1>4, <2>2 DEF TreeIn
  <2> QED BY <2>1, <2>2
<1>10. Read(k, dir, t)
  BY <1>1, <1>2
<1>11. dir.at = "vendor" => vendor[k] # NoTree
  BY <1>6
<1> HIDE DEF dir, t, m, p
<1> QED BY <1>1, <1>4, <1>6, <1>8, <1>9, <1>10, <1>11, ReadBidden

\* What is copied is what was read.
LEMMA BiddenCopied ==
  ASSUME TypeOK, TreesFound, Bidden, Copy
  PROVE  Bidden'
<1>1. PICK k \in First(ToCopy) : /\ vendor' = [vendor EXCEPT ![k] = TreeIn(k, dirs[k])]
                                 /\ dirs' = [dirs EXCEPT ![k] = InVendor]
  BY DEF Copy
<1>2. k \in Key /\ dirs[k].at = "store" /\ dirs \in [Key -> Dir] /\ vendor \in [Key -> Tree \cup {NoTree}]
  BY DEF First, ToCopy, TypeOK, SyncTypeOK, ProjectTypeOK
<1>3. TreeIn(k, dirs[k]) # NoTree
  BY <1>2 DEF TreesFound, DirsFound
<1>4. UNCHANGED <<declared, selected, pending, store, pc, mode>> /\ pc = "copy"
  BY DEF Copy, cache, control
<1>5. /\ vendor'[k] = TreeIn(k, dirs[k]) /\ dirs'[k] = InVendor
      /\ \A j \in Key : j # k => vendor'[j] = vendor[j] /\ dirs'[j] = dirs[j]
  BY <1>1, <1>2
<1>6. dirs[k] # NoDir
  BY <1>2, DirFields
<1>7. \A j \in Key : TreeIn(j, dirs[j])' = TreeIn(j, dirs[j])
  BY <1>4, <1>5, DirFields DEF TreeIn
<1>8. \A j \in Key : dirs'[j] # NoDir => dirs[j] # NoDir
  BY <1>5, <1>6
<1>9. \A j \in Key : dirs[j] # NoDir => dirs'[j] # NoDir
  BY <1>5, DirFields
<1>10. \A j \in Key : dirs'[j].at = "vendor" => vendor'[j] # NoTree
  BY <1>3, <1>4, <1>5 DEF Bidden
<1> QED BY <1>4, <1>7, <1>8, <1>9, <1>10 DEF Bidden, Asked

LEMMA BiddenStep ==
  ASSUME TypeOK, TypeOK', TreesFound, OneDepBlock, StoreFiled, StoreFiled', Bidden, Next
  PROVE  Bidden'
<1>1. SUFFICES ASSUME pc' \in Working, pc' \in {"resolve", "pin"} => mode' \in Syncs
               PROVE  Bidden'
  BY DEF Bidden, Working
<1>2. CASE \E frozen \in BOOLEAN : Sync(frozen)
  <2>1. pc' = "bid" /\ Bidding(declared) /\ declared' = declared
    BY <1>2 DEF Sync, Begin, project
  <2> QED BY <2>1, BiddingBidden DEF TypeOK, ProjectTypeOK
<1>3. CASE Tidy
  BY <1>1, <1>3 DEF Tidy, Begin, Syncs, Changes
<1>4. CASE EditPackageFile
  <2>1. pc' = "bid" /\ Bidding(selected) /\ declared' = selected
    BY <1>4 DEF EditPackageFile
  <2> QED BY <2>1, BiddingBidden DEF TypeOK, SyncTypeOK
<1>5. CASE BidUnusable
  <2>1. /\ pending' = pending \ First(Bad) /\ pc = "bid"
        /\ UNCHANGED <<declared, vendor, store, selected, dirs, pc, mode>>
    BY <1>5 DEF BidUnusable, project, cache, control
  <2>2. \A k \in First(Bad) : ~Usable(k)
    BY DEF First, Bad
  <2>3. \A j \in Key : TreeIn(j, dirs[j])' = TreeIn(j, dirs[j])
    BY <2>1 DEF TreeIn
  <2> QED BY <2>1, <2>2, <2>3 DEF Bidden, Asked
<1>6. CASE BidDone \/ ResolveDone \/ Round \/ Publish
  <2>1. /\ UNCHANGED <<declared, vendor, store, selected, pending, dirs, mode>>
        /\ pc' = pc \/ (pc = "bid" /\ pending = {} /\ pc' = "copy") \/ (pc = "resolve" /\ pc' = "pin")
    BY <1>6 DEF BidDone, ResolveDone, Round, Publish, project, cache, syncing, control
  <2>2. \A j \in Key : TreeIn(j, dirs[j])' = TreeIn(j, dirs[j])
    BY <2>1 DEF TreeIn
  <2> QED BY <1>1, <2>1, <2>2 DEF Bidden, Asked, Working
<1>7. CASE CopyDone
  <2>1. /\ UNCHANGED <<declared, vendor, store, selected, pending, dirs, mode>>
        /\ pc = "copy" /\ \A k \in Key : dirs[k].at # "store"
    BY <1>7 DEF CopyDone, ToCopy, project, cache, syncing
  <2>2. \A j \in Key : TreeIn(j, dirs[j])' = TreeIn(j, dirs[j])
    BY <2>1 DEF TreeIn
  <2> QED BY <1>1, <2>1, <2>2 DEF Bidden, Asked
<1> QED
  BY <1>1, <1>2, <1>3, <1>4, <1>5, <1>6, <1>7, IntoWorking, BiddenHeld, BiddenAcquired,
     BiddenCopied

(***************************************************************************)
(* The rounds of pkgResolve.                                               *)
(***************************************************************************)

\* A usable package within what a sync has bid is vendored when pkgResolve
\* begins, and what it needs was bid.
LEMMA SelectedIsVendored ==
  ASSUME TypeOK, Bidden, pc \in {"resolve", "pin"}, mode \in Syncs,
         NEW k \in Key, Usable(k), selected[k] # 0
  PROVE  /\ dirs[k] # NoDir /\ dirs[k].at = "vendor"
         /\ vendor[k] # NoTree /\ Below(Deps(vendor[k]), selected)
<1>1. dirs[k] # NoDir /\ dirs[k].at # "store"
  BY DEF Bidden, Asked
<1>2. dirs[k].at = "vendor"
  <2>1. PICK d \in Dir : d = dirs[k]
    BY DEF TypeOK, SyncTypeOK
  <2>2. d # NoDir => d.at \in {"vendor", "store"}
    BY <2>1, DirFields DEF Dir
  <2> QED BY <1>1, <2>1, <2>2
<1> QED BY <1>1, <1>2 DEF Bidden, TreeIn

LEMMA VendoredLocal ==
  ASSUME NEW k, vendor[k] # NoTree
  PROVE  \A v : LocalTree(k, v) = vendor[k]
BY VendoredIsHeld DEF LocalTree

\* The rounds begin with what the project declares.
LEMMA RoundsBegin ==
  ASSUME TypeOK, Bidden, CopyDone
  PROVE  Rounds'
<1>1. /\ rsel' = NoBids /\ frontier' = declared /\ rmissing' = {} /\ pc' = "resolve"
      /\ UNCHANGED <<declared, selected, vendor>> /\ pc = "copy"
  BY DEF CopyDone, Resolving, project, syncing
<1>2. declared \in Bids /\ selected \in Bids
  BY DEF TypeOK, ProjectTypeOK, SyncTypeOK
<1>3. Below(declared, selected)
  BY <1>1 DEF Bidden
<1>4. Below(NoBids, selected) /\ Raise(NoBids, declared) = declared /\ Below(declared, declared)
  BY <1>2, BelowFacts
<1>5. Asked(NoBids) = {} /\ \A k \in Key : NoBids[k] = 0
  BY DEF Asked, NoBids
<1>6. /\ Below(rsel', selected') /\ Below(frontier', selected')
      /\ Below(declared', Raise(rsel', frontier'))
  BY <1>1, <1>3, <1>4
<1>7. Asked(rsel)' = {}
  BY <1>1, <1>5 DEF Asked
<1>8. \A k \in Key : frontier'[k] # 0 => AskedFor(k, frontier[k])'
  BY <1>1 DEF AskedFor
<1> QED BY <1>1, <1>5, <1>6, <1>7, <1>8 DEF Rounds

LEMMA RoundsGo ==
  ASSUME TypeOK, TypeOK', Bidden, Rounds, Round, mode \in Syncs
  PROVE  Rounds'
<1> DEFINE sel  == Raise(rsel, frontier)
           read == ReadNow(sel)
<1>1. /\ pc = "resolve" /\ rsel' = sel /\ rmissing' = rmissing \cup (Raised \ read)
      /\ \A d \in Key : HighestBid(frontier'[d], read, sel, d)
      /\ UNCHANGED <<declared, vendor, selected, pc, mode>>
  BY DEF Round, project, syncing, control
<1>2. /\ rsel \in Bids /\ frontier \in Bids /\ rsel' \in Bids /\ frontier' \in Bids
      /\ selected \in Bids /\ declared \in Bids
  BY DEF TypeOK, ProjectTypeOK, SyncTypeOK, ResolveTypeOK
<1>3. /\ Below(rsel, sel) /\ Below(frontier, sel)
      /\ \A k \in Key : sel[k] \in {rsel[k], frontier[k]}
  BY <1>2, RaiseFacts, BelowFacts
<1>4. \A k \in Key : /\ rsel[k] \in Nat /\ frontier[k] \in Nat /\ sel[k] \in Nat
                     /\ frontier'[k] \in Nat /\ selected[k] \in Nat /\ declared[k] \in Nat
  BY <1>1, <1>2, LabelFacts DEF Bids
<1>5. /\ Below(rsel, selected) /\ Below(frontier, selected) /\ Below(declared, sel)
      /\ \A j \in Asked(rsel) : Usable(j) => Below(Deps(vendor[j]), sel)
      /\ \A k \in Key : /\ rsel[k] # 0 => AskedFor(k, rsel[k])
                        /\ frontier[k] # 0 => AskedFor(k, frontier[k])
      /\ \A k \in rmissing : ~Usable(k)
  BY <1>1 DEF Rounds
<1> HIDE DEF sel
<1>6. Below(sel, selected)
  BY <1>3, <1>4, <1>5 DEF Below
<1>7. \A k \in Key : Usable(k) /\ sel[k] # 0 =>
        vendor[k] # NoTree /\ Below(Deps(vendor[k]), selected)
  <2>1. \A k \in Key : sel[k] # 0 => selected[k] # 0
    BY <1>4, <1>6 DEF Below
  <2> QED BY <1>1, <2>1, SelectedIsVendored
<1>8. \A k \in Raised : k \in Key /\ sel[k] # 0
  BY <1>3, <1>4 DEF Raised, Below
<1>9. read = {k \in Raised : Usable(k)}
  BY <1>7, <1>8, VendoredLocal DEF ReadNow
<1>10. \A k \in read : k \in Key /\ Usable(k) /\ sel[k] # 0 /\ LocalTree(k, sel[k]) = vendor[k]
  BY <1>7, <1>8, <1>9, VendoredLocal
<1> HIDE DEF read
<1>11. \A d \in Key : /\ \A k \in read : Deps(vendor[k])[d] <= frontier'[d]
                      /\ frontier'[d] # 0 => \E k \in read : Deps(vendor[k])[d] = frontier'[d]
  BY <1>1, <1>10 DEF HighestBid
<1>12. Below(frontier', selected)
  <2>1. ASSUME NEW d \in Key, frontier'[d] # 0
        PROVE  frontier'[d] <= selected[d]
    BY <1>7, <1>10, <1>11, <2>1 DEF Below
  <2> QED BY <1>4, <2>1 DEF Below
<1> DEFINE next == Raise(sel, frontier')
<1>13. next \in Bids /\ Below(sel, next) /\ Below(frontier', next) /\ \A k \in Key : next[k] \in Nat
  <2>1. next \in Bids
    BY <1>1, <1>2, RaiseFacts
  <2> QED BY <1>1, <1>2, <2>1, BelowFacts, LabelFacts DEF Bids
<1> HIDE DEF next
<1>14. Below(declared, next)
  BY <1>1, <1>2, <1>5, <1>13, BelowFacts
<1>15. ASSUME NEW j \in Key, sel[j] # 0, Usable(j)
       PROVE  Below(Deps(vendor[j]), next)
  <2>1. Deps(vendor[j]) \in Bids
    BY DepsType DEF TypeOK, ProjectTypeOK
  <2>2. CASE j \in Raised
    <3>1. Below(Deps(vendor[j]), frontier')
      BY <1>9, <1>11, <1>15, <2>2 DEF Below
    <3> QED BY <1>2, <1>13, <2>1, <3>1, BelowFacts
  <2>3. CASE j \notin Raised
    <3>1. rsel[j] # 0
      BY <1>3, <1>4, <1>15, <2>3 DEF Raised, Below
    <3>2. Below(Deps(vendor[j]), sel)
      BY <1>5, <1>15, <3>1 DEF Asked
    <3> QED BY <1>1, <1>2, <1>13, <2>1, <3>2, BelowFacts
  <2> QED BY <2>2, <2>3
<1>16. \A j \in Key : rsel[j] # 0 => sel[j] # 0
  BY <1>3, <1>4 DEF Below
<1>17. ASSUME NEW k \in Key, NEW v, AskedFor(k, v)
       PROVE  declared[k] = v \/ \E j \in Key : sel[j] # 0 /\ Usable(j) /\ Deps(vendor[j])[k] = v
  BY <1>16, <1>17 DEF AskedFor, Asked
<1>18. ASSUME NEW k \in Key
       PROVE  /\ rsel'[k] # 0 => AskedFor(k, rsel[k])'
              /\ frontier'[k] # 0 => AskedFor(k, frontier[k])'
  <2>1. sel[k] # 0 => declared[k] = sel[k] \/ \E j \in Key : sel[j] # 0 /\ Usable(j) /\ Deps(vendor[j])[k] = sel[k]
    BY <1>3, <1>5, <1>17
  <2>2. frontier'[k] # 0 => \E j \in Key : sel[j] # 0 /\ Usable(j) /\ Deps(vendor[j])[k] = frontier'[k]
    BY <1>10, <1>11
  <2> QED BY <1>1, <2>1, <2>2 DEF AskedFor, Asked
<1>19. \A k \in rmissing' : ~Usable(k)
  BY <1>1, <1>5, <1>9
<1>20. \A j \in Asked(rsel') : Usable(j) => Below(Deps(vendor'[j]), Raise(rsel', frontier'))
  BY <1>1, <1>15 DEF Asked, next
<1>21. Below(declared', Raise(rsel', frontier'))
  BY <1>1, <1>14 DEF next
<1> QED BY <1>1, <1>6, <1>12, <1>18, <1>19, <1>20, <1>21 DEF Rounds, Asked

LEMMA RoundsStep ==
  ASSUME TypeOK, TypeOK', TreesFound, Bidden, Rounds, Next
  PROVE  Rounds'
<1>1. SUFFICES ASSUME pc' \in {"resolve", "pin"}, mode' \in Syncs
               PROVE  Rounds'
  BY DEF Rounds
<1>2. CASE Tidy
  BY <1>1, <1>2 DEF Tidy, Begin, Syncs, Changes
<1>3. CASE Round
  BY <1>1, <1>3, RoundsGo DEF Round, control
<1>4. CASE ResolveDone
  <2>1. /\ UNCHANGED <<declared, lock, vendor, store, down, engine, selected, rsel, frontier,
                       rmissing, mode>>
        /\ pc = "resolve" /\ Raised = {}
        /\ newlock' = [k \in Key |->
             IF k \in Asked(rsel) \ (rmissing \cup Unevaluable)
               THEN Pin(LocalTree(k, rsel[k]), rsel[k], engine) ELSE NoEntry]
    BY <1>4 DEF ResolveDone, project, cache, world, syncing
  <2>2. Raised' = {} /\ Asked(rsel)' = Asked(rsel) /\ Unevaluable' = Unevaluable
    BY <2>1 DEF Raised, Asked, Unevaluable, LocalTree
  <2>3. \A k \in Key \ (rmissing \cup Unevaluable) : newlock'[k].v = rsel[k]
    BY <2>1 DEF Pin, Asked, NoEntry
  <2>4. \A k \in Key : \A v : AskedFor(k, v) => AskedFor(k, v)'
    BY <2>1, <2>2 DEF AskedFor
  <2>5. \A k \in Key : /\ AskedFor(k, rsel[k]) => AskedFor(k, rsel[k])'
                       /\ AskedFor(k, frontier[k]) => AskedFor(k, frontier[k])'
    BY <2>1, <2>2 DEF AskedFor
  <2> QED BY <1>1, <2>1, <2>2, <2>3, <2>5 DEF Rounds
<1>5. CASE Publish
  <2>1. UNCHANGED <<declared, lock, vendor, store, down, engine, selected, rsel, frontier,
                    rmissing, newlock, mode, pc>>
    BY <1>5 DEF Publish, project, cache, world, syncing, resolving, control
  <2>2. Raised' = Raised /\ Asked(rsel)' = Asked(rsel) /\ Unevaluable' = Unevaluable
    BY <2>1 DEF Raised, Asked, Unevaluable, LocalTree
  <2>3. \A k \in Key : /\ AskedFor(k, rsel[k]) => AskedFor(k, rsel[k])'
                       /\ AskedFor(k, frontier[k]) => AskedFor(k, frontier[k])'
    BY <2>1, <2>2 DEF AskedFor
  <2> QED BY <1>1, <2>1, <2>2, <2>3 DEF Rounds
<1>6. CASE CopyDone
  BY <1>6, RoundsBegin
<1>7. pc' \in Working
  BY <1>1 DEF Working
<1>8. CASE \/ \E frozen \in BOOLEAN : Sync(frozen)
           \/ EditPackageFile \/ BidUnusable \/ BidHeld \/ BidAcquire \/ BidDone \/ Copy
  BY <1>1, <1>8 DEF Sync, Begin, EditPackageFile, BidUnusable, BidHeld, BidAcquire, Fetching,
                    BidDone, Copy, control
<1> QED BY <1>2, <1>3, <1>4, <1>5, <1>6, <1>7, <1>8, IntoWorking

(***************************************************************************)
(* What is written is what was selected.                                   *)
(***************************************************************************)

\* An answer that may be written pins every package the rounds selected, at
\* the version selected, and each of them is vendored.
LEMMA WritableIsExact ==
  ASSUME TypeOK, SoundInv, Bidden, Rounds, Writable, mode \in Syncs
  PROVE  Exact(newlock) /\ \A k \in Key : newlock[k] # NoEntry => selected[k] # 0
<1>1. pc = "pin" /\ Unevaluable = {} /\ rmissing = {}
  BY DEF Writable, ResolveVerdict
<1>2. /\ rsel \in Bids /\ frontier \in Bids /\ selected \in Bids /\ declared \in Bids
      /\ newlock \in [Key -> Entry \cup {NoEntry}]
  BY DEF TypeOK, ProjectTypeOK, SyncTypeOK, ResolveTypeOK
<1>3. /\ Below(rsel, selected)
      /\ Below(declared, Raise(rsel, frontier))
      /\ \A j \in Asked(rsel) : Usable(j) => Below(Deps(vendor[j]), Raise(rsel, frontier))
      /\ \A k \in Key : rsel[k] # 0 => AskedFor(k, rsel[k])
      /\ Raised = {}
      /\ \A k \in Key : newlock[k].v = rsel[k]
  BY <1>1 DEF Rounds
<1>4. \A k \in Key : rsel[k] \in Nat /\ frontier[k] \in Nat /\ selected[k] \in Nat
  BY <1>2, LabelFacts DEF Bids
<1>5. \A k \in Key : Raise(rsel, frontier)[k] = rsel[k]
  BY <1>3, <1>4 DEF Raise, Raised
<1>6. \A k \in Key : newlock[k] # NoEntry <=> rsel[k] # 0
  <2>1. \A e \in Entry : e.v # 0
    BY WorldAssumption DEF Entry, Version
  <2>2. NoEntry.v = 0
    BY DEF NoEntry
  <2> QED BY <1>2, <1>3, <2>1, <2>2
<1>7. ASSUME NEW k \in Key, newlock[k] # NoEntry
      PROVE  Usable(k) /\ selected[k] # 0 /\ vendor[k] # NoTree
  <2>1. Usable(k)
    BY <1>7 DEF SoundInv, Sound
  <2>2. selected[k] # 0
    BY <1>3, <1>4, <1>6, <1>7 DEF Below
  <2> QED BY <1>1, <2>1, <2>2, SelectedIsVendored
<1>8. ASSUME NEW k \in Key
      PROVE  /\ declared[k] <= newlock[k].v
             /\ \A j \in Key : newlock[j] # NoEntry => Deps(vendor[j])[k] <= newlock[k].v
  <2>1. declared[k] <= rsel[k]
    BY <1>3, <1>5 DEF Below
  <2>2. ASSUME NEW j \in Key, newlock[j] # NoEntry
        PROVE  Deps(vendor[j])[k] <= rsel[k]
    BY <1>3, <1>5, <1>6, <1>7, <2>2 DEF Below, Asked
  <2> QED BY <1>3, <2>1, <2>2
<1>9. ASSUME NEW k \in Key, newlock[k] # NoEntry
      PROVE  \/ declared[k] = newlock[k].v
             \/ \E j \in Key : newlock[j] # NoEntry /\ Deps(vendor[j])[k] = newlock[k].v
  BY <1>3, <1>6, <1>9 DEF AskedFor, Asked
<1> QED BY <1>7, <1>8, <1>9 DEF Exact

Writing == {"prune", "write", "verify"}

\* Which steps lead to, or stay in, the part of a verb that writes.
LEMMA IntoWriting ==
  ASSUME Next, pc' \in Writing
  PROVE  Writable \/ Prune \/ PruneDone \/ WriteLock \/ Publish
<1>1. CASE Start
  BY <1>1 DEF Start, Sync, Get, Remove, Tidy, Vendor, Refreeze, Begin, Writing
<1>2. CASE Continue
  <2>1. ASSUME NEW v, Finish(v)
        PROVE  FALSE
    BY <2>1 DEF Finish, Writing
  <2> QED
    BY <1>2, <2>1
       DEF Continue, EditPackageFile, BidUnusable, BidHeld, BidAcquire, BidRefused,
           ConfigRefused, BidFrozen, BidDone, Fetching, Copy, CopyDone, Round, ResolveDone,
           Unwritable, Verify, UndoPackageFile, UndoLock, UndoClear, UndoVendor,
           Undo, VendorNext, VendorDone, Repin, Repinning, RepinNothing, control, Writing
<1>3. CASE Crash
  BY <1>3 DEF Crash, Ended, Throw, Die, DieBetween, DieInPackageFile, DieInLock, DieInTree,
              DieInClear, project, Writing
<1>4. CASE Author \/ Damage \/ HandCopy \/ Upgrade \/ CleanCache
  BY <1>4 DEF Author, Damage, HandCopy, Upgrade, CleanCache, Disturbed, control, Writing
<1> QED BY <1>1, <1>2, <1>3, <1>4 DEF Next, Environment

LEMMA ExactKept ==
  /\ Exact(newlock) /\ UNCHANGED <<declared, vendor, newlock>> => Exact(newlock)'
  /\ Exact(lock) /\ UNCHANGED <<declared, vendor, lock>> => Exact(lock)'
BY DEF Exact

LEMMA WrittenStep ==
  ASSUME TypeOK, SoundInv, Bidden, Rounds, Written, Standalone, Next
  PROVE  Written'
<1>1. CASE Writable
  <2>1. UNCHANGED <<declared, vendor, newlock, selected, mode>> /\ pc' # "idle" /\ pc' # "verify"
    BY <1>1 DEF Writable, project, syncing, resolving
  <2>2. mode \in Syncs => Exact(newlock)' /\ \A k \in Key : newlock'[k] # NoEntry => selected'[k] # 0
    BY <1>1, <2>1, WritableIsExact, ExactKept
  <2> QED BY <2>1, <2>2 DEF Written, Synced
<1>2. CASE Prune
  <2>1. /\ pc = "prune" /\ UNCHANGED <<declared, newlock, selected, mode, pc>>
        /\ \E k \in ToPrune : vendor' = [vendor EXCEPT ![k] = NoTree]
    BY <1>2 DEF Prune, First, control, syncing, resolving
  <2>2. ASSUME mode \in Syncs
        PROVE  Exact(newlock)'
    <3>1. Exact(newlock) /\ \A k \in Key : newlock[k] # NoEntry => selected[k] # 0
      BY <2>1, <2>2 DEF Written
    <3>2. \A k \in Key : newlock[k] # NoEntry => vendor'[k] = vendor[k]
      <4>1. PICK k \in ToPrune : vendor' = [vendor EXCEPT ![k] = NoTree]
        BY <2>1
      <4>2. k \in Key /\ selected[k] = 0 /\ vendor \in [Key -> Tree \cup {NoTree}]
        BY DEF ToPrune, TypeOK, ProjectTypeOK
      <4>3. newlock[k] = NoEntry
        BY <3>1, <4>2
      <4> QED BY <4>1, <4>2, <4>3
    <3> QED BY <2>1, <3>1, <3>2 DEF Exact
  <2> QED BY <2>1, <2>2 DEF Written, Synced
<1>3. CASE PruneDone
  <2>1. UNCHANGED <<declared, vendor, newlock, mode>> /\ pc = "prune" /\ pc' = "write"
    BY <1>3 DEF PruneDone, project, resolving
  <2> QED BY <2>1, ExactKept DEF Written, Synced
<1>4. CASE WriteLock
  <2>1. UNCHANGED <<declared, vendor, mode>> /\ lock' = newlock /\ pc = "write"
    BY <1>4 DEF WriteLock, Finish
  <2>2. mode \in Syncs => pc' = "verify"
    BY <1>4 DEF WriteLock, Syncs, Changes
  <2>3. mode \in Syncs => Exact(lock)'
    BY <2>1 DEF Written, Exact
  <2> QED BY <2>1, <2>2, <2>3 DEF Written, Synced
<1>5. CASE Publish
  <2>1. UNCHANGED <<declared, lock, vendor, newlock, selected, mode, pc, verdict>>
    BY <1>5 DEF Publish, project, syncing, resolving, control
  <2> QED BY <2>1, ExactKept DEF Written, Synced
<1>6. CASE Verify \/ CleanCache
  <2>1. UNCHANGED <<declared, lock, vendor>>
    BY <1>6 DEF Verify, CleanCache, project
  <2>2. pc' \notin Writing
    BY <1>6 DEF Verify, Finish, CleanCache, control, Writing
  <2>3. Synced' => Exact(lock)
    <3>1. Synced' => (pc = "verify" /\ mode \in Syncs) \/ Synced
      BY IntoSynced DEF Standalone, Verify
    <3> QED BY <3>1 DEF Written
  <2> QED BY <2>1, <2>2, <2>3, ExactKept DEF Written, Writing
<1>7. CASE ~(Writable \/ Prune \/ PruneDone \/ WriteLock \/ Publish \/ Verify \/ CleanCache)
  <2>1. pc' \notin Writing
    BY <1>7, IntoWriting
  <2>2. ~Synced'
    BY <1>7, IntoSynced DEF Standalone
  <2> QED BY <2>1, <2>2 DEF Written, Writing
<1> QED BY <1>1, <1>2, <1>3, <1>4, <1>5, <1>6, <1>7

(***************************************************************************)
(* The build with the cache gone.                                          *)
(***************************************************************************)

\* An import that resolves at all under an exact lock resolves to a vendored
\* tree.
LEMMA ImportsAreVendored ==
  ASSUME Exact(lock), NEW d \in Key, NEW s, ImportHolds(d, lock, vendor, s, engine)
  PROVE  vendor[d] # NoTree
BY DEF Exact, ImportHolds, Resolved

\* What verifies against the stores of an exact lock verifies against the
\* vendor tree alone.
LEMMA VerifiedIsOffline ==
  ASSUME TypeOK, Exact(lock), VerifyVerdict = "ok", NEW k \in Locked
  PROVE  /\ vendor[k] # NoTree
         /\ BytesHold(lock[k], vendor[k])
         /\ Evaluates(k, vendor[k], lock, vendor, EmptyStore, engine)
<1>1. \A j \in Locked : j \in Key /\ vendor[j] # NoTree
  BY DEF Locked, Exact
<1>2. LockedTree(k) = vendor[k]
  BY <1>1, VendoredLocal DEF LockedTree
<1>3. k \notin Unread /\ k \notin Mismatched
  BY DEF VerifyVerdict
<1>4. /\ BytesHold(lock[k], vendor[k])
      /\ Evaluates(k, vendor[k], lock, vendor, store, engine)
  BY <1>2, <1>3 DEF Mismatched
<1>5. ASSUME NEW d \in ImportClosure(k, vendor)
      PROVE  ImportHolds(d, lock, vendor, EmptyStore, engine)
  <2>1. ImportHolds(d, lock, vendor, store, engine)
    BY <1>4 DEF Evaluates
  <2>2. vendor[d] # NoTree
    BY <2>1, ImportsAreVendored DEF ImportClosure
  <2>3. /\ Resolved(d, lock, vendor, store) = vendor[d]
        /\ Resolved(d, lock, vendor, EmptyStore) = vendor[d]
    BY <2>2 DEF Resolved
  <2> QED BY <2>1, <2>3 DEF ImportHolds
<1>6. Evaluates(k, vendor[k], lock, vendor, EmptyStore, engine)
  BY <1>4, <1>5 DEF Evaluates
<1> QED BY <1>1, <1>4, <1>6

LEMMA StandaloneStep ==
  ASSUME TypeOK, Written, Standalone, Next
  PROVE  Standalone'
<1>1. VerbInv'
  BY VerbInvStep DEF Standalone
<1>2. OfflineBuild'
  <2>1. CASE Synced /\ (CleanCache \/ Publish)
    <3>1. UNCHANGED <<lock, vendor, engine>>
      BY <2>1 DEF CleanCache, Publish, project, world
    <3> QED BY <2>1, <3>1 DEF Standalone, OfflineBuild, Locked
  <2>2. CASE Verify /\ VerifyVerdict = "ok" /\ mode \in Syncs
    <3>1. UNCHANGED <<lock, vendor, engine>> /\ Exact(lock)
      BY <2>2 DEF Verify, project, world, Written
    <3> QED BY <2>2, <3>1, VerifiedIsOffline DEF OfflineBuild, Locked
  <2>3. CASE ~Synced'
    BY <2>3 DEF OfflineBuild
  <2> QED BY <2>1, <2>2, <2>3, IntoSynced DEF Standalone
<1> QED BY <1>1, <1>2 DEF Standalone

(***************************************************************************)
(* The theorems.                                                           *)
(***************************************************************************)
LEMMA LockInvInit == Init => LockInv
<1> SUFFICES ASSUME Init PROVE LockInv
  OBVIOUS
<1>1. pc = "idle" /\ verdict = "none" /\ store = EmptyStore
  BY DEF Init
<1>2. StoreFiled
  BY <1>1 DEF StoreFiled, EmptyStore
<1> QED
  BY <1>1, <1>2, VerbInvInit
     DEF LockInv, Bidden, Rounds, Written, Standalone, OfflineBuild, Synced, Undoing

LEMMA LockInvStep ==
  ASSUME TypeOK, TypeOK', TreesFound, OneDepBlock, SoundInv, LockInv, Next
  PROVE  LockInv'
<1>1. StoreFiled'
  BY StoreFiledStep DEF LockInv
<1>2. Bidden' /\ Rounds' /\ Written' /\ Standalone'
  BY <1>1, BiddenStep, RoundsStep, WrittenStep, StandaloneStep DEF LockInv
<1> QED BY <1>1, <1>2 DEF LockInv

LEMMA LockInvStutter ==
  ASSUME LockInv, UNCHANGED vars
  PROVE  LockInv'
<1>1. StoreFiled'
  BY DEF LockInv, StoreFiled, vars, cache
<1>2. Bidden'
  BY DEF LockInv, Bidden, vars, project, cache, control, syncing, TreeIn, Asked
<1>3. Rounds'
  <2>1. UNCHANGED <<declared, lock, vendor, store, down, engine, selected, rsel, frontier,
                    rmissing, newlock, mode, pc>>
    BY DEF vars, project, cache, world, syncing, resolving, control
  <2>2. Raised' = Raised /\ Asked(rsel)' = Asked(rsel) /\ Unevaluable' = Unevaluable
    BY <2>1 DEF Raised, Asked, Unevaluable, LocalTree
  <2>3. \A k \in Key : /\ AskedFor(k, rsel[k]) => AskedFor(k, rsel[k])'
                       /\ AskedFor(k, frontier[k]) => AskedFor(k, frontier[k])'
    BY <2>1, <2>2 DEF AskedFor
  <2> QED BY <2>1, <2>2, <2>3 DEF LockInv, Rounds
<1>4. UNCHANGED <<declared, lock, vendor, newlock, selected, mode, pc, verdict, engine>>
  BY DEF vars, project, world, syncing, resolving, control
<1>5. Written'
  BY <1>4, ExactKept DEF LockInv, Written, Synced
<1>6. Standalone'
  BY <1>4, VerbInvStutter DEF LockInv, Standalone, OfflineBuild, Synced, Locked
<1> QED BY <1>1, <1>2, <1>3, <1>5, <1>6 DEF LockInv

LEMMA LockInvAlways ==
  ASSUME OneDepBlock
  PROVE  Spec => []LockInv
<1>1. Init => TypeOK /\ TreesFound /\ SoundInv /\ LockInv
  BY InitTypes, InitFound, LockInvInit, SoundInvInit
<1>2. TypeOK /\ TreesFound /\ SoundInv /\ LockInv /\ [Next]_vars
        => (TypeOK /\ TreesFound /\ SoundInv /\ LockInv)'
  <2>1. ASSUME TypeOK, TreesFound, SoundInv, LockInv, Next
        PROVE  (TypeOK /\ TreesFound /\ SoundInv /\ LockInv)'
    <3>1. TypeOK' /\ TreesFound' /\ SoundInv'
      BY <2>1, TypeStep, DirsFoundStep, SelectionFoundStep, VendoringLockedStep, SoundInvStep
         DEF TreesFound
    <3> QED BY <2>1, <3>1, LockInvStep
  <2>2. ASSUME TypeOK, TreesFound, SoundInv, LockInv, UNCHANGED vars
        PROVE  (TypeOK /\ TreesFound /\ SoundInv /\ LockInv)'
    BY <2>2, Stutter, SoundInvStutter, LockInvStutter
  <2> QED BY <2>1, <2>2
<1> QED BY <1>1, <1>2, PTL DEF Spec

\* Minimal version selection as the lock shows it, whatever was held,
\* fetched, replaced or superseded on the way, whatever appeared in the
\* repository or vanished from the cache meanwhile, and whatever died
\* before: where releases that mean the same need the same, a project
\* whose sync answered ok is locked at exactly the highest minimum that it
\* or a locked package's tree asks for.
THEOREM LocksAreHighestMinima ==
  ASSUME OneDepBlock
  PROVE  Spec => []LockIsHighestMinima
<1>1. ASSUME TypeOK, LockInv
      PROVE  LockIsHighestMinima
  <2>1. ASSUME Synced, NEW k \in Key
        PROVE  /\ declared[k] <= lock[k].v
               /\ \A j \in Locked : Deps(vendor[j])[k] <= lock[k].v
               /\ k \in Locked => \/ declared[k] = lock[k].v
                                  \/ \E j \in Locked : Deps(vendor[j])[k] = lock[k].v
    BY <1>1, <2>1 DEF LockInv, Written, Exact, Locked
  <2> QED BY <2>1 DEF LockIsHighestMinima
<1> QED BY <1>1, LockInvAlways, TypeCorrect, PTL

\* "A synced project evaluates with no cache and no network", where releases
\* that mean the same need the same: once a sync of its own, or of a get or a
\* remove, has answered ok, every locked package is vendored, carries the
\* pinned bytes and evaluates from the vendor tree alone, until the project,
\* a tree or the engine is changed.
THEOREM BuildsAreOffline ==
  ASSUME OneDepBlock
  PROVE  Spec => []OfflineBuild
<1>1. LockInv => OfflineBuild
  BY DEF LockInv, Standalone
<1> QED BY <1>1, LockInvAlways, PTL

(***************************************************************************)
(* A minimum is met by the tree, not only by the entry that names it.      *)
(*                                                                         *)
(* Where two releases mean the same, a tree of the older may be locked as  *)
(* the newer.                                                              *)
(***************************************************************************)
DistinctMeanings ==
  \A p \in Pkg : \A v, w \in Version : MeaningOf[p][v] = MeaningOf[p][w] => v = w

\* The tree t does not say another version than v.
Says(t, v) == Said(t) \in {0, v}

LEMMA ReleaseSays ==
  ASSUME NEW p, NEW v
  PROVE  Said(Released(p, v)) = v
BY DEF Said, Released

\* The entries of l name no version above what their trees say.
Met(l) ==
  \A k \in Key : l[k] # NoEntry => Said(vendor[k]) = 0 \/ l[k].v <= Said(vendor[k])

VersionInv ==
  /\ pc \in {"bid", "copy"} \/ (pc \in {"resolve", "pin"} /\ mode \in Syncs) =>
       \A k \in Key \ pending :
         dirs[k] # NoDir => Says(TreeIn(k, dirs[k]), selected[k])
  /\ pc \in {"prune", "write"} /\ mode \in Syncs => Met(newlock)
  /\ (pc = "verify" /\ mode \in Syncs) \/ Synced => Met(lock)

LEMMA DistinctIsOne == DistinctMeanings => OneDepBlock
BY DEF DistinctMeanings, OneDepBlock

\* A release filed under a meaning is the only one that means it.
LEMMA OneReleaseOfMeaning ==
  ASSUME DistinctMeanings, TypeOK, StoreFiled, NEW p \in Pkg, NEW v \in Version,
         store[p][MeaningOf[p][v]] # 0
  PROVE  store[p][MeaningOf[p][v]] = v
<1>1. MeaningOf[p][v] \in Meaning
  BY LabelFacts, WorldAssumption
<1>2. store[p][MeaningOf[p][v]] \in Version
  BY <1>1, LabelFacts DEF TypeOK, CacheTypeOK
<1> QED BY <1>1, <1>2 DEF DistinctMeanings, StoreFiled

LEMMA SameReleaseKept ==
  ASSUME DistinctMeanings, TypeOK, TypeOK', StoreFiled, StoreFiled',
         NEW p \in Pkg, NEW m \in Meaning, store[p][m] # 0, store'[p][m] # 0
  PROVE  store'[p][m] = store[p][m]
<1>1. store[p][m] \in Version /\ store'[p][m] \in Version
  BY LabelFacts DEF TypeOK, CacheTypeOK
<1> QED BY <1>1 DEF DistinctMeanings, StoreFiled

LEMMA ReadSays ==
  ASSUME TypeOK, TypeOK', VersionInv, pc = "bid", pc' = "bid",
         NEW k \in pending, NEW dir \in Dir, NEW t \in Tree, Read(k, dir, t),
         Says(TreeIn(k, dir)', selected[k]),
         \A j \in Key : \A d \in Dir :
           d = dirs[j] /\ d # NoDir => TreeIn(j, d)' = TreeIn(j, d)
  PROVE  VersionInv'
<1>1. /\ k \in Key /\ selected \in Bids /\ dirs \in [Key -> Dir] /\ pending \subseteq Key
      /\ Deps(t) \in Bids
  BY DepsType DEF TypeOK, SyncTypeOK
<1>2. /\ dirs' = [dirs EXCEPT ![k] = dir]
      /\ selected' = Raise(selected, Deps(t))
      /\ pending' = (pending \ {k}) \cup {d \in Key : selected[d] < Deps(t)[d]}
  BY DEF Read
<1>3. \A d \in Key \ pending' : selected'[d] = selected[d] /\ (d # k => d \notin pending)
  BY <1>2 DEF Raise
<1>4. ASSUME NEW j \in Key \ pending', dirs'[j] # NoDir
      PROVE  Says(TreeIn(j, dirs[j])', selected'[j])
  <2>1. CASE j = k
    <3>1. TreeIn(j, dirs[j])' = TreeIn(k, dir)'
      BY <1>1, <1>2, <2>1 DEF TreeIn
    <3> QED BY <1>3, <2>1, <3>1
  <2>2. CASE j # k
    <3>1. PICK d \in Dir : d = dirs[j]
      BY <1>1
    <3>2. dirs'[j] = d /\ d # NoDir
      BY <1>1, <1>2, <1>4, <2>2, <3>1
    <3>3. TreeIn(j, dirs[j])' = TreeIn(j, d)'
      BY <3>2 DEF TreeIn
    <3>4. TreeIn(j, d)' = TreeIn(j, dirs[j])
      BY <3>1, <3>2
    <3>5. Says(TreeIn(j, dirs[j]), selected[j])
      BY <1>3, <2>2, <3>1, <3>2 DEF VersionInv
    <3> QED BY <1>3, <3>3, <3>4, <3>5
  <2> QED BY <2>1, <2>2
<1> QED BY <1>4 DEF VersionInv, Synced

LEMMA HeldSays ==
  ASSUME DistinctMeanings, TypeOK, TypeOK', StoreFiled, Bidden, VersionInv, BidHeld
  PROVE  VersionInv'
<1>1. PICK k \in First(Held) :
        Read(k, HeldAt(k, selected[k]), TreeIn(k, HeldAt(k, selected[k])))
  BY DEF BidHeld
<1>2. /\ k \in Key /\ k \in pending /\ Usable(k) /\ HeldAt(k, selected[k]) # NoDir
      /\ selected[k] \in Label
  BY DEF First, Held, TypeOK, SyncTypeOK, Bids
<1>3. UNCHANGED <<vendor, store, pc>> /\ pc = "bid"
  BY DEF BidHeld, project, cache, control
<1>4. selected[k] \in Version
  BY <1>2, <1>3, LabelFacts DEF Bidden, Asked
<1>5. PICK dir \in Dir, t \in Tree :
        dir = HeldAt(k, selected[k]) /\ t = TreeIn(k, HeldAt(k, selected[k]))
  BY <1>2, HeldAtTypes
<1>6. Read(k, dir, t) /\ dir # NoDir
  BY <1>1, <1>2, <1>5
<1>7. \A j \in Key : \A d \in Dir : TreeIn(j, d)' = TreeIn(j, d)
  BY <1>3 DEF TreeIn
<1>8. Says(TreeIn(k, dir), selected[k])
  <2>1. CASE dir = InVendor /\ Said(vendor[k]) \in {0, selected[k]}
    BY <2>1, DirFields DEF TreeIn, Says
  <2>2. CASE dir = InStore(Names[k], selected[k])
             /\ store[Names[k]][MeaningOf[Names[k]][selected[k]]] # 0
    <3>1. Names[k] \in Pkg
      BY <1>2, UsableNames
    <3>2. store[Names[k]][MeaningOf[Names[k]][selected[k]]] = selected[k]
      BY <1>4, <2>2, <3>1, OneReleaseOfMeaning
    <3>3. dir.at = "store" /\ dir.meaning = MeaningOf[Names[k]][selected[k]]
      BY <1>2, <2>2, <3>1, DirFields
    <3>4. selected[k] # 0
      BY <2>2, <3>2
    <3>5. TreeIn(k, dir) = Released(Names[k], selected[k])
      BY <3>2, <3>3, <3>4 DEF TreeIn, Stored
    <3> QED BY <3>5, ReleaseSays DEF Says
  <2> QED BY <1>5, <1>6, <2>1, <2>2 DEF HeldAt
<1> QED BY <1>2, <1>3, <1>6, <1>7, <1>8, ReadSays

LEMMA AcquiredSays ==
  ASSUME DistinctMeanings, TypeOK, TypeOK', TreesFound, StoreFiled, StoreFiled', Bidden,
         VersionInv, BidAcquire
  PROVE  VersionInv'
<1>1. PICK k \in Key, last \in SUBSET Release :
        /\ Usable(k) /\ k \in pending
        /\ <<Names[k], selected[k]>> \in last /\ store' = Filed(last)
        /\ Read(k, InStore(Names[k], selected[k]), Released(Names[k], selected[k]))
  BY AcquireReads
<1>2. UNCHANGED <<vendor, pc>> /\ pc = "bid"
  BY DEF BidAcquire, Fetching, project, control
<1>3. PICK v \in Version : v = selected[k]
  BY <1>1, <1>2, LabelFacts DEF Bidden, Asked, TypeOK, SyncTypeOK, Bids
<1>4. Names[k] \in Pkg /\ v \in Label /\ MeaningOf[Names[k]][v] \in Meaning
  BY <1>1, UsableNames, LabelFacts, WorldAssumption
<1>5. PICK dir \in Dir, t \in Tree :
        dir = InStore(Names[k], v) /\ t = Released(Names[k], v)
  BY <1>4, DirTypes, ReleasedType
<1>6. Read(k, dir, t)
  BY <1>1, <1>3, <1>5
<1>7. store'[Names[k]][MeaningOf[Names[k]][v]] # 0
  <2>1. <<Names[k], v>> \in last
    BY <1>1, <1>3
  <2> QED BY <1>1, <2>1, FiledTypes
<1>8. store'[Names[k]][MeaningOf[Names[k]][v]] = v
  <2>1. store'[Names[k]][MeaningOf[Names[k]][v]] \in Version
    BY <1>4, <1>7, LabelFacts DEF TypeOK, CacheTypeOK
  <2> QED BY <1>4, <1>7, <2>1 DEF DistinctMeanings, StoreFiled
<1>9. TreeIn(k, dir)' = Released(Names[k], v)
  <2>1. dir.at = "store" /\ dir.meaning = MeaningOf[Names[k]][v]
    BY <1>4, <1>5, DirFields
  <2> QED BY <1>7, <1>8, <2>1 DEF TreeIn, Stored
<1>10. Says(TreeIn(k, dir)', selected[k])
  BY <1>3, <1>9, ReleaseSays DEF Says
<1>11. \A p \in Pkg : \A m \in Meaning : store[p][m] # 0 => store'[p][m] = store[p][m]
  BY BidAcquireStep, SameReleaseKept
<1>12. ASSUME NEW j \in Key, NEW d \in Dir, d = dirs[j], d # NoDir
       PROVE  TreeIn(j, d)' = TreeIn(j, d)
  <2>1. CASE d.at = "store"
    <3>1. Names[j] \in Pkg /\ TreeIn(j, d) # NoTree /\ d.meaning \in Meaning
      BY <1>12, <2>1, UsableNames, StoreDirMeaning DEF TreesFound, DirsFound
    <3>2. store[Names[j]][d.meaning] # 0
      BY <2>1, <3>1 DEF Stored, TreeIn
    <3>3. store'[Names[j]][d.meaning] = store[Names[j]][d.meaning]
      BY <1>11, <3>1, <3>2
    <3> QED BY <2>1, <3>3 DEF Stored, TreeIn
  <2>2. CASE d.at # "store"
    BY <1>2, <2>2 DEF TreeIn
  <2> QED BY <2>1, <2>2
<1> QED BY <1>1, <1>2, <1>6, <1>10, <1>12, ReadSays

\* The entries that may be written name what their trees say, or less.
LEMMA WritableIsMet ==
  ASSUME TypeOK, SoundInv, Bidden, Rounds, VersionInv, Writable, mode \in Syncs
  PROVE  Met(newlock)
<1>1. SUFFICES ASSUME NEW k \in Key, newlock[k] # NoEntry
               PROVE  Said(vendor[k]) = 0 \/ newlock[k].v <= Said(vendor[k])
  BY DEF Met
<1>2. pc = "pin" /\ Unevaluable = {} /\ rmissing = {}
  BY DEF Writable, ResolveVerdict
<1>3. newlock[k].v = rsel[k] /\ rsel[k] <= selected[k]
  BY <1>2 DEF Rounds, Below
<1>4. selected[k] # 0 /\ Usable(k) /\ pending = {}
  BY <1>1, <1>2, WritableIsExact DEF SoundInv, Sound, Bidden
<1>5. dirs[k] # NoDir /\ dirs[k].at = "vendor"
  BY <1>2, <1>4, SelectedIsVendored
<1>6. Says(vendor[k], selected[k])
  BY <1>2, <1>4, <1>5 DEF VersionInv, TreeIn
<1> QED BY <1>3, <1>6 DEF Says

LEMMA MetKept ==
  /\ Met(newlock) /\ UNCHANGED <<vendor, newlock>> => Met(newlock)'
  /\ Met(lock) /\ UNCHANGED <<vendor, lock>> => Met(lock)'
BY DEF Met

\* The steps that neither read a package nor write what was selected.
LEMMA WorkingSays ==
  ASSUME TypeOK, TreesFound, Bidden, VersionInv, pc' \in Working,
         pc' \in {"resolve", "pin"} => mode' \in Syncs,
         \/ \E frozen \in BOOLEAN : Sync(frozen)
         \/ Tidy \/ EditPackageFile \/ BidUnusable \/ BidDone
         \/ Copy \/ CopyDone \/ Round \/ ResolveDone \/ Publish
  PROVE  \A k \in Key \ pending' :
           dirs'[k] # NoDir => Says(TreeIn(k, dirs[k])', selected'[k])
<1>1. CASE (\E frozen \in BOOLEAN : Sync(frozen)) \/ EditPackageFile
  BY <1>1 DEF Sync, EditPackageFile, Bidding
<1>2. CASE Tidy
  BY <1>2 DEF Tidy, Begin, Syncs, Changes
<1>3. CASE BidUnusable
  <2>1. /\ pending' = pending \ First(Bad) /\ pc = "bid"
        /\ UNCHANGED <<vendor, store, selected, dirs>>
    BY <1>3 DEF BidUnusable, project, cache, control
  <2>2. \A k \in First(Bad) : dirs[k] = NoDir
    BY <2>1 DEF First, Bad, Bidden, TypeOK, SyncTypeOK
  <2>3. \A k \in Key \ pending' : dirs[k] # NoDir => k \notin pending
    BY <2>1, <2>2
  <2> QED BY <2>1, <2>3 DEF VersionInv, TreeIn
<1>4. CASE BidDone \/ ResolveDone \/ Round \/ Publish \/ CopyDone
  <2>1. /\ UNCHANGED <<vendor, store, selected, pending, dirs, mode>>
        /\ pc \in {"bid", "copy"} \/ (pc \in {"resolve", "pin"} /\ mode \in Syncs)
    BY <1>4 DEF BidDone, ResolveDone, Round, Publish, CopyDone, project, cache, syncing,
                control, Working
  <2> QED BY <2>1 DEF VersionInv, TreeIn
<1>5. CASE Copy
  <2>1. PICK k \in First(ToCopy) : /\ vendor' = [vendor EXCEPT ![k] = TreeIn(k, dirs[k])]
                                   /\ dirs' = [dirs EXCEPT ![k] = InVendor]
    BY <1>5 DEF Copy
  <2>2. /\ k \in Key /\ dirs[k].at = "store" /\ dirs \in [Key -> Dir]
        /\ vendor \in [Key -> Tree \cup {NoTree}]
    BY DEF First, ToCopy, TypeOK, SyncTypeOK, ProjectTypeOK
  <2>3. UNCHANGED <<store, selected, pending>> /\ pc = "copy"
    BY <1>5 DEF Copy, cache
  <2>4. \A j \in Key : TreeIn(j, dirs[j])' = TreeIn(j, dirs[j])
    BY <2>1, <2>2, <2>3, DirFields DEF TreeIn
  <2>5. \A j \in Key : dirs'[j] # NoDir => dirs[j] # NoDir
    BY <2>1, <2>2, DirFields
  <2> QED BY <2>3, <2>4, <2>5 DEF VersionInv
<1> QED BY <1>1, <1>2, <1>3, <1>4, <1>5

LEMMA VersionInvStep ==
  ASSUME DistinctMeanings, TypeOK, TypeOK', TreesFound, SoundInv, LockInv, StoreFiled',
         VersionInv, Next
  PROVE  VersionInv'
<1>1. StoreFiled /\ Bidden /\ Rounds /\ Standalone
  BY DEF LockInv
<1>2. CASE BidHeld
  BY <1>1, <1>2, HeldSays
<1>3. CASE BidAcquire
  BY <1>1, <1>3, AcquiredSays
<1>4. CASE pc' \in Working /\ ~BidHeld /\ ~BidAcquire
  <2>1. (pc' \in {"resolve", "pin"} => mode' \in Syncs) =>
          \A k \in Key \ pending' :
            dirs'[k] # NoDir => Says(TreeIn(k, dirs[k])', selected'[k])
    BY <1>1, <1>4, IntoWorking, WorkingSays
  <2> QED BY <1>4, <2>1 DEF VersionInv, Working, Synced
<1>5. CASE pc' \in Writing
  <2>1. CASE Writable
    <3>1. UNCHANGED <<vendor, newlock, mode>> /\ pc' # "verify" /\ pc' # "idle"
      BY <2>1 DEF Writable, project, resolving
    <3>2. mode \in Syncs => Met(newlock)'
      BY <1>1, <2>1, <3>1, WritableIsMet, MetKept
    <3> QED BY <1>5, <3>1, <3>2 DEF VersionInv, Writing, Synced
  <2>2. CASE Prune
    <3>1. /\ pc = "prune" /\ UNCHANGED <<newlock, mode, pc>>
          /\ \E k \in ToPrune : vendor' = [vendor EXCEPT ![k] = NoTree]
      BY <2>2 DEF Prune, First, control, resolving
    <3>2. ASSUME mode \in Syncs
          PROVE  Met(newlock)'
      <4>1. PICK k \in ToPrune : vendor' = [vendor EXCEPT ![k] = NoTree]
        BY <3>1
      <4>2. k \in Key /\ vendor \in [Key -> Tree \cup {NoTree}] /\ Said(NoTree) = 0
        BY DEF ToPrune, TypeOK, ProjectTypeOK, Said, NoTree
      <4>3. \A j \in Key : Said(vendor'[j]) = 0 \/ vendor'[j] = vendor[j]
        BY <4>1, <4>2
      <4> QED BY <3>1, <3>2, <4>3 DEF VersionInv, Met
    <3> QED BY <3>1, <3>2 DEF VersionInv, Synced
  <2>3. CASE PruneDone
    <3>1. UNCHANGED <<vendor, newlock, mode>> /\ pc = "prune" /\ pc' = "write"
      BY <2>3 DEF PruneDone, project, resolving
    <3> QED BY <3>1, MetKept DEF VersionInv, Synced
  <2>4. CASE WriteLock
    <3>1. UNCHANGED <<vendor, mode>> /\ lock' = newlock /\ pc = "write"
      BY <2>4 DEF WriteLock, Finish
    <3>2. mode \in Syncs => Met(lock)'
      BY <3>1 DEF VersionInv, Met
    <3>3. pc' = "verify"
      BY <1>5, <2>4 DEF WriteLock, Finish, Writing, Changes
    <3> QED BY <3>1, <3>2, <3>3 DEF VersionInv, Synced
  <2>5. CASE Publish
    <3>1. UNCHANGED <<vendor, lock, newlock, mode, pc>>
      BY <2>5 DEF Publish, project, resolving, control
    <3> QED BY <1>5, <3>1, MetKept DEF VersionInv, Writing, Synced
  <2> QED BY <1>5, <2>1, <2>2, <2>3, <2>4, <2>5, IntoWriting
<1>6. CASE pc' \notin Working \cup Writing
  <2>1. CASE Synced'
    <3>1. \/ Verify /\ VerifyVerdict = "ok" /\ mode \in Syncs
          \/ Synced /\ (CleanCache \/ Publish)
      BY <1>1, <2>1, IntoSynced DEF Standalone
    <3>2. UNCHANGED <<vendor, lock>> /\ Met(lock)
      BY <3>1 DEF Verify, CleanCache, Publish, project, VersionInv
    <3> QED BY <1>6, <3>2, MetKept DEF VersionInv, Working, Writing
  <2>2. CASE ~Synced'
    BY <1>6, <2>2 DEF VersionInv, Working, Writing
  <2> QED BY <2>1, <2>2
<1> QED BY <1>2, <1>3, <1>4, <1>5, <1>6

LEMMA VersionInvStutter ==
  ASSUME VersionInv, UNCHANGED vars
  PROVE  VersionInv'
<1>1. UNCHANGED <<vendor, store, lock, newlock, selected, pending, dirs, mode, pc, verdict>>
  BY DEF vars, project, cache, syncing, resolving, control
<1>2. \A j \in Key : TreeIn(j, dirs[j])' = TreeIn(j, dirs[j])
  BY <1>1 DEF TreeIn
<1> QED BY <1>1, <1>2, MetKept DEF VersionInv, Synced

\* "A dependency is a minimum version", where no two releases of a package
\* mean the same: once a sync has answered ok, no locked tree says a version
\* below the one its entry names, hence below any minimum asked for.
THEOREM MinimaAreMetByTrees ==
  ASSUME DistinctMeanings
  PROVE  Spec => []MinimaAreMet
<1>1. Init => TypeOK /\ TreesFound /\ SoundInv /\ LockInv /\ VersionInv
  <2>1. Init => pc = "idle" /\ verdict = "none"
    BY DEF Init
  <2>2. Init => VersionInv
    BY <2>1 DEF VersionInv, Synced
  <2> QED BY <2>2, InitTypes, InitFound, SoundInvInit, LockInvInit
<1>2. TypeOK /\ TreesFound /\ SoundInv /\ LockInv /\ VersionInv /\ [Next]_vars
        => (TypeOK /\ TreesFound /\ SoundInv /\ LockInv /\ VersionInv)'
  <2>1. ASSUME TypeOK, TreesFound, SoundInv, LockInv, VersionInv, Next
        PROVE  (TypeOK /\ TreesFound /\ SoundInv /\ LockInv /\ VersionInv)'
    <3>1. TypeOK' /\ TreesFound' /\ SoundInv'
      BY <2>1, TypeStep, DirsFoundStep, SelectionFoundStep, VendoringLockedStep, SoundInvStep
         DEF TreesFound
    <3>2. LockInv'
      BY <2>1, <3>1, DistinctIsOne, LockInvStep
    <3> QED BY <2>1, <3>1, <3>2, VersionInvStep DEF LockInv
  <2>2. ASSUME TypeOK, TreesFound, SoundInv, LockInv, VersionInv, UNCHANGED vars
        PROVE  (TypeOK /\ TreesFound /\ SoundInv /\ LockInv /\ VersionInv)'
    BY <2>2, Stutter, SoundInvStutter, LockInvStutter, VersionInvStutter
  <2> QED BY <2>1, <2>2
<1>3. VersionInv => MinimaAreMet
  BY DEF VersionInv, Met, MinimaAreMet, Locked
<1> QED BY <1>1, <1>2, <1>3, PTL DEF Spec

(***************************************************************************)
(* A sync that is run again changes nothing.                               *)
(*                                                                         *)
(* It may ask the repository for releases that the first did not keep, on  *)
(* its way up to the versions the first selected; what it reads there may  *)
(* not need more than the release that is selected in the end.             *)
(***************************************************************************)
RisingNeeds ==
  \A p \in Pkg : \A v, w \in Version : v <= w => Below(DepsOf[p][v], DepsOf[p][w])

\* A copy that says no version, put under vendor by hand or cut short, is
\* read whatever version is selected.
ByHand(k) == vendor[k].pkg = Names[k] /\ Said(vendor[k]) = 0

\* The vendor tree has what a sync looks for.
Fits(k, v) == vendor[k].pkg = Names[k] /\ Says(vendor[k], v)

\* What the package at k needs, selected at v.
Needs(k, v) == IF ByHand(k) THEN Deps(vendor[k]) ELSE DepsOf[Names[k]][v]

\* bids asks for whatever the packages it asks for need.
Closed(bids) ==
  \A k \in Asked(bids) : Usable(k) => Below(Needs(k, bids[k]), bids)

VersionsOf(l) == [k \in Key |-> l[k].v]

\* The entries of l pin the vendored trees as they stand, and nothing below
\* their versions is enough for the project.
Settled(l) ==
  /\ \A k \in Key : l[k] # NoEntry =>
       Fits(k, l[k].v) /\ l[k] = Pin(vendor[k], l[k].v, engine)
  /\ \A bids \in Bids :
       Below(declared, bids) /\ Below(bids, VersionsOf(l)) /\ Closed(bids)
         => bids = VersionsOf(l)

Selecting == pc \in {"bid", "copy"} \/ (pc \in {"resolve", "pin"} /\ mode \in Syncs)

\* A sync bids no more than it must, and fetches what the vendor tree has not.
Least ==
  Selecting =>
    /\ \A k \in Key : dirs[k].at = "vendor" => vendor[k].pkg = Names[k]
    /\ \A k \in Key \ pending : dirs[k].at = "store" => ~Fits(k, selected[k])
    /\ \A bids \in Bids :
         Below(declared, bids) /\ Closed(bids) => Below(selected, bids)

\* What pkgResolve answers pins the trees it read.
Pinning ==
  pc = "pin" => \A k \in Key : newlock[k] # NoEntry =>
    newlock[k] = Pin(LocalTree(k, rsel[k]), rsel[k], engine)

Settling ==
  /\ pc \in {"prune", "write"} /\ mode \in Syncs => Settled(newlock)
  /\ (pc = "verify" /\ mode \in Syncs) \/ Synced => Settled(lock) /\ lockFile = "whole"

LeastInv == Least /\ Pinning /\ Settling

\* The project is as a sync left it.
Kept ==
  /\ lockFile = "whole" /\ Exact(lock) /\ Settled(lock)
  /\ \A k \in Locked : /\ BytesHold(lock[k], vendor[k])
                       /\ Evaluates(k, vendor[k], lock, vendor, EmptyStore, engine)

Redoing == pc # "idle" /\ mode = "sync" /\ again

\* The second sync: the project stays as it was found, nothing is missing,
\* and what is pinned is what is locked.
RedoInv ==
  /\ Redoing =>
       /\ Now = snap /\ Kept
       /\ pc \in Working \cup Writing
       /\ pc \in Working => missing = {}
       /\ pc \in {"resolve", "pin"} => rmissing = {}
       /\ pc = "prune" => selected = VersionsOf(lock)
       /\ pc \in {"prune", "write"} => newlock = lock
  /\ Idempotent

(***************************************************************************)
(* A sync bids the least.                                                  *)
(***************************************************************************)
LEMMA NeedsType ==
  ASSUME TypeOK, NEW k \in Key, Usable(k), NEW v \in Label
  PROVE  Needs(k, v) \in Bids
<1>1. DepsOf[Names[k]][v] \in Bids
  BY UsableNames, WorldAssumption
<1>2. Deps(vendor[k]) \in Bids
  BY DepsType DEF TypeOK, ProjectTypeOK
<1> QED BY <1>1, <1>2 DEF Needs

LEMMA NeedsRise ==
  ASSUME TypeOK, RisingNeeds, NEW k \in Key, Usable(k), NEW v \in Version, NEW w \in Version, v <= w
  PROVE  Below(Needs(k, v), Needs(k, w))
<1>1. Names[k] \in Pkg
  BY UsableNames
<1>2. CASE ByHand(k)
  <2>1. Needs(k, v) = Needs(k, w) /\ Needs(k, v) \in Bids
    BY <1>2, NeedsType, LabelFacts DEF Needs
  <2> QED BY <2>1, BelowFacts
<1>3. CASE ~ByHand(k)
  BY <1>1, <1>3 DEF Needs, RisingNeeds
<1> QED BY <1>2, <1>3

\* What a tree that fits needs is what its package needs.
LEMMA FittingNeeds ==
  ASSUME TypeOK, NEW k \in Key, Usable(k), NEW v \in Version, Fits(k, v)
  PROVE  vendor[k] # NoTree /\ Deps(vendor[k]) = Needs(k, v)
<1>1. Names[k] \in Pkg /\ Names[k] # ""
  BY UsableNames, PkgAssumption
<1>2. vendor[k] # NoTree
  <2>1. NoTree.pkg = "" /\ vendor[k].pkg = Names[k]
    BY DEF Fits, NoTree
  <2> QED BY <1>1, <2>1
<1>3. CASE ByHand(k)
  BY <1>2, <1>3 DEF Needs
<1>4. CASE ~ByHand(k)
  <2>1. Said(vendor[k]) = v /\ v # 0
    BY <1>4 DEF Fits, Says, ByHand, Version
  <2>2. vendor[k].v = v /\ vendor[k].bytes # "cut"
    BY <2>1 DEF Said
  <2>3. Deps(vendor[k]) = DepsOf[Names[k]][v]
    BY <1>2, <2>2 DEF Deps, Fits
  <2> QED BY <1>2, <1>4, <2>3 DEF Needs
<1> QED BY <1>3, <1>4

\* What a release needs is what its package needs, where no vendored tree
\* fits.
LEMMA ReleasedNeeds ==
  ASSUME NEW k \in Key, Usable(k), NEW v \in Version, ~Fits(k, v)
  PROVE  Deps(Released(Names[k], v)) = Needs(k, v)
<1>1. Names[k] \in Pkg /\ v \in Label
  BY UsableNames, LabelFacts
<1>2. Released(Names[k], v) # NoTree
  BY <1>1, ReleasedType, NoTreeIsNoTree
<1>3. ~ByHand(k)
  BY DEF ByHand, Fits, Says
<1> QED BY <1>2, <1>3 DEF Deps, Released, Needs

LEMMA ReadLeast ==
  ASSUME TypeOK, TypeOK', RisingNeeds, Bidden, Least, pc = "bid", pc' = "bid",
         UNCHANGED <<declared, vendor>>,
         NEW k \in pending, Usable(k), NEW dir \in Dir, NEW t \in Tree, Read(k, dir, t),
         Deps(t) = Needs(k, selected[k]),
         dir.at = "vendor" => vendor[k].pkg = Names[k],
         dir.at = "store" => ~Fits(k, selected[k])
  PROVE  Least'
<1>1. /\ k \in Key /\ selected \in Bids /\ declared \in Bids /\ dirs \in [Key -> Dir]
      /\ pending \subseteq Key /\ Deps(t) \in Bids
  BY DepsType DEF TypeOK, SyncTypeOK, ProjectTypeOK
<1>2. /\ dirs' = [dirs EXCEPT ![k] = dir]
      /\ selected' = Raise(selected, Deps(t))
      /\ pending' = (pending \ {k}) \cup {d \in Key : selected[d] < Deps(t)[d]}
  BY DEF Read
<1>3. /\ \A j \in Key : dirs[j].at = "vendor" => vendor[j].pkg = Names[j]
      /\ \A j \in Key \ pending : dirs[j].at = "store" => ~Fits(j, selected[j])
      /\ \A bids \in Bids : Below(declared, bids) /\ Closed(bids) => Below(selected, bids)
  BY DEF Least, Selecting
<1>4. \A d \in Key \ pending' : selected'[d] = selected[d] /\ (d # k => d \notin pending)
  BY <1>2 DEF Raise
<1>5. \A j \in Key : dirs'[j] = IF j = k THEN dir ELSE dirs[j]
  BY <1>1, <1>2
<1>6. \A j \in Key : dirs'[j].at = "vendor" => vendor'[j].pkg = Names[j]
  BY <1>3, <1>5
<1>7. ASSUME NEW j \in Key \ pending', dirs'[j].at = "store"
      PROVE  ~Fits(j, selected[j])'
  <2>1. ~Fits(j, selected[j])
    BY <1>3, <1>4, <1>5, <1>7
  <2> QED BY <1>4, <2>1 DEF Fits
<1>8. ASSUME NEW bids \in Bids, Below(declared, bids), Closed(bids)
      PROVE  Below(selected', bids)
  <2>1. Below(selected, bids)
    BY <1>3, <1>8
  <2>2. selected[k] # 0 /\ selected[k] <= bids[k]
    BY <1>1, <2>1 DEF Bidden, Asked, Below
  <2>3. selected[k] \in Version /\ bids[k] \in Version
    <3>1. selected[k] \in Label /\ bids[k] \in Label
      BY <1>1 DEF Bids
    <3>2. bids[k] # 0
      <4>1. selected[k] \in Nat /\ bids[k] \in Nat
        BY <3>1, LabelFacts
      <4> QED BY <2>2, <4>1
    <3> QED BY <2>2, <3>1, <3>2, LabelFacts
  <2>4. Below(Needs(k, selected[k]), Needs(k, bids[k]))
    BY <1>1, <2>2, <2>3, NeedsRise
  <2>5. Below(Needs(k, bids[k]), bids)
    <3>1. bids[k] # 0
      BY <2>3 DEF Version
    <3> QED BY <1>1, <1>8, <3>1 DEF Closed, Asked
  <2>6. Needs(k, bids[k]) \in Bids
    BY <1>1, <2>3, NeedsType, LabelFacts
  <2>7. Below(Deps(t), bids)
    BY <1>1, <2>4, <2>5, <2>6, BelowFacts
  <2> QED BY <1>1, <1>2, <2>1, <2>7, BelowFacts
<1>9. \A bids \in Bids : Below(declared, bids)' /\ Closed(bids)' => Below(selected', bids)
  <2>1. \A bids : Closed(bids)' => Closed(bids)
    BY DEF Closed, Needs, ByHand
  <2> QED BY <1>8, <2>1
<1> QED BY <1>6, <1>7, <1>9 DEF Least

LEMMA LeastHeld ==
  ASSUME DistinctMeanings, RisingNeeds, TypeOK, TypeOK', StoreFiled, Bidden, Least, BidHeld
  PROVE  Least'
<1>1. PICK k \in First(Held) :
        Read(k, HeldAt(k, selected[k]), TreeIn(k, HeldAt(k, selected[k])))
  BY DEF BidHeld
<1>2. /\ k \in Key /\ k \in pending /\ Usable(k) /\ HeldAt(k, selected[k]) # NoDir
      /\ selected[k] \in Label
  BY DEF First, Held, TypeOK, SyncTypeOK, Bids
<1>3. UNCHANGED <<declared, vendor, pc>> /\ pc = "bid"
  BY DEF BidHeld, project, control
<1>4. PICK v \in Version : v = selected[k]
  BY <1>2, <1>3, LabelFacts DEF Bidden, Asked
<1>5. PICK dir \in Dir, t \in Tree :
        dir = HeldAt(k, v) /\ t = TreeIn(k, HeldAt(k, v))
  BY <1>2, <1>4, HeldAtTypes
<1>6. Read(k, dir, t) /\ dir # NoDir
  BY <1>1, <1>2, <1>4, <1>5
<1>7. Names[k] \in Pkg /\ Names[k] # ""
  BY <1>2, UsableNames, PkgAssumption
<1>8. NoTree.pkg = ""
  BY DEF NoTree
<1>9. CASE Fits(k, v)
  <2>1. dir = InVendor
    BY <1>5, <1>7, <1>8, <1>9 DEF HeldAt, Fits, Says
  <2>2. t = vendor[k] /\ dir.at = "vendor"
    BY <1>5, <2>1, DirFields DEF TreeIn
  <2>3. Deps(t) = Needs(k, selected[k])
    BY <1>2, <1>4, <1>9, <2>2, FittingNeeds
  <2>4. vendor[k].pkg = Names[k]
    BY <1>9 DEF Fits
  <2> QED BY <1>2, <1>3, <1>6, <2>2, <2>3, <2>4, ReadLeast
<1>10. CASE ~Fits(k, v)
  <2>1. /\ dir = InStore(Names[k], v)
        /\ store[Names[k]][MeaningOf[Names[k]][v]] # 0
    BY <1>5, <1>6, <1>10 DEF HeldAt, Fits, Says
  <2>2. store[Names[k]][MeaningOf[Names[k]][v]] = v
    BY <1>7, <2>1, OneReleaseOfMeaning
  <2>3. dir.at = "store" /\ dir.meaning = MeaningOf[Names[k]][v]
    BY <1>4, <1>2, <1>7, <2>1, DirFields
  <2>4. t = Released(Names[k], v)
    BY <1>5, <2>1, <2>2, <2>3 DEF TreeIn, Stored
  <2>5. Deps(t) = Needs(k, selected[k])
    BY <1>2, <1>4, <1>10, <2>4, ReleasedNeeds
  <2> QED BY <1>2, <1>3, <1>4, <1>6, <1>10, <2>3, <2>5, ReadLeast
<1> QED BY <1>9, <1>10

LEMMA LeastAcquired ==
  ASSUME RisingNeeds, TypeOK, TypeOK', Bidden, Least, BidAcquire
  PROVE  Least'
<1>1. PICK k \in Key, last \in SUBSET Release :
        /\ Usable(k) /\ k \in pending
        /\ <<Names[k], selected[k]>> \in last /\ store' = Filed(last)
        /\ Read(k, InStore(Names[k], selected[k]), Released(Names[k], selected[k]))
  BY AcquireReads
<1>2. UNCHANGED <<declared, vendor, pc>> /\ pc = "bid" /\ Held = {}
  BY DEF BidAcquire, Fetching, project, control
<1>3. PICK v \in Version : v = selected[k]
  BY <1>1, <1>2, LabelFacts DEF Bidden, Asked, TypeOK, SyncTypeOK, Bids
<1>4. Names[k] \in Pkg /\ Names[k] # "" /\ v \in Label
  BY <1>1, UsableNames, LabelFacts, PkgAssumption
<1>5. PICK dir \in Dir, t \in Tree :
        dir = InStore(Names[k], v) /\ t = Released(Names[k], v)
  BY <1>4, DirTypes, ReleasedType
<1>6. Read(k, dir, t) /\ dir.at = "store"
  BY <1>1, <1>3, <1>4, <1>5, DirFields
<1>7. ~Fits(k, v)
  <2>1. HeldAt(k, v) = NoDir
    BY <1>1, <1>2, <1>3 DEF Held
  <2>2. NoTree.pkg = "" /\ InVendor # NoDir
    BY DirFields DEF NoTree
  <2> QED BY <1>4, <2>1, <2>2 DEF HeldAt, Fits, Says
<1>8. Deps(t) = Needs(k, selected[k])
  BY <1>1, <1>3, <1>5, <1>7, ReleasedNeeds
<1> QED BY <1>1, <1>2, <1>3, <1>6, <1>7, <1>8, ReadLeast

LEMMA LeastBegins ==
  ASSUME Bidding(declared')
  PROVE  Least'
<1>1. \A k \in Key : dirs'[k] = NoDir
  BY DEF Bidding
<1>2. NoDir.at = ""
  BY DEF NoDir
<1>3. \A bids \in Bids : Below(declared', bids) => Below(selected', bids)
  BY DEF Bidding
<1> QED BY <1>1, <1>2, <1>3 DEF Least

\* The tree that is copied fits, where none did, and neither was put there by
\* hand.
LEMMA LeastCopied ==
  ASSUME TypeOK, TreesFound, Bidden, VersionInv, Least, Copy
  PROVE  Least'
<1>1. PICK k \in First(ToCopy) : /\ vendor' = [vendor EXCEPT ![k] = TreeIn(k, dirs[k])]
                                 /\ dirs' = [dirs EXCEPT ![k] = InVendor]
  BY DEF Copy
<1>2. /\ k \in Key /\ dirs[k].at = "store" /\ dirs \in [Key -> Dir]
      /\ vendor \in [Key -> Tree \cup {NoTree}]
  BY DEF First, ToCopy, TypeOK, SyncTypeOK, ProjectTypeOK
<1>3. UNCHANGED <<declared, selected, pending, pc>> /\ pc = "copy"
  BY DEF Copy, control
<1>4. /\ vendor'[k] = TreeIn(k, dirs[k]) /\ dirs'[k] = InVendor
      /\ \A j \in Key : j # k => vendor'[j] = vendor[j] /\ dirs'[j] = dirs[j]
  BY <1>1, <1>2
<1>5. pending = {}
  BY <1>3 DEF Bidden
<1>6. TreeIn(k, dirs[k]) = Released(Names[k], store[Names[k]][dirs[k].meaning])
      /\ store[Names[k]][dirs[k].meaning] # 0
  BY <1>2 DEF TreesFound, DirsFound, TreeIn, Stored
<1>7. vendor'[k].pkg = Names[k] /\ Said(vendor'[k]) # 0
  BY <1>4, <1>6, ReleaseSays DEF Released
<1>8. ~Fits(k, selected[k])
  BY <1>2, <1>3, <1>5 DEF Least, Selecting
<1>9. ~ByHand(k) /\ ~ByHand(k)'
  BY <1>7, <1>8 DEF ByHand, Fits, Says
<1>10. \A j \in Key : ByHand(j)' <=> ByHand(j)
  <2>1. ASSUME NEW j \in Key, j # k
        PROVE  ByHand(j)' <=> ByHand(j)
    BY <1>4, <2>1 DEF ByHand
  <2> QED BY <1>9, <2>1
<1>11. \A bids : Closed(bids)' => Closed(bids)
  <2>1. \A j \in Key : ByHand(j) => vendor'[j] = vendor[j]
    BY <1>4, <1>9
  <2>2. \A j \in Key : \A v : Needs(j, v)' = Needs(j, v)
    BY <1>10, <2>1 DEF Needs
  <2> QED BY <2>2 DEF Closed, Asked
<1>12. \A j \in Key : dirs'[j].at = "vendor" => vendor'[j].pkg = Names[j]
  BY <1>3, <1>4, <1>7 DEF Least, Selecting
<1>13. \A j \in Key : dirs'[j].at = "store" => ~Fits(j, selected[j])'
  <2>1. InVendor.at = "vendor"
    BY DEF InVendor
  <2>2. SUFFICES ASSUME NEW j \in Key, dirs'[j].at = "store"
                 PROVE  ~Fits(j, selected[j])'
    OBVIOUS
  <2>3. j # k
    BY <1>4, <2>1, <2>2
  <2>4. ~Fits(j, selected[j])
    BY <1>3, <1>4, <1>5, <2>2, <2>3 DEF Least, Selecting
  <2> QED BY <1>3, <1>4, <2>3, <2>4 DEF Fits
<1>14. \A bids \in Bids : Below(declared, bids)' /\ Closed(bids)' => Below(selected, bids)'
  <2>1. ASSUME NEW bids \in Bids, Below(declared', bids), Closed(bids)'
        PROVE  Below(selected', bids)
    BY <1>3, <1>11, <2>1 DEF Least, Selecting
  <2> QED BY <2>1
<1> QED BY <1>12, <1>13, <1>14 DEF Least

LEMMA LeastStep ==
  ASSUME DistinctMeanings, RisingNeeds, TypeOK, TypeOK', TreesFound, StoreFiled, Bidden,
         VersionInv, Least, Next
  PROVE  Least'
<1>1. SUFFICES ASSUME pc' \in Working, pc' \in {"resolve", "pin"} => mode' \in Syncs
               PROVE  Least'
  BY DEF Least, Selecting, Working
<1>2. CASE (\E frozen \in BOOLEAN : Sync(frozen)) \/ EditPackageFile
  <2>1. Bidding(declared')
    BY <1>2 DEF Sync, EditPackageFile, project
  <2> QED BY <2>1, LeastBegins
<1>3. CASE Tidy
  BY <1>1, <1>3 DEF Tidy, Begin, Syncs, Changes
<1>4. CASE BidUnusable
  <2>1. /\ pending' = pending \ First(Bad) /\ pc = "bid"
        /\ UNCHANGED <<declared, vendor, selected, dirs>>
    BY <1>4 DEF BidUnusable, project, control
  <2>2. \A k \in First(Bad) : dirs[k] = NoDir
    BY <2>1 DEF First, Bad, Bidden, TypeOK, SyncTypeOK
  <2>3. NoDir.at = ""
    BY DEF NoDir
  <2>4. \A k \in Key \ pending' : dirs[k].at = "store" => k \notin pending
    BY <2>1, <2>2, <2>3
  <2>5. Selecting
    BY <2>1 DEF Selecting
  <2> QED BY <2>1, <2>4, <2>5 DEF Least, Fits, Closed, Needs, ByHand
<1>5. CASE BidDone \/ ResolveDone \/ Round \/ Publish \/ CopyDone
  <2>1. UNCHANGED <<declared, vendor, selected, pending, dirs>> /\ Selecting
    BY <1>1, <1>5 DEF BidDone, ResolveDone, Round, Publish, CopyDone, project, syncing,
                control, Working, Selecting
  <2> QED BY <2>1 DEF Least, Fits, Closed, Needs, ByHand
<1> QED
  BY <1>1, <1>2, <1>3, <1>4, <1>5, IntoWorking, LeastHeld, LeastAcquired, LeastCopied

LEMMA PinningStep ==
  ASSUME Pinning, Next
  PROVE  Pinning'
<1>1. SUFFICES ASSUME pc' = "pin"
               PROVE  Pinning'
  BY DEF Pinning
<1>2. CASE ResolveDone
  <2>1. /\ UNCHANGED <<lock, vendor, store, down, engine, rsel>>
        /\ newlock' = [k \in Key |->
             IF k \in Asked(rsel) \ (rmissing \cup Unevaluable)
               THEN Pin(LocalTree(k, rsel[k]), rsel[k], engine) ELSE NoEntry]
    BY <1>2 DEF ResolveDone, project, cache, world
  <2>2. \A k \in Key : newlock'[k] # NoEntry =>
          newlock'[k] = Pin(LocalTree(k, rsel[k]), rsel[k], engine)
    BY <2>1
  <2> QED BY <2>1, <2>2 DEF Pinning, LocalTree
<1>3. CASE Publish
  <2>1. UNCHANGED <<lock, vendor, store, down, engine, rsel, newlock, pc>>
    BY <1>3 DEF Publish, project, cache, world, resolving, control
  <2> QED BY <1>1, <2>1 DEF Pinning, LocalTree
<1>4. CASE \/ \E frozen \in BOOLEAN : Sync(frozen)
           \/ Tidy \/ EditPackageFile \/ BidUnusable \/ BidHeld \/ BidAcquire \/ BidDone
           \/ Copy \/ CopyDone \/ Round
  BY <1>1, <1>4 DEF Sync, Tidy, Begin, EditPackageFile, BidUnusable, BidHeld, BidAcquire,
                    Fetching, BidDone, Copy, CopyDone, Round, control
<1> QED BY <1>1, <1>2, <1>3, <1>4, IntoWorking DEF Working

(***************************************************************************)
(* What is written is the least.                                           *)
(***************************************************************************)
LEMMA VersionsType ==
  ASSUME NEW l \in [Key -> Entry \cup {NoEntry}]
  PROVE  /\ VersionsOf(l) \in Bids
         /\ \A k \in Key : VersionsOf(l)[k] = l[k].v /\ (l[k] # NoEntry <=> l[k].v # 0)
<1>1. \A e \in Entry : e.v \in Version /\ e.v # 0
  BY WorldAssumption DEF Entry, Version
<1>2. NoEntry.v = 0
  BY DEF NoEntry
<1>3. \A k \in Key : l[k].v \in Label
  BY <1>1, <1>2, LabelFacts
<1> QED BY <1>1, <1>2, <1>3 DEF VersionsOf, Bids

LEMMA SameBids ==
  ASSUME NEW a \in Bids, NEW b \in Bids, Below(a, b), Below(b, a)
  PROVE  a = b
<1>1. \A k \in Key : a[k] \in Nat /\ b[k] \in Nat
  BY LabelFacts DEF Bids
<1>2. \A k \in Key : a[k] = b[k]
  BY <1>1 DEF Below
<1> QED BY <1>2 DEF Bids

\* Versions with which every needed package's tree fits, and that meet what
\* these trees need, are closed.
LEMMA FittingIsClosed ==
  ASSUME TypeOK, NEW a \in Bids,
         \A k \in Asked(a) : Usable(k) =>
           /\ Below(Deps(vendor[k]), a)
           /\ \E v \in Version : Fits(k, v) /\ Below(Needs(k, a[k]), Needs(k, v))
  PROVE  Closed(a)
<1>1. SUFFICES ASSUME NEW k \in Asked(a), Usable(k)
               PROVE  Below(Needs(k, a[k]), a)
  BY DEF Closed
<1>2. k \in Key /\ a[k] \in Label
  BY DEF Asked, Bids
<1>3. PICK v \in Version : Fits(k, v) /\ Below(Needs(k, a[k]), Needs(k, v))
  BY <1>1
<1>4. Deps(vendor[k]) = Needs(k, v)
  BY <1>1, <1>2, <1>3, FittingNeeds
<1>5. Needs(k, a[k]) \in Bids /\ Needs(k, v) \in Bids
  BY <1>1, <1>2, NeedsType, LabelFacts
<1>6. Below(Needs(k, v), a)
  BY <1>1, <1>4
<1> QED BY <1>3, <1>5, <1>6, BelowFacts

LEMMA WritableIsSettled ==
  ASSUME RisingNeeds, TypeOK, SoundInv, Bidden, Rounds, VersionInv, Least, Pinning,
         Writable, mode \in Syncs
  PROVE  Settled(newlock) /\ VersionsOf(newlock) = selected
<1>1. pc = "pin" /\ Unevaluable = {} /\ rmissing = {}
  BY DEF Writable, ResolveVerdict
<1>2. /\ rsel \in Bids /\ selected \in Bids /\ declared \in Bids
      /\ newlock \in [Key -> Entry \cup {NoEntry}]
  BY DEF TypeOK, ProjectTypeOK, SyncTypeOK, ResolveTypeOK
<1>3. Below(rsel, selected) /\ \A k \in Key : newlock[k].v = rsel[k]
  BY <1>1 DEF Rounds
<1>4. Exact(newlock) /\ \A k \in Key : newlock[k] # NoEntry => selected[k] # 0
  BY WritableIsExact
<1>5. \A k \in Key : newlock[k] # NoEntry <=> rsel[k] # 0
  BY <1>2, <1>3, VersionsType
<1>6. Below(declared, rsel)
  BY <1>3, <1>4 DEF Exact, Below
<1>7. ASSUME NEW k \in Key, newlock[k] # NoEntry
      PROVE  /\ Usable(k) /\ vendor[k] # NoTree /\ Below(Deps(vendor[k]), rsel)
             /\ selected[k] \in Version /\ rsel[k] \in Version /\ rsel[k] <= selected[k]
             /\ Fits(k, selected[k])
  <2>1. Usable(k) /\ vendor[k] # NoTree
    BY <1>4, <1>7 DEF SoundInv, Sound, Exact
  <2>2. Below(Deps(vendor[k]), rsel)
    BY <1>3, <1>4, <1>7 DEF Exact, Below
  <2>3. selected[k] \in Version /\ rsel[k] \in Version /\ rsel[k] <= selected[k]
    <3>1. selected[k] \in Label /\ rsel[k] \in Label
      BY <1>2 DEF Bids
    <3>2. selected[k] # 0 /\ rsel[k] # 0
      BY <1>4, <1>5, <1>7
    <3> QED BY <1>3, <3>1, <3>2, LabelFacts DEF Below
  <2>4. dirs[k] # NoDir /\ dirs[k].at = "vendor"
    BY <1>1, <1>4, <1>7, <2>1, SelectedIsVendored
  <2>5. vendor[k].pkg = Names[k]
    BY <1>1, <2>4 DEF Least, Selecting
  <2>6. Says(vendor[k], selected[k])
    <3>1. pending = {}
      BY <1>1 DEF Bidden
    <3> QED BY <1>1, <2>4, <3>1 DEF VersionInv, TreeIn
  <2> QED BY <2>1, <2>2, <2>3, <2>5, <2>6 DEF Fits
<1>8. Closed(rsel)
  <2>1. ASSUME NEW k \in Asked(rsel), Usable(k)
        PROVE  /\ Below(Deps(vendor[k]), rsel)
               /\ \E v \in Version : Fits(k, v) /\ Below(Needs(k, rsel[k]), Needs(k, v))
    <3>1. k \in Key /\ newlock[k] # NoEntry
      BY <1>5 DEF Asked
    <3>2. Below(Needs(k, rsel[k]), Needs(k, selected[k]))
      BY <1>7, <2>1, <3>1, NeedsRise
    <3> QED BY <1>7, <3>1, <3>2
  <2> QED BY <1>2, <2>1, FittingIsClosed
<1>9. rsel = selected
  <2>1. Below(selected, rsel)
    BY <1>1, <1>2, <1>6, <1>8 DEF Least, Selecting
  <2> QED BY <1>2, <1>3, <2>1, SameBids
<1>10. VersionsOf(newlock) = selected
  <2>1. \A k \in Key : VersionsOf(newlock)[k] = selected[k] /\ VersionsOf(newlock) \in Bids
    BY <1>2, <1>3, <1>9, VersionsType
  <2>2. VersionsOf(newlock) \in Bids
    BY <1>2, VersionsType
  <2> QED BY <1>2, <2>1, <2>2 DEF Bids
<1>11. ASSUME NEW k \in Key, newlock[k] # NoEntry
       PROVE  Fits(k, newlock[k].v) /\ newlock[k] = Pin(vendor[k], newlock[k].v, engine)
  <2>1. newlock[k] = Pin(LocalTree(k, rsel[k]), rsel[k], engine)
    BY <1>1, <1>11 DEF Pinning
  <2>2. LocalTree(k, rsel[k]) = vendor[k]
    BY <1>7, <1>11, VendoredLocal
  <2> QED BY <1>3, <1>7, <1>9, <1>11, <2>1, <2>2
<1>12. ASSUME NEW bids \in Bids, Below(declared, bids), Below(bids, selected), Closed(bids)
       PROVE  bids = selected
  <2>1. Below(selected, bids)
    BY <1>1, <1>12 DEF Least, Selecting
  <2> QED BY <1>2, <1>12, <2>1, SameBids
<1> QED BY <1>10, <1>11, <1>12 DEF Settled

LEMMA SettledKept ==
  ASSUME NEW l \in [Key -> Entry \cup {NoEntry}], Settled(l),
         UNCHANGED <<declared, engine>>,
         \A k \in Key : l[k] # NoEntry => vendor'[k] = vendor[k]
  PROVE  Settled(l)'
<1>1. ASSUME NEW k \in Key, l[k] # NoEntry
      PROVE  (Fits(k, l[k].v) /\ l[k] = Pin(vendor[k], l[k].v, engine))'
  <2>1. Fits(k, l[k].v) /\ l[k] = Pin(vendor[k], l[k].v, engine)
    BY <1>1 DEF Settled
  <2> QED BY <1>1, <2>1 DEF Fits
<1>2. ASSUME NEW bids \in Bids, Below(declared', bids), Below(bids, VersionsOf(l)),
             Closed(bids)'
      PROVE  bids = VersionsOf(l)
  <2>1. ASSUME NEW k \in Asked(bids)
        PROVE  k \in Key /\ vendor'[k] = vendor[k]
    <3>1. k \in Key /\ bids[k] # 0 /\ bids[k] \in Nat /\ l[k].v \in Nat
      BY <2>1, VersionsType, LabelFacts DEF Asked, Bids
    <3>2. bids[k] <= l[k].v
      BY <1>2, <3>1, VersionsType DEF Below
    <3>3. l[k].v # 0
      BY <3>1, <3>2
    <3> QED BY <3>1, <3>3, VersionsType
  <2>2. Closed(bids)
    BY <1>2, <2>1 DEF Closed, Needs, ByHand
  <2> QED BY <1>2, <2>2 DEF Settled
<1> QED BY <1>1, <1>2 DEF Settled

\* Settled of the lock that is answered, and of the one that is written.
LEMMA SettledStays ==
  ASSUME TypeOK, UNCHANGED <<declared, vendor, engine>>
  PROVE  /\ Settled(newlock) /\ newlock' = newlock => Settled(newlock)'
         /\ Settled(newlock) /\ lock' = newlock => Settled(lock)'
         /\ Settled(lock) /\ lock' = lock => Settled(lock)'
<1>1. /\ newlock \in [Key -> Entry \cup {NoEntry}]
      /\ lock \in [Key -> Entry \cup {NoEntry}]
  BY DEF TypeOK, ProjectTypeOK, ResolveTypeOK
<1>2. PICK l \in [Key -> Entry \cup {NoEntry}], n \in [Key -> Entry \cup {NoEntry}] :
        l = lock /\ n = newlock
  BY <1>1
<1>3. /\ Settled(l) => Settled(l)'
      /\ Settled(n) => Settled(n)'
  BY SettledKept
<1>4. /\ Settled(lock) <=> Settled(l)
      /\ Settled(newlock) <=> Settled(n)
  BY <1>2
<1>5. /\ newlock' = newlock /\ Settled(n)' => Settled(newlock)'
      /\ lock' = newlock /\ Settled(n)' => Settled(lock)'
      /\ lock' = lock /\ Settled(l)' => Settled(lock)'
  BY <1>2 DEF Settled
<1> QED BY <1>3, <1>4, <1>5

LEMMA SettlingStep ==
  ASSUME RisingNeeds, TypeOK, SoundInv, LockInv, VersionInv, LeastInv, Next
  PROVE  Settling'
<1>1. Bidden /\ Rounds /\ Written /\ Standalone /\ Least /\ Pinning /\ Settling
  BY DEF LockInv, LeastInv
<1>2. CASE Writable
  <2>1. /\ UNCHANGED <<declared, vendor, engine, newlock, mode>> /\ pc' # "idle"
        /\ pc' # "verify"
    BY <1>2 DEF Writable, project, resolving, world
  <2>2. mode \in Syncs => Settled(newlock)'
    BY <1>1, <1>2, <2>1, WritableIsSettled, SettledStays
  <2> QED BY <2>1, <2>2 DEF Settling, Synced
<1>3. CASE Prune
  <2>1. /\ pc = "prune" /\ UNCHANGED <<declared, newlock, selected, mode, pc, engine>>
        /\ \E k \in ToPrune : vendor' = [vendor EXCEPT ![k] = NoTree]
    BY <1>3 DEF Prune, First, control, syncing, resolving, world
  <2>2. ASSUME mode \in Syncs
        PROVE  Settled(newlock)'
    <3>1. Settled(newlock) /\ \A k \in Key : newlock[k] # NoEntry => selected[k] # 0
      BY <1>1, <2>1, <2>2 DEF Written, Settling
    <3>2. \A k \in Key : newlock[k] # NoEntry => vendor'[k] = vendor[k]
      <4>1. PICK k \in ToPrune : vendor' = [vendor EXCEPT ![k] = NoTree]
        BY <2>1
      <4>2. k \in Key /\ selected[k] = 0 /\ vendor \in [Key -> Tree \cup {NoTree}]
        BY DEF ToPrune, TypeOK, ProjectTypeOK
      <4>3. newlock[k] = NoEntry
        BY <3>1, <4>2
      <4> QED BY <4>1, <4>2, <4>3
    <3>3. PICK l \in [Key -> Entry \cup {NoEntry}] : l = newlock
      BY DEF TypeOK, ResolveTypeOK
    <3>4. Settled(l)'
      BY <2>1, <3>1, <3>2, <3>3, SettledKept
    <3> QED BY <2>1, <3>3, <3>4 DEF Settled
  <2> QED BY <2>1, <2>2 DEF Settling, Synced
<1>4. CASE PruneDone
  <2>1. UNCHANGED <<declared, vendor, engine, newlock, mode>> /\ pc = "prune" /\ pc' = "write"
    BY <1>4 DEF PruneDone, project, resolving, world
  <2> QED BY <1>1, <2>1, SettledStays DEF Settling, Synced
<1>5. CASE WriteLock
  <2>1. /\ UNCHANGED <<declared, vendor, engine, mode>>
        /\ lock' = newlock /\ lockFile' = "whole" /\ pc = "write"
    BY <1>5 DEF WriteLock, Finish, world
  <2>2. mode \in Syncs => pc' = "verify"
    BY <1>5 DEF WriteLock, Syncs, Changes
  <2>3. mode \in Syncs => Settled(lock)'
    BY <1>1, <2>1, SettledStays DEF Settling
  <2>4. pc' \notin {"prune", "write"}
    BY <1>5 DEF WriteLock, Finish, Changes
  <2> QED BY <2>1, <2>2, <2>3, <2>4 DEF Settling, Synced
<1>6. CASE Publish
  <2>1. UNCHANGED <<declared, lock, lockFile, vendor, engine, newlock, mode, pc, verdict>>
    BY <1>6 DEF Publish, project, resolving, control
  <2> QED BY <1>1, <2>1, SettledStays DEF Settling, Synced
<1>7. CASE Verify \/ CleanCache
  <2>1. UNCHANGED <<declared, lock, lockFile, vendor, engine>>
    BY <1>7 DEF Verify, CleanCache, project, world
  <2>2. pc' \notin Writing
    BY <1>7 DEF Verify, Finish, CleanCache, control, Writing
  <2>3. Synced' => Settled(lock) /\ lockFile = "whole"
    <3>1. Synced' => (pc = "verify" /\ mode \in Syncs) \/ Synced
      BY <1>1, IntoSynced DEF Standalone, Verify
    <3> QED BY <1>1, <3>1 DEF Settling
  <2> QED BY <2>1, <2>2, <2>3, SettledStays DEF Settling, Writing
<1>8. CASE ~(Writable \/ Prune \/ PruneDone \/ WriteLock \/ Publish \/ Verify \/ CleanCache)
  <2>1. pc' \notin Writing
    BY <1>8, IntoWriting
  <2>2. ~Synced'
    BY <1>1, <1>8, IntoSynced DEF Standalone
  <2> QED BY <2>1, <2>2 DEF Settling, Writing
<1> QED BY <1>2, <1>3, <1>4, <1>5, <1>6, <1>7, <1>8

(***************************************************************************)
(* The second sync.                                                        *)
(***************************************************************************)
LEMMA KeptStays ==
  ASSUME TypeOK, Kept, UNCHANGED <<declared, lock, lockFile, vendor, engine>>
  PROVE  Kept'
<1>1. Settled(lock)'
  BY SettledStays DEF Kept
<1>2. Exact(lock)'
  BY ExactKept DEF Kept
<1> QED BY <1>1, <1>2 DEF Kept, Locked

\* The locked versions are enough for the project.
LEMMA LockedIsClosed ==
  ASSUME TypeOK, SoundInv, Kept
  PROVE  /\ VersionsOf(lock) \in Bids /\ Closed(VersionsOf(lock))
         /\ Below(declared, VersionsOf(lock))
<1>1. lock \in [Key -> Entry \cup {NoEntry}]
  BY DEF TypeOK, ProjectTypeOK
<1>2. /\ VersionsOf(lock) \in Bids
      /\ \A k \in Key : VersionsOf(lock)[k] = lock[k].v /\ (lock[k] # NoEntry <=> lock[k].v # 0)
  BY <1>1, VersionsType
<1> DEFINE a == VersionsOf(lock)
<1>3. ASSUME NEW k \in Asked(a), Usable(k)
      PROVE  /\ Below(Deps(vendor[k]), a)
             /\ \E v \in Version : Fits(k, v) /\ Below(Needs(k, a[k]), Needs(k, v))
  <2>1. k \in Key /\ lock[k] # NoEntry /\ a[k] = lock[k].v
    BY <1>2 DEF Asked
  <2>2. a[k] \in Version
    BY <1>1, <2>1 DEF Entry
  <2>3. Fits(k, a[k])
    BY <2>1 DEF Kept, Settled
  <2>4. Below(Deps(vendor[k]), a)
    BY <1>2, <2>1 DEF Kept, Exact, Below
  <2>5. Below(Needs(k, a[k]), Needs(k, a[k]))
    BY <1>3, <2>1, <2>2, NeedsType, BelowFacts, LabelFacts
  <2> QED BY <2>2, <2>3, <2>4, <2>5
<1>4. Below(declared, a)
  BY <1>2 DEF Kept, Exact, Below
<1> HIDE DEF a
<1>5. a \in Bids
  BY <1>2 DEF a
<1>6. Closed(a)
  BY <1>3, <1>5, FittingIsClosed
<1> QED BY <1>4, <1>5, <1>6 DEF a

\* No more is selected than is locked, ...
LEMMA SelectsNoMore ==
  ASSUME TypeOK, SoundInv, Least, Kept, Selecting
  PROVE  /\ Below(selected, VersionsOf(lock))
         /\ \A k \in Key : selected[k] # 0 => k \in Locked /\ Usable(k)
<1>1. Below(selected, VersionsOf(lock))
  BY LockedIsClosed DEF Least
<1>2. ASSUME NEW k \in Key, selected[k] # 0
      PROVE  k \in Locked /\ Usable(k)
  <2>1. /\ selected[k] \in Nat /\ lock[k].v \in Nat
        /\ selected[k] <= lock[k].v /\ (lock[k] # NoEntry <=> lock[k].v # 0)
    <3>1. lock \in [Key -> Entry \cup {NoEntry}] /\ selected \in Bids
      BY DEF TypeOK, ProjectTypeOK, SyncTypeOK
    <3>2. /\ VersionsOf(lock) \in Bids /\ VersionsOf(lock)[k] = lock[k].v
          /\ (lock[k] # NoEntry <=> lock[k].v # 0)
      BY <3>1, VersionsType
    <3> QED BY <1>1, <3>1, <3>2, LabelFacts DEF Bids, Below
  <2>2. lock[k] # NoEntry
    BY <1>2, <2>1
  <2> QED BY <2>2 DEF Locked, SoundInv, Sound
<1> QED BY <1>1, <1>2

\* ... and in the end all of it, which the vendor tree holds.
LEMMA SelectsTheLocked ==
  ASSUME TypeOK, TreesFound, SoundInv, Bidden, VersionInv, Least, Kept,
         pc \in {"copy", "resolve", "pin"}, mode \in Syncs
  PROVE  selected = VersionsOf(lock) /\ ToCopy = {}
<1>1. Selecting /\ pending = {}
  BY DEF Selecting, Bidden
<1>2. /\ selected \in Bids /\ dirs \in [Key -> Dir]
      /\ lock \in [Key -> Entry \cup {NoEntry}]
  BY DEF TypeOK, SyncTypeOK, ProjectTypeOK
<1>3. \A k \in Key : selected[k] # 0 => k \in Locked /\ Usable(k)
  BY <1>1, SelectsNoMore
<1>4. ASSUME NEW k \in Asked(selected), Usable(k)
      PROVE  Below(Needs(k, selected[k]), selected)
  <2>1. k \in Key /\ selected[k] \in Version /\ dirs[k] # NoDir
    BY <1>1, <1>2, <1>4, LabelFacts DEF Asked, Bids, Bidden
  <2>2. PICK d \in Dir : d = dirs[k]
    BY <1>2, <2>1
  <2>3. d.at \in {"vendor", "store"}
    BY <2>1, <2>2, DirFields DEF Dir
  <2>4. Below(Deps(TreeIn(k, dirs[k])), selected)
    BY <2>1 DEF Bidden
  <2>5. Says(TreeIn(k, dirs[k]), selected[k])
    BY <1>1, <2>1 DEF VersionInv, Selecting
  <2>6. CASE d.at = "vendor"
    <3>1. TreeIn(k, dirs[k]) = vendor[k]
      BY <2>2, <2>6 DEF TreeIn
    <3>2. vendor[k].pkg = Names[k]
      BY <1>1, <2>1, <2>2, <2>6 DEF Least
    <3>3. Fits(k, selected[k])
      BY <2>5, <3>1, <3>2 DEF Fits
    <3>4. Deps(vendor[k]) = Needs(k, selected[k])
      BY <1>4, <2>1, <3>3, FittingNeeds
    <3> QED BY <2>4, <3>1, <3>4
  <2>7. CASE d.at = "store"
    <3>1. ~Fits(k, selected[k])
      BY <1>1, <2>1, <2>2, <2>7 DEF Least
    <3>2. /\ TreeIn(k, dirs[k]) = Released(Names[k], store[Names[k]][dirs[k].meaning])
          /\ store[Names[k]][dirs[k].meaning] # 0
      BY <2>1, <2>2, <2>7 DEF TreesFound, DirsFound, TreeIn, Stored
    <3>3. store[Names[k]][dirs[k].meaning] = selected[k]
      BY <2>5, <3>2, ReleaseSays DEF Says
    <3>4. Deps(Released(Names[k], selected[k])) = Needs(k, selected[k])
      BY <1>4, <2>1, <3>1, ReleasedNeeds
    <3> QED BY <2>4, <3>2, <3>3, <3>4
  <2> QED BY <2>3, <2>6, <2>7
<1>5. Closed(selected)
  BY <1>4 DEF Closed
<1>6. selected = VersionsOf(lock)
  <2>1. Below(selected, VersionsOf(lock))
    BY <1>1, SelectsNoMore
  <2>2. Below(declared, selected)
    BY DEF Bidden
  <2> QED BY <1>2, <1>5, <2>1, <2>2 DEF Kept, Settled
<1>7. ASSUME NEW k \in ToCopy
      PROVE  FALSE
  <2>1. k \in Key /\ dirs[k].at = "store"
    BY DEF ToCopy
  <2>2. selected[k] # 0 /\ lock[k] # NoEntry
    <3>1. dirs[k] # NoDir
      BY <2>1, DirFields
    <3>2. selected[k] # 0
      BY <2>1, <3>1 DEF Bidden
    <3> QED BY <1>3, <2>1, <3>2 DEF Locked
  <2>3. Fits(k, lock[k].v) /\ selected[k] = lock[k].v
    BY <1>2, <1>6, <2>1, <2>2, VersionsType DEF Kept, Settled
  <2>4. ~Fits(k, selected[k])
    BY <1>1, <2>1 DEF Least
  <2> QED BY <2>3, <2>4
<1> QED BY <1>6, <1>7

\* A locked tree evaluates with whatever the cache holds.
LEMMA KeptEvaluates ==
  ASSUME TypeOK, Kept, NEW k \in Locked
  PROVE  /\ vendor[k] # NoTree
         /\ Evaluates(k, vendor[k], lock, vendor, store, engine)
<1>1. \A j \in Locked : j \in Key /\ vendor[j] # NoTree
  BY DEF Locked, Kept, Exact
<1>2. Evaluates(k, vendor[k], lock, vendor, EmptyStore, engine)
  BY DEF Kept
<1>3. ASSUME NEW d \in ImportClosure(k, vendor)
      PROVE  ImportHolds(d, lock, vendor, store, engine)
  <2>1. ImportHolds(d, lock, vendor, EmptyStore, engine)
    BY <1>2 DEF Evaluates
  <2>2. vendor[d] # NoTree
    BY <2>1, ImportsAreVendored DEF Kept, ImportClosure
  <2>3. /\ Resolved(d, lock, vendor, store) = vendor[d]
        /\ Resolved(d, lock, vendor, EmptyStore) = vendor[d]
    BY <2>2 DEF Resolved
  <2> QED BY <2>1, <2>3 DEF ImportHolds
<1> QED BY <1>1, <1>2, <1>3 DEF Evaluates

\* What the second sync resolves, it may pin.
LEMMA RedoResolves ==
  ASSUME TypeOK, SoundInv, Bidden, Rounds, Least, Kept, pc = "pin", mode = "sync",
         missing = {}, rmissing = {}
  PROVE  ResolveVerdict = "ok"
<1>1. Selecting /\ mode \in Syncs
  BY DEF Selecting, Syncs
<1>2. ASSUME NEW k \in Unevaluable
      PROVE  FALSE
  <2>1. k \in Key /\ rsel[k] # 0 /\ ~Evaluates(k, LocalTree(k, rsel[k]), lock, vendor, store, engine)
    BY DEF Unevaluable, Asked
  <2>2. selected[k] # 0
    <3>1. rsel[k] \in Nat /\ selected[k] \in Nat /\ rsel[k] <= selected[k]
      BY <1>1, <2>1, LabelFacts DEF Rounds, Below, TypeOK, SyncTypeOK, ResolveTypeOK, Bids
    <3> QED BY <2>1, <3>1
  <2>3. k \in Locked
    BY <1>1, <2>1, <2>2, SelectsNoMore
  <2>4. vendor[k] # NoTree /\ Evaluates(k, vendor[k], lock, vendor, store, engine)
    BY <2>3, KeptEvaluates
  <2>5. LocalTree(k, rsel[k]) = vendor[k]
    BY <2>4, VendoredLocal
  <2> QED BY <2>1, <2>4, <2>5
<1> QED BY <1>2 DEF ResolveVerdict

\* What it pins is what is locked.
LEMMA RedoPinsTheSame ==
  ASSUME TypeOK, Kept, Settled(newlock), VersionsOf(newlock) = VersionsOf(lock)
  PROVE  newlock = lock
<1>1. /\ newlock \in [Key -> Entry \cup {NoEntry}]
      /\ lock \in [Key -> Entry \cup {NoEntry}]
  BY DEF TypeOK, ProjectTypeOK, ResolveTypeOK
<1>2. ASSUME NEW k \in Key
      PROVE  newlock[k] = lock[k]
  <2>1. newlock[k].v = lock[k].v
    BY <1>1, VersionsType
  <2>2. newlock[k] # NoEntry <=> lock[k] # NoEntry
    BY <1>1, <2>1, VersionsType
  <2>3. CASE lock[k] # NoEntry
    <3>1. lock[k] = Pin(vendor[k], lock[k].v, engine)
      BY <2>3 DEF Kept, Settled
    <3>2. newlock[k] = Pin(vendor[k], newlock[k].v, engine)
      BY <2>2, <2>3 DEF Settled
    <3> QED BY <2>1, <3>1, <3>2
  <2> QED BY <2>2, <2>3
<1> QED BY <1>1, <1>2

\* What it verifies holds.
LEMMA RedoVerifies ==
  ASSUME TypeOK, SoundInv, Kept
  PROVE  VerifyVerdict = "ok"
<1>1. ASSUME NEW k \in Locked
      PROVE  /\ k \in Key /\ lock[k] # NoEntry /\ Usable(k)
             /\ vendor[k] # NoTree /\ LockedTree(k) = vendor[k]
  <2>1. k \in Key /\ lock[k] # NoEntry /\ Usable(k)
    BY DEF Locked, SoundInv, Sound
  <2>2. vendor[k] # NoTree
    BY KeptEvaluates
  <2> QED BY <2>1, <2>2, VendoredLocal DEF LockedTree
<1>2. Unread = {}
  <2>1. ASSUME NEW k \in Locked
        PROVE  ~Mainless(LockedTree(k))
    BY <1>1, KeptEvaluates DEF Evaluates, Meaningful, Mainless
  <2> QED BY <1>1, <2>1 DEF Unread, Unfetched
<1>3. ASSUME NEW k \in Locked
      PROVE  /\ BytesHold(lock[k], LockedTree(k))
             /\ Evaluates(k, LockedTree(k), lock, vendor, store, engine)
             /\ CanonOf(LockedTree(k), engine) = lock[k].canon
  <2>1. lock[k] = Pin(vendor[k], lock[k].v, engine)
    BY <1>1 DEF Kept, Settled
  <2>2. lock[k].canon = CanonOf(vendor[k], engine)
    <3>1. Pin(vendor[k], lock[k].v, engine).canon = CanonOf(vendor[k], engine)
      BY DEF Pin
    <3> QED BY <2>1, <3>1
  <2>3. BytesHold(lock[k], vendor[k])
    BY DEF Kept
  <2> QED BY <1>1, <2>2, <2>3, KeptEvaluates
<1>4. Mismatched = {}
  BY <1>3 DEF Mismatched
<1>5. Asked(declared) \ Locked = {}
  <2>1. ASSUME NEW k \in Key, declared[k] # 0
        PROVE  k \in Locked
    <3>1. declared[k] \in Nat /\ declared[k] <= lock[k].v
      BY LabelFacts DEF TypeOK, ProjectTypeOK, Bids, Kept, Exact
    <3>2. NoEntry.v = 0
      BY DEF NoEntry
    <3> QED BY <2>1, <3>1, <3>2 DEF Locked
  <2> QED BY <2>1 DEF Asked
<1> QED BY <1>2, <1>4, <1>5 DEF VerifyVerdict

\* Which steps begin a second sync, or go on with it.
LEMMA IntoRedo ==
  ASSUME Next, Redoing', Redoing => pc \in Working \cup Writing
  PROVE  \/ Sync(FALSE) /\ Synced
         \/ Redoing /\ ( \/ BidUnusable \/ BidHeld \/ BidAcquire \/ BidDone
                         \/ Copy \/ CopyDone \/ Round \/ ResolveDone
                         \/ Writable \/ Prune \/ PruneDone \/ WriteLock \/ Publish)
<1>1. pc' # "idle" /\ mode' = "sync" /\ again'
  BY DEF Redoing
<1>2. CASE Start
  <2>1. CASE \E frozen \in BOOLEAN : Sync(frozen)
    <3>1. PICK frozen \in BOOLEAN : Sync(frozen)
      BY <2>1
    <3>2. ~frozen /\ Synced
      BY <1>1, <3>1 DEF Sync, Begin
    <3> QED BY <3>1, <3>2
  <2>2. CASE ~\E frozen \in BOOLEAN : Sync(frozen)
    BY <1>1, <1>2, <2>2 DEF Start, Get, Remove, Tidy, Vendor, Refreeze, Begin
  <2> QED BY <2>1, <2>2
<1>3. CASE Continue
  <2>1. ASSUME NEW v, Finish(v)
        PROVE  FALSE
    BY <1>1, <2>1 DEF Finish, Changes
  <2>2. mode = "sync" /\ again /\ pc # "idle"
    <3>1. UNCHANGED <<mode, again>>
      BY <1>3 DEF Continue, EditPackageFile, BidUnusable, BidHeld, BidAcquire, BidRefused,
             ConfigRefused, BidFrozen, BidDone, Copy, CopyDone, Round, ResolveDone,
             Unwritable, Writable, Prune, PruneDone, WriteLock, Verify, UndoPackageFile,
             UndoLock, UndoClear, UndoVendor, Undo, VendorNext, VendorDone, Repin, Repinning, RepinNothing, Finish,
             control, history
    <3>2. pc # "idle"
      BY <1>3 DEF Continue, EditPackageFile, BidUnusable, BidHeld, BidAcquire, BidRefused,
             ConfigRefused, BidFrozen, BidDone, Fetching, Copy, CopyDone, Round, ResolveDone,
             Unwritable, Writable, Prune, PruneDone, WriteLock, Verify, UndoPackageFile,
             UndoLock, UndoClear, UndoVendor, Undo, VendorNext, VendorDone, Repin, Repinning, RepinNothing
    <3> QED BY <1>1, <3>1, <3>2
  <2>3. Redoing /\ pc \in Working \cup Writing
    BY <2>2 DEF Redoing
  <2>4. ~(EditPackageFile \/ UndoPackageFile \/ UndoLock \/ UndoClear \/ UndoVendor
          \/ VendorNext \/ VendorDone \/ Repin \/ RepinNothing)
    BY <2>3 DEF EditPackageFile, UndoPackageFile, UndoLock, UndoClear, UndoVendor, Undo,
                VendorNext, VendorDone, Repin, Repinning, RepinNothing, Working, Writing
  <2>5. ~(BidRefused \/ ConfigRefused \/ BidFrozen \/ Unwritable \/ Verify)
    BY <2>1 DEF BidRefused, ConfigRefused, BidFrozen, Unwritable, Verify
  <2> QED BY <1>3, <2>3, <2>4, <2>5 DEF Continue
<1>4. CASE Crash
  BY <1>1, <1>4 DEF Crash, Ended, Throw, Die, DieBetween, DieInPackageFile, DieInLock,
                    DieInTree, DieInClear, project
<1>5. CASE Author \/ Damage \/ HandCopy \/ Upgrade \/ CleanCache
  BY <1>1, <1>5 DEF Author, Damage, HandCopy, Upgrade, CleanCache, Disturbed, control
<1>6. CASE Publish
  BY <1>1, <1>6 DEF Publish, control, history, Redoing
<1> QED BY <1>2, <1>3, <1>4, <1>5, <1>6 DEF Next, Environment

Excused == {"none", "refused", "died", "threw"}

\* Which steps end a second sync with an answer, or leave it ended.
LEMMA IntoRedone ==
  ASSUME Next, pc' = "idle", mode' = "sync", again', verdict' \notin Excused,
         Redoing => pc \in Working \cup Writing
  PROVE  \/ pc = "idle" /\ mode = "sync" /\ again /\ (CleanCache \/ Publish)
         \/ Redoing /\ (BidFrozen \/ Unwritable \/ Verify)
<1>1. CASE Start
  BY <1>1 DEF Start, Sync, Get, Remove, Tidy, Vendor, Refreeze, Begin
<1>2. CASE Continue
  <2>1. UNCHANGED <<mode, again>>
    BY <1>2 DEF Continue, EditPackageFile, BidUnusable, BidHeld, BidAcquire, BidRefused,
           ConfigRefused, BidFrozen, BidDone, Copy, CopyDone, Round, ResolveDone,
           Unwritable, Writable, Prune, PruneDone, WriteLock, Verify, UndoPackageFile,
           UndoLock, UndoClear, UndoVendor, Undo, VendorNext, VendorDone, Repin, Repinning, RepinNothing, Finish,
           control, history
  <2>2. pc # "idle"
    BY <1>2 DEF Continue, EditPackageFile, BidUnusable, BidHeld, BidAcquire, BidRefused,
           ConfigRefused, BidFrozen, BidDone, Fetching, Copy, CopyDone, Round, ResolveDone,
           Unwritable, Writable, Prune, PruneDone, WriteLock, Verify, UndoPackageFile,
           UndoLock, UndoClear, UndoVendor, Undo, VendorNext, VendorDone, Repin, Repinning, RepinNothing
  <2>3. Redoing /\ pc \in Working \cup Writing
    BY <2>1, <2>2 DEF Redoing
  <2>4. ~(UndoVendor \/ VendorDone \/ Repin \/ RepinNothing)
    BY <2>3 DEF UndoVendor, Undo, VendorDone, Repin, Repinning, RepinNothing, Working, Writing
  <2>5. ~(BidRefused \/ ConfigRefused)
    BY DEF BidRefused, ConfigRefused, Finish, Excused
  <2>6. ~WriteLock
    BY <2>3 DEF WriteLock, Redoing
  <2>7. ~(EditPackageFile \/ BidUnusable \/ BidHeld \/ BidAcquire \/ BidDone \/ Copy
          \/ CopyDone \/ Round \/ ResolveDone \/ Writable \/ Prune \/ PruneDone
          \/ UndoPackageFile \/ UndoLock \/ UndoClear \/ VendorNext)
    BY <2>2 DEF EditPackageFile, BidUnusable, BidHeld, BidAcquire, BidDone, Fetching, Copy,
                CopyDone, Round, ResolveDone, Writable, Prune, PruneDone, UndoPackageFile,
                UndoLock, UndoClear, Undo, VendorNext, control
  <2> QED BY <1>2, <2>3, <2>4, <2>5, <2>6, <2>7 DEF Continue
<1>3. CASE Crash
  BY <1>3 DEF Crash, Ended, Throw, Die, DieBetween, DieInPackageFile, DieInLock,
              DieInTree, DieInClear, Excused
<1>4. CASE Author \/ Damage \/ HandCopy \/ Upgrade
  BY <1>4 DEF Author, Damage, HandCopy, Upgrade, Disturbed
<1>5. CASE CleanCache \/ Publish
  BY <1>5 DEF CleanCache, Publish, control, history
<1> QED BY <1>1, <1>2, <1>3, <1>4, <1>5 DEF Next, Environment

\* The second sync begins on what the first left.
LEMMA RedoBegins ==
  ASSUME TypeOK, LockInv, LeastInv, Sync(FALSE), Synced
  PROVE  RedoInv'
<1>1. /\ UNCHANGED <<declared, lock, lockFile, vendor, engine>>
      /\ snap' = Now /\ pc' = "bid" /\ missing' = {}
  BY DEF Sync, Begin, Bidding, project, world
<1>2. Kept
  <2>1. Exact(lock) /\ Settled(lock) /\ lockFile = "whole"
    BY DEF LockInv, LeastInv, Written, Settling
  <2> QED BY <2>1 DEF Kept, LockInv, Standalone, OfflineBuild
<1>3. Now' = snap' /\ Kept'
  BY <1>1, <1>2, KeptStays DEF Now
<1> QED BY <1>1, <1>3 DEF RedoInv, Idempotent, Working

\* It writes nothing else than there is.
LEMMA RedoChangesNothing ==
  ASSUME TypeOK, TreesFound, SoundInv, LockInv, VersionInv, LeastInv, RedoInv, Redoing,
         \/ BidUnusable \/ BidHeld \/ BidAcquire \/ BidDone \/ Copy \/ CopyDone
         \/ Round \/ ResolveDone \/ Writable \/ Prune \/ PruneDone \/ WriteLock \/ Publish
  PROVE  UNCHANGED <<declared, lock, lockFile, vendor, engine, snap, mode>>
<1>1. Kept /\ mode = "sync" /\ mode \in Syncs
  BY DEF RedoInv, Redoing, Syncs
<1>2. CASE Copy
  <2>1. pc = "copy" /\ First(ToCopy) # {}
    BY <1>2 DEF Copy
  <2>2. ToCopy = {}
    BY <1>1, <2>1, SelectsTheLocked DEF LockInv, LeastInv
  <2> QED BY <2>1, <2>2 DEF First
<1>3. CASE Prune
  <2>1. pc = "prune" /\ First(ToPrune) # {}
    BY <1>3 DEF Prune
  <2>2. selected = VersionsOf(lock)
    BY <2>1 DEF RedoInv
  <2>3. \A k \in Key : lock[k] # NoEntry => selected[k] # 0
    BY <2>2, VersionsType DEF TypeOK, ProjectTypeOK
  <2>4. ToPrune = {}
    BY <2>3 DEF ToPrune
  <2> QED BY <2>1, <2>4 DEF First
<1>4. CASE WriteLock
  <2>1. newlock = lock /\ lockFile = "whole"
    BY <1>1, <1>4 DEF RedoInv, WriteLock, Kept
  <2> QED BY <1>1, <1>4, <2>1 DEF WriteLock, history, world
<1>5. CASE \/ BidUnusable \/ BidHeld \/ BidAcquire \/ BidDone \/ CopyDone
           \/ Round \/ ResolveDone \/ Writable \/ PruneDone \/ Publish
  BY <1>5 DEF BidUnusable, BidHeld, BidAcquire, BidDone, CopyDone, Round, ResolveDone,
              Writable, PruneDone, Publish, project, world, control, history
<1> QED BY <1>2, <1>3, <1>4, <1>5

\* What a second sync selects can be read where it stands.
LEMMA RedoRounds ==
  ASSUME TypeOK, SoundInv, LockInv, Least, Kept, Round, mode \in Syncs, rmissing = {}
  PROVE  rmissing' = {}
<1> DEFINE sel == Raise(rsel, frontier)
<1>1. pc = "resolve" /\ rmissing' = Raised \ ReadNow(sel)
  BY DEF Round
<1>2. ASSUME NEW k \in Raised
      PROVE  k \in ReadNow(sel)
  <2>1. /\ k \in Key /\ rsel[k] \in Nat /\ frontier[k] \in Nat /\ selected[k] \in Nat
        /\ rsel[k] < frontier[k]
    BY LabelFacts DEF Raised, TypeOK, SyncTypeOK, ResolveTypeOK, Bids
  <2>2. frontier[k] <= selected[k]
    BY <1>1, <2>1 DEF LockInv, Rounds, Below
  <2>3. selected[k] # 0
    BY <2>1, <2>2
  <2>4. k \in Locked /\ Usable(k)
    BY <1>1, <2>1, <2>3, SelectsNoMore DEF Selecting
  <2>5. vendor[k] # NoTree
    BY <2>4, KeptEvaluates
  <2>6. LocalTree(k, sel[k]) = vendor[k]
    BY <2>5, VendoredLocal
  <2> QED BY <2>4, <2>5, <2>6 DEF ReadNow
<1> QED BY <1>1, <1>2

LEMMA RedoGoes ==
  ASSUME RisingNeeds, TypeOK, TypeOK', TreesFound, SoundInv, LockInv, VersionInv, LeastInv,
         RedoInv, Redoing,
         \/ BidUnusable \/ BidHeld \/ BidAcquire \/ BidDone \/ Copy \/ CopyDone
         \/ Round \/ ResolveDone \/ Writable \/ Prune \/ PruneDone \/ WriteLock \/ Publish,
         pc' # "idle"
  PROVE  RedoInv'
<1>1. /\ Bidden /\ Rounds /\ Least /\ Pinning /\ Kept /\ Now = snap
      /\ mode = "sync" /\ mode \in Syncs
  BY DEF LockInv, LeastInv, RedoInv, Redoing, Syncs
<1>2. /\ pc \in Working => missing = {}
      /\ pc \in {"resolve", "pin"} => rmissing = {}
      /\ pc = "prune" => selected = VersionsOf(lock)
      /\ pc \in {"prune", "write"} => newlock = lock
  BY DEF RedoInv
<1>3. UNCHANGED <<declared, lock, lockFile, vendor, engine, snap, mode>>
  BY RedoChangesNothing
<1>4. Now' = snap' /\ Kept' /\ VersionsOf(lock)' = VersionsOf(lock)
  BY <1>1, <1>3, KeptStays DEF Now, VersionsOf
<1>5. CASE BidUnusable
  <2>1. pc = "bid" /\ Bad # {}
    BY <1>5 DEF BidUnusable
  <2>2. \A k \in pending : k \in Key /\ Usable(k)
    <3>1. \A k \in pending : k \in Key /\ selected[k] # 0
      BY <1>1, <2>1 DEF Bidden, Asked
    <3> QED BY <1>1, <2>1, <3>1, SelectsNoMore DEF Selecting
  <2> QED BY <2>1, <2>2 DEF Bad
<1>6. CASE BidHeld \/ BidAcquire \/ BidDone \/ Copy
  <2>1. missing' = missing /\ pc \in {"bid", "copy"} /\ pc' \in {"bid", "copy"}
    BY <1>6 DEF BidHeld, BidAcquire, Fetching, BidDone, Copy, syncing, control
  <2> QED BY <1>2, <1>4, <2>1 DEF RedoInv, Idempotent, Working
<1>7. CASE CopyDone \/ Round \/ ResolveDone
  <2>1. missing' = missing /\ pc \in {"copy", "resolve"} /\ pc' \in {"resolve", "pin"}
    BY <1>7 DEF CopyDone, Round, ResolveDone, syncing, control
  <2>2. rmissing' = {}
    <3>1. CASE Round
      BY <1>1, <1>2, <3>1, RedoRounds DEF Round
    <3>2. CASE CopyDone
      BY <3>2 DEF CopyDone, Resolving
    <3>3. CASE ResolveDone
      BY <1>2, <3>3 DEF ResolveDone
    <3> QED BY <1>7, <3>1, <3>2, <3>3
  <2> QED BY <1>2, <1>4, <2>1, <2>2 DEF RedoInv, Idempotent, Working
<1>8. CASE Writable
  <2>1. /\ pc = "pin" /\ pc' \in {"write", "prune"}
        /\ UNCHANGED <<selected, newlock>>
    BY <1>8 DEF Writable, syncing, resolving
  <2>2. selected = VersionsOf(lock)
    BY <1>1, <2>1, SelectsTheLocked
  <2>3. Settled(newlock) /\ VersionsOf(newlock) = selected
    BY <1>1, <1>8, WritableIsSettled
  <2>4. newlock = lock
    BY <1>1, <2>2, <2>3, RedoPinsTheSame
  <2>5. newlock' = lock' /\ selected' = VersionsOf(lock)'
    BY <1>3, <1>4, <2>1, <2>2, <2>4
  <2> QED BY <1>4, <2>1, <2>5 DEF RedoInv, Idempotent, Working, Writing
<1>9. CASE Prune \/ PruneDone
  <2>1. /\ pc = "prune" /\ pc' \in {"prune", "write"}
        /\ UNCHANGED <<selected, newlock>>
    BY <1>9 DEF Prune, PruneDone, syncing, resolving, control
  <2>2. newlock' = lock' /\ selected' = VersionsOf(lock)'
    BY <1>2, <1>3, <1>4, <2>1
  <2> QED BY <1>4, <2>1, <2>2 DEF RedoInv, Idempotent, Working, Writing
<1>10. CASE WriteLock
  <2>1. pc' = "verify"
    BY <1>1, <1>10 DEF WriteLock
  <2> QED BY <1>4, <2>1 DEF RedoInv, Idempotent, Working, Writing
<1>11. CASE Publish
  <2>1. UNCHANGED <<pc, missing, rmissing, selected, newlock>>
    BY <1>11 DEF Publish, control, syncing, resolving
  <2>2. pc \in Working \cup Writing
    BY DEF RedoInv
  <2>3. /\ pc' = "prune" => selected' = VersionsOf(lock)'
        /\ pc' \in {"prune", "write"} => newlock' = lock'
    BY <1>2, <1>3, <1>4, <2>1
  <2> QED BY <1>2, <1>4, <2>1, <2>2, <2>3 DEF RedoInv, Idempotent
<1> QED BY <1>5, <1>6, <1>7, <1>8, <1>9, <1>10, <1>11

\* It answers ok, and leaves the project as it was.
LEMMA RedoEnds ==
  ASSUME TypeOK, SoundInv, LockInv, LeastInv, RedoInv, Redoing,
         BidFrozen \/ Unwritable \/ Verify
  PROVE  verdict' = "ok" /\ Now' = snap'
<1>1. /\ Bidden /\ Rounds /\ Least /\ Kept /\ Now = snap /\ mode = "sync"
  BY DEF LockInv, LeastInv, RedoInv, Redoing
<1>2. ~BidFrozen
  BY <1>1 DEF BidFrozen, Fetching, Fetchable
<1>3. ~Unwritable
  <2>1. pc = "pin" => ResolveVerdict = "ok"
    BY <1>1, RedoResolves DEF RedoInv, Working
  <2> QED BY <1>1, <2>1 DEF Unwritable
<1>4. Finish("ok") /\ UNCHANGED <<declared, lock, lockFile, vendor>>
  BY <1>1, <1>2, <1>3, RedoVerifies DEF Verify, project
<1> QED BY <1>1, <1>4 DEF Finish, history, Now

LEMMA RedoInvStep ==
  ASSUME RisingNeeds, TypeOK, TypeOK', TreesFound, SoundInv, LockInv, VersionInv, LeastInv,
         RedoInv, Next
  PROVE  RedoInv'
<1>1. Redoing => pc \in Working \cup Writing
  BY DEF RedoInv
<1>2. CASE Redoing'
  <2>1. pc' # "idle"
    BY <1>2 DEF Redoing
  <2> QED BY <1>1, <1>2, <2>1, IntoRedo, RedoBegins, RedoGoes
<1>3. CASE ~Redoing'
  <2>1. SUFFICES ASSUME pc' = "idle", mode' = "sync", again', verdict' \notin Excused
                 PROVE  verdict' = "ok" /\ Now' = snap'
    BY <1>3 DEF RedoInv, Idempotent, Excused
  <2>2. CASE pc = "idle" /\ mode = "sync" /\ again /\ (CleanCache \/ Publish)
    <3>1. UNCHANGED <<declared, lock, lockFile, vendor, verdict, snap>>
      BY <2>2 DEF CleanCache, Publish, project, control, history
    <3>2. verdict = "ok" /\ Now = snap
      BY <2>1, <2>2, <3>1 DEF RedoInv, Idempotent, Excused
    <3> QED BY <3>1, <3>2 DEF Now
  <2>3. CASE Redoing /\ (BidFrozen \/ Unwritable \/ Verify)
    BY <2>3, RedoEnds
  <2> QED BY <1>1, <2>1, <2>2, <2>3, IntoRedone
<1> QED BY <1>2, <1>3

LEMMA RedoInvStutter ==
  ASSUME TypeOK, LeastInv, RedoInv, UNCHANGED vars
  PROVE  LeastInv' /\ RedoInv'
<1>1. UNCHANGED <<declared, lock, lockFile, vendor, store, down, engine, selected, pending,
                  dirs, missing, rsel, rmissing, newlock, mode, pc, verdict, snap, again>>
  BY DEF vars, project, cache, world, syncing, resolving, control, history
<1>2. Least'
  BY <1>1 DEF LeastInv, Least, Selecting, Fits, Closed, Needs, ByHand
<1>3. Pinning'
  BY <1>1 DEF LeastInv, Pinning, LocalTree
<1>4. Settling'
  BY <1>1, SettledStays DEF LeastInv, Settling, Synced
<1>5. Kept => Kept'
  BY <1>1, KeptStays
<1>6. RedoInv'
  <2>1. Now' = Now /\ VersionsOf(lock)' = VersionsOf(lock)
    BY <1>1 DEF Now, VersionsOf
  <2> QED BY <1>1, <1>5, <2>1 DEF RedoInv, Redoing, Idempotent
<1> QED BY <1>2, <1>3, <1>4, <1>6 DEF LeastInv

\* "It is idempotent", where no two releases of a package mean the same and
\* none needs less than its predecessor: a sync that follows one that answered
\* ok, nothing having happened but cache cleaning and releases appearing,
\* answers ok unless the repository refuses it or it dies, and leaves package
\* file, lock and vendor tree as they were, whatever it read again, fetched
\* again and selected on the way.
THEOREM SyncIsIdempotent ==
  ASSUME DistinctMeanings, RisingNeeds
  PROVE  Spec => []Idempotent
<1> DEFINE Inv == /\ TypeOK /\ TreesFound /\ SoundInv /\ LockInv
                  /\ VersionInv /\ LeastInv /\ RedoInv
<1>1. Init => Inv
  <2>1. Init => pc = "idle" /\ verdict = "none"
    BY DEF Init
  <2>2. Init => VersionInv /\ LeastInv /\ RedoInv
    BY <2>1 DEF VersionInv, LeastInv, Least, Selecting, Pinning, Settling, RedoInv, Redoing,
                Idempotent, Synced
  <2> QED BY <2>2, InitTypes, InitFound, SoundInvInit, LockInvInit
<1>2. Inv /\ [Next]_vars => Inv'
  <2>1. ASSUME Inv, Next
        PROVE  Inv'
    <3>1. TypeOK' /\ TreesFound' /\ SoundInv'
      BY <2>1, TypeStep, DirsFoundStep, SelectionFoundStep, VendoringLockedStep, SoundInvStep
         DEF TreesFound
    <3>2. LockInv'
      BY <2>1, <3>1, DistinctIsOne, LockInvStep
    <3>3. VersionInv'
      BY <2>1, <3>1, <3>2, VersionInvStep DEF LockInv
    <3>4. Least' /\ Pinning' /\ Settling'
      BY <2>1, <3>1, LeastStep, PinningStep, SettlingStep DEF LockInv, LeastInv
    <3>5. RedoInv'
      BY <2>1, <3>1, RedoInvStep
    <3> QED BY <3>1, <3>2, <3>3, <3>4, <3>5 DEF LeastInv
  <2>2. ASSUME Inv, UNCHANGED vars
        PROVE  Inv'
    BY <2>2, Stutter, SoundInvStutter, LockInvStutter, VersionInvStutter, RedoInvStutter
  <2> QED BY <2>1, <2>2
<1>3. Inv => Idempotent
  BY DEF RedoInv
<1> QED BY <1>1, <1>2, <1>3, PTL DEF Spec
=============================================================================
