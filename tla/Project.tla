------------------------------ MODULE Project ------------------------------
(***************************************************************************)
(* One project and the verbs that change it: `aontu sync [--frozen]`,      *)
(* `get`/`add`, `remove`, `pkg tidy`, `pkg vendor`, `pkg refreeze`.        *)
(* (ts/src/pkg-net.ts, ts/src/pkg.ts.)                                     *)
(*                                                                         *)
(* The disk holds the package file's dep block (declared), the lockfile    *)
(* (lock), the vendor tree (vendor) and the user cache (store, down).  A   *)
(* verb runs alone on its project, one step per file or tree it writes and *)
(* one per package it reads, so that it may die between any two.  The      *)
(* repository changes at any time; fetching one package with its closure   *)
(* is one step here and is taken apart in module Acquire.                  *)
(***************************************************************************)
EXTENDS Packages

CONSTANTS
  RootBids,     \* the dep blocks an author may write by hand
  MaxEngine,    \* engines whose canonical forms differ
  FirstListed,  \* the releases the repository offers at the start
  Verbs,        \* the verbs a user runs
  Faults,       \* what else may happen: "crash", "refuse", "damage", ...
  MaxFaults     \* bound: how often a verb dies or a tree is tampered with

VARIABLES
  declared,     \* the project's dep block
  lock,         \* readLock: what the lockfile pins
  lockFile,     \* "absent", "whole", or "torn" by a crash while written
  vendor,       \* aontu_meta/vendor, by key
  store,        \* the cache's store: the version filed under (pkg, canon)
  down,         \* the releases whose manifest the cache keeps
  listed,       \* the releases the repository offers
  faults,       \* how often it happened
  engine,       \* the canonical form this client computes
  pc,           \* where the running verb is; "idle" between verbs
  mode,         \* the verb that runs, or ran last
  verdict,      \* its answer; "none" once anything else happened
  selected,     \* pkgSync's selected
  pending,      \* pkgSync's pending
  dirs,         \* pkgSync's dirs: where each package was found
  missing,      \* pkgSync's missing
  acquired,     \* ctx.acquired: the releases this run fetched
  rsel,         \* pkgResolve's selected
  frontier,     \* pkgResolve's frontier
  rmissing,     \* pkgResolve's missing
  newlock,      \* pkgResolve's answer
  snap,         \* the project as the verb found it
  again         \* the verb started on a synced project, not disturbed

project  == <<declared, lock, lockFile, vendor>>
cache    == <<store, down>>
world    == <<listed, engine, faults>>
syncing  == <<selected, pending, dirs, missing, acquired>>
resolving == <<rsel, frontier, rmissing, newlock>>
control  == <<pc, mode, verdict>>
history  == <<snap, again>>
vars == <<project, cache, world, control, syncing, resolving, history>>

Changes == {"get", "remove"}             \* the verbs that settle
Syncs   == {"sync", "frozen"} \cup Changes
Modes   == Syncs \cup {"tidy", "vendor", "refreeze"}
Steps   == {"idle", "edit", "bid", "copy", "resolve", "pin", "prune",
            "write", "verify", "undo_file", "undo_lock", "undo_clear",
            "undo_vendor", "vendoring", "repin"}
Verdicts == {"none", "ok", "frozen", "refused", "missing", "error",
             "mismatch", "unlocked", "died", "threw"}

Release == Pkg \X Version
ASSUME ProjectAssumption ==
  /\ RootBids \subseteq Bids
  /\ FirstListed \subseteq Release
  /\ MaxEngine \in Nat \ {0} /\ MaxFaults \in Nat

EmptyStore == [p \in Pkg |-> [m \in Meaning |-> 0]]
NoVendor == [k \in Key |-> NoTree]
NoDir   == [at |-> "", meaning |-> ""]
InVendor == [at |-> "vendor", meaning |-> ""]
InStore(p, v) == [at |-> "store", meaning |-> MeaningOf[p][v]]
Dir == {NoDir, InVendor} \cup [at : {"store"}, meaning : Meaning]

Snapshot == [declared : Bids, lock : [Key -> Entry \cup {NoEntry}],
             lockFile : {"absent", "whole", "torn"},
             vendor : [Key -> Tree \cup {NoTree}]]
Now == [declared |-> declared, lock |-> lock, lockFile |-> lockFile,
        vendor |-> vendor]

ProjectTypeOK ==
  /\ declared \in Bids
  /\ lock \in [Key -> Entry \cup {NoEntry}]
  /\ lockFile \in {"absent", "whole", "torn"}
  /\ vendor \in [Key -> Tree \cup {NoTree}]

CacheTypeOK == store \in [Pkg -> [Meaning -> Label]] /\ down \in SUBSET Release

WorldTypeOK ==
  listed \in SUBSET Release /\ engine \in 1 .. MaxEngine /\ faults \in 0 .. MaxFaults

ControlTypeOK == pc \in Steps /\ mode \in Modes /\ verdict \in Verdicts

SyncTypeOK ==
  /\ selected \in Bids /\ pending \in SUBSET Key
  /\ dirs \in [Key -> Dir] /\ missing \in SUBSET Key
  /\ acquired \in SUBSET Release

ResolveTypeOK ==
  /\ rsel \in Bids /\ frontier \in Bids /\ rmissing \in SUBSET Key
  /\ newlock \in [Key -> Entry \cup {NoEntry}]

HistoryTypeOK == snap \in Snapshot /\ again \in BOOLEAN

TypeOK ==
  /\ ProjectTypeOK /\ CacheTypeOK /\ WorldTypeOK /\ ControlTypeOK
  /\ SyncTypeOK /\ ResolveTypeOK /\ HistoryTypeOK

Init ==
  /\ declared \in RootBids
  /\ lock = NoLock /\ lockFile = "absent" /\ vendor = NoVendor
  /\ store = EmptyStore /\ down = {}
  /\ listed = FirstListed /\ engine = 1 /\ faults = 0
  /\ pc = "idle" /\ mode = "sync" /\ verdict = "none"
  /\ selected = NoBids /\ pending = {} /\ dirs = [k \in Key |-> NoDir]
  /\ missing = {} /\ acquired = {}
  /\ rsel = NoBids /\ frontier = NoBids /\ rmissing = {} /\ newlock = NoLock
  /\ snap = Now /\ again = FALSE

(***************************************************************************)
(* Starting and ending a verb.                                             *)
(***************************************************************************)

\* The working state of a run is local: it is gone when the run ends.
Cleared ==
  /\ selected' = NoBids /\ pending' = {} /\ dirs' = [k \in Key |-> NoDir]
  /\ missing' = {} /\ acquired' = {}
  /\ rsel' = NoBids /\ frontier' = NoBids /\ rmissing' = {} /\ newlock' = NoLock

\* A get or a remove that did not end ok is taken back (settled).
Finish(v) ==
  /\ verdict' = v
  /\ pc' = IF mode \in Changes /\ v # "ok" THEN "undo_file" ELSE "idle"
  /\ Cleared
  /\ UNCHANGED <<mode, history>>

\* A sync, of its own or of a get or a remove, has answered ok.
Synced == pc = "idle" /\ mode \in Syncs /\ verdict = "ok"

Begin(m, step) ==
  /\ pc = "idle" /\ m \in Verbs
  /\ pc' = step /\ mode' = m /\ verdict' = "none"
  /\ snap' = Now /\ again' = Synced

\* pkgSync up to its loop: the root's minima are bid.
Bidding(root) ==
  /\ selected' = root /\ pending' = Asked(root)
  /\ dirs' = [k \in Key |-> NoDir] /\ missing' = {} /\ acquired' = {}
  /\ UNCHANGED resolving

\* pkgResolve up to its loop.
Resolving ==
  /\ rsel' = NoBids /\ frontier' = declared /\ rmissing' = {}
  /\ newlock' = NoLock

Sync(frozen) ==
  /\ Begin(IF frozen THEN "frozen" ELSE "sync", "bid")
  /\ Bidding(declared)
  /\ UNCHANGED <<project, cache, world>>

\* The edited dep block waits in `selected` until the file is written.
Editing(new) ==
  /\ selected' = new /\ pending' = {} /\ dirs' = [k \in Key |-> NoDir]
  /\ missing' = {} /\ acquired' = {}
  /\ UNCHANGED resolving

\* Mutant of Get: a lower minimum than the one declared replaces it.
GetLower(k, v) ==
  /\ Begin("get", "edit")
  /\ Names[k] = k
  /\ Editing([declared EXCEPT ![k] = v])
  /\ UNCHANGED <<project, cache, world>>

\* pkgGet and `add`, at a version named or chosen (selectVersion).  A
\* repository that refuses here refuses before anything is changed.
Get(k, v) ==
  /\ Begin("get", "edit")
  /\ Names[k] = k
  /\ Editing(IF declared[k] < v THEN [declared EXCEPT ![k] = v] ELSE declared)
  /\ UNCHANGED <<project, cache, world>>

Remove(k) ==
  /\ Begin("remove", "edit")
  /\ declared[k] # 0
  /\ Editing([declared EXCEPT ![k] = 0])
  /\ UNCHANGED <<project, cache, world>>

\* editDeps writes the package file; the sync of the change begins.
EditPackageFile ==
  /\ pc = "edit" /\ pc' = "bid"
  /\ declared' = selected
  /\ Bidding(selected)
  /\ UNCHANGED <<lock, lockFile, vendor, cache, world, mode, verdict, history>>

(***************************************************************************)
(* pkgSync's loop: one pending key per step, the held ones first.          *)
(***************************************************************************)

\* Mutant of HeldAt: a vendored tree is held whatever version it says.
HeldAtAnyVersion(k, v) ==
  LET p == Names[k]
  IN IF vendor[k] # NoTree /\ vendor[k].pkg = p THEN InVendor
     ELSE IF <<p, v>> \in down /\ store[p][MeaningOf[p][v]] # 0
       THEN InStore(p, v)
     ELSE NoDir

\* heldAt: the vendor tree when its own file agrees, else the cache when
\* the manifest of that version was downloaded.
HeldAt(k, v) ==
  LET p == Names[k]
  IN IF vendor[k] # NoTree /\ Said(vendor[k]) \in {0, v} /\ vendor[k].pkg = p
       THEN InVendor
     ELSE IF <<p, v>> \in down /\ store[p][MeaningOf[p][v]] # 0
       THEN InStore(p, v)
     ELSE NoDir

TreeIn(k, dir) ==
  IF dir.at = "vendor" THEN vendor[k]
  ELSE IF dir.at = "store" THEN Stored(store, Names[k], dir.meaning)
  ELSE NoTree

Bad  == {k \in pending : ~Usable(k)}
Held == {k \in pending : Usable(k) /\ HeldAt(k, selected[k]) # NoDir}

\* --frozen fetches only what the lock already pins at that version.
Fetchable ==
  {k \in pending : mode = "frozen" => lock[k].v = selected[k]}

\* Mutant of Read: a minimum equal to the one selected is bid again.
ReadEqual(k, dir, tree) ==
  /\ dirs' = [dirs EXCEPT ![k] = dir]
  /\ selected' = Raise(selected, Deps(tree))
  /\ pending' = (pending \ {k})
                  \cup {d \in Asked(Deps(tree)) : selected[d] <= Deps(tree)[d]}

\* The package found for k is read and its dep block is bid.
Read(k, dir, tree) ==
  /\ dirs' = [dirs EXCEPT ![k] = dir]
  /\ selected' = Raise(selected, Deps(tree))
  /\ pending' = (pending \ {k})
                  \cup {d \in Key : selected[d] < Deps(tree)[d]}

BidUnusable ==
  /\ pc = "bid"
  /\ missing' = missing \cup First(Bad)
  /\ pending' = pending \ First(Bad)
  /\ Bad # {}
  /\ UNCHANGED <<project, cache, world, control, selected, dirs, acquired,
                 resolving, history>>

BidHeld ==
  /\ pc = "bid" /\ Bad = {}
  /\ \E k \in First(Held) :
       LET dir == HeldAt(k, selected[k]) IN Read(k, dir, TreeIn(k, dir))
  /\ UNCHANGED <<project, cache, world, control, missing, acquired, resolving,
                 history>>

Fetching == pc = "bid" /\ pending # {} /\ Bad = {} /\ Held = {}

\* The releases beneath a set of releases, at the minima declared.
Beneath(rels) ==
  UNION {{<<Names[d], DepsOf[r[1]][r[2]][d]>> :
            d \in Asked(DepsOf[r[1]][r[2]])} : r \in rels}

AcquireClosure(r) ==
  LET Level[n \in 0 .. Cardinality(Release)] ==
        IF n = 0 THEN {r} ELSE Beneath(Level[n - 1])
  IN [all   |-> UNION {Level[n] : n \in 0 .. Cardinality(Release)},
      loops |-> Level[Cardinality(Release)] # {}]

\* acquire succeeds on a closure that is listed, ends, and still means what
\* its manifests pin.
Acquirable(r) ==
  LET c == AcquireClosure(r)
  IN engine = 1 /\ ~c.loops /\ c.all \subseteq listed

\* Each fetched tree is filed under its package and canon; of two versions
\* with one canon the later of the walk stays.
FiledBy(rels, last) ==
  /\ last \subseteq rels
  /\ \A q \in rels : \E r \in last :
       r[1] = q[1] /\ MeaningOf[r[1]][r[2]] = MeaningOf[q[1]][q[2]]
  /\ \A q, r \in last :
       (r[1] = q[1] /\ MeaningOf[r[1]][r[2]] = MeaningOf[q[1]][q[2]]) => r = q

Filed(last) ==
  [p \in Pkg |-> [m \in Meaning |->
     IF \E r \in last : r[1] = p /\ MeaningOf[p][r[2]] = m
       THEN (CHOOSE r \in last : r[1] = p /\ MeaningOf[p][r[2]] = m)[2]
       ELSE store[p][m]]]

BidAcquire ==
  /\ Fetching
  /\ \E k \in First(Fetchable) :
     LET r    == <<Names[k], selected[k]>>
         rels == AcquireClosure(r).all \ acquired
     IN /\ Acquirable(r)
        /\ \E last \in SUBSET rels :
             /\ r \in last /\ FiledBy(rels, last)
             /\ store' = Filed(last)
        /\ down' = down \cup rels
        /\ acquired' = acquired \cup rels
        /\ Read(k, InStore(r[1], r[2]), Released(r[1], r[2]))
  /\ UNCHANGED <<project, world, control, missing, resolving, history>>

\* Any check of acquire may refuse; what the walk fetched before the
\* refusal stays in the cache, and nothing of the project was written.
BidRefused ==
  /\ Fetching
  /\ \E k \in First(Fetchable) :
     LET r == <<Names[k], selected[k]>>
         kept == {q \in listed \ (acquired \cup {r}) :
                    q \in AcquireClosure(r).all /\ Acquirable(q)}
     IN /\ "refuse" \in Faults \/ ~Acquirable(r)
        /\ \E rels \in SUBSET kept : \E last \in SUBSET rels :
          /\ Beneath(rels) \subseteq rels \cup acquired
          /\ FiledBy(rels, last)
          /\ store' = Filed(last)
          /\ down' = down \cup rels
  /\ Finish("refused")
  /\ UNCHANGED <<project, world>>

\* repoConfig refuses a configuration before the loop; get has asked already.
ConfigRefused ==
  /\ "refuse" \in Faults
  /\ pc = "bid" /\ mode # "get"
  /\ pending = Asked(declared) /\ missing = {} /\ dirs = [k \in Key |-> NoDir]
  /\ Finish("refused")
  /\ UNCHANGED <<project, cache, world>>

BidFrozen ==
  /\ Fetching /\ Fetchable = {}
  /\ Finish("frozen")
  /\ UNCHANGED <<project, cache, world>>

BidDone ==
  /\ pc = "bid" /\ pending = {}
  /\ pc' = "copy"
  /\ UNCHANGED <<project, cache, world, mode, verdict, syncing, resolving, history>>

(***************************************************************************)
(* Materialise: every package found outside the vendor tree replaces what  *)
(* stood there.                                                            *)
(***************************************************************************)
\* Mutant of ToCopy: what the cache held already is not copied.
ToCopyFetched ==
  {k \in Key : dirs[k].at = "store" /\ <<Names[k], selected[k]>> \in acquired}

ToCopy == {k \in Key : dirs[k].at = "store"}

Copy ==
  /\ pc = "copy"
  /\ \E k \in First(ToCopy) :
        /\ vendor' = [vendor EXCEPT ![k] = TreeIn(k, dirs[k])]
        /\ dirs' = [dirs EXCEPT ![k] = InVendor]
  /\ UNCHANGED <<declared, lock, lockFile, cache, world, control, selected,
                 pending, missing, acquired, resolving, history>>

CopyDone ==
  /\ pc = "copy" /\ ToCopy = {}
  /\ pc' = "resolve"
  /\ Resolving
  /\ UNCHANGED <<project, cache, world, mode, verdict, syncing, history>>

(***************************************************************************)
(* pkgResolve: MVS over the trees the stores hold now, a frontier of bids  *)
(* per round.  `pkg tidy` is this and the lockfile.                        *)
(***************************************************************************)
Tidy ==
  /\ Begin("tidy", "resolve")
  /\ Resolving
  /\ UNCHANGED <<project, cache, world, syncing>>

LocalTree(k, v) == HeldTree(k, lock[k].canon, v, vendor, store, down)

\* Mutant of Raised: the first minimum bid for a key wins.
RaisedFirst == {k \in Key : rsel[k] = 0 /\ frontier[k] # 0}

Raised == {k \in Key : rsel[k] < frontier[k]}

\* v is the highest bid for d among the packages read, 0 for no bid.
HighestBid(v, keys, sel, d) ==
  /\ \A k \in keys : Deps(LocalTree(k, sel[k]))[d] <= v
  /\ v = 0 \/ \E k \in keys : Deps(LocalTree(k, sel[k]))[d] = v

\* Mutant of ReadNow: a package that no store holds is read all the same.
ReadAny(sel) == {k \in Raised : Usable(k)}

\* The keys raised this round whose tree a store holds.
ReadNow(sel) == {k \in Raised : Usable(k) /\ LocalTree(k, sel[k]) # NoTree}

Round ==
  /\ pc = "resolve" /\ Raised # {}
  /\ LET sel  == Raise(rsel, frontier)
         read == ReadNow(sel)
     IN /\ rsel' = sel
        /\ rmissing' = rmissing \cup (Raised \ read)
        /\ frontier' \in Bids
        /\ \A d \in Key : HighestBid(frontier'[d], read, sel, d)
  /\ UNCHANGED <<project, cache, world, control, syncing, newlock, history>>

\* pinTree evaluates the main file, where there is one.
Unevaluable ==
  {k \in Asked(rsel) \ rmissing :
     LET t == LocalTree(k, rsel[k])
     IN ~Mainless(t) /\ ~Evaluates(k, t, lock, vendor, store, engine)}

\* The frontier is empty: what was selected is pinned.
ResolveDone ==
  /\ pc = "resolve" /\ Raised = {}
  /\ pc' = "pin"
  /\ newlock' = [k \in Key |->
       IF k \in Asked(rsel) \ (rmissing \cup Unevaluable)
         THEN Pin(LocalTree(k, rsel[k]), rsel[k], engine) ELSE NoEntry]
  /\ UNCHANGED <<project, cache, world, mode, verdict, syncing, rsel, frontier,
                 rmissing, history>>

ResolveVerdict ==
  IF Unevaluable # {} THEN "error"
  ELSE IF rmissing \cup missing # {} THEN "missing" ELSE "ok"

\* Not resolved, or --frozen and another lock text: nothing is written.
Unwritable ==
  /\ pc = "pin"
  /\ \/ ResolveVerdict # "ok" /\ Finish(ResolveVerdict)
     \/ /\ ResolveVerdict = "ok" /\ mode = "frozen"
        /\ lockFile # "whole" \/ newlock # lock
        /\ Finish("frozen")
  /\ UNCHANGED <<project, cache, world>>

Writable ==
  /\ pc = "pin" /\ ResolveVerdict = "ok"
  /\ mode = "frozen" => lockFile = "whole" /\ newlock = lock
  /\ pc' = IF mode = "tidy" THEN "write" ELSE "prune"
  /\ UNCHANGED <<project, cache, world, mode, verdict, syncing, resolving, history>>

(***************************************************************************)
(* Prune, write the lockfile, verify.                                      *)
(***************************************************************************)
ToPrune ==
  {k \in Key : /\ lock[k] # NoEntry /\ selected[k] = 0
               /\ Usable(k) /\ vendor[k] # NoTree}

Prune ==
  /\ pc = "prune"
  /\ \E k \in First(ToPrune) : vendor' = [vendor EXCEPT ![k] = NoTree]
  /\ UNCHANGED <<declared, lock, lockFile, cache, world, control, syncing,
                 resolving, history>>

PruneDone ==
  /\ pc = "prune" /\ ToPrune = {}
  /\ pc' = "write"
  /\ UNCHANGED <<project, cache, world, mode, verdict, syncing, resolving, history>>

WriteLock ==
  /\ pc = "write"
  /\ lock' = newlock /\ lockFile' = "whole"
  /\ IF mode = "tidy" THEN Finish("ok")
     ELSE pc' = "verify" /\ UNCHANGED <<mode, verdict, syncing, resolving, history>>
  /\ UNCHANGED <<declared, vendor, cache, world>>

Locked == {k \in Key : lock[k] # NoEntry}

LockedTree(k) == LocalTree(k, lock[k].v)

Unfetched == {k \in Locked : ~Usable(k) \/ LockedTree(k) = NoTree}

\* What pkgVerify and pkgRefreeze call missing: not held, or no main file.
Unread == {k \in Locked : k \in Unfetched \/ Mainless(LockedTree(k))}

Mismatched ==
  {k \in Locked \ Unread :
     ~ /\ BytesHold(lock[k], LockedTree(k))
       /\ Evaluates(k, LockedTree(k), lock, vendor, store, engine)
       /\ CanonOf(LockedTree(k), engine) = lock[k].canon}

\* Mutant of VerifyVerdict: only what is absent is reported.
VerdictOfAbsence ==
  IF Asked(declared) \ Locked # {} THEN "unlocked"
  ELSE IF Unfetched # {} THEN "missing" ELSE "ok"

\* Mutant of VerifyVerdict: a tree without a main file is passed over.
VerdictOfEvaluated ==
  IF Mismatched # {} THEN "mismatch"
  ELSE IF Asked(declared) \ Locked # {} THEN "unlocked"
  ELSE IF Unfetched # {} THEN "missing" ELSE "ok"

\* pkgVerify: the project's pins against the stores, as they stand.
VerifyVerdict ==
  IF Mismatched # {} THEN "mismatch"
  ELSE IF Asked(declared) \ Locked # {} THEN "unlocked"
  ELSE IF Unread # {} THEN "missing" ELSE "ok"

Verify ==
  /\ pc = "verify"
  /\ Finish(VerifyVerdict)
  /\ UNCHANGED <<project, cache, world>>

(***************************************************************************)
(* settled: a change the sync could not carry is taken back, file by file. *)
(***************************************************************************)
Undo(at, next) ==
  /\ pc = at /\ pc' = next
  /\ UNCHANGED <<cache, world, mode, verdict, syncing, resolving, history>>

UndoPackageFile ==
  /\ Undo("undo_file", "undo_lock")
  /\ declared' = snap.declared /\ UNCHANGED <<lock, lockFile, vendor>>

\* Mutant of UndoLock: the lockfile is left as the sync wrote it.
UndoLockNot ==
  /\ Undo("undo_lock", "undo_clear")
  /\ UNCHANGED <<declared, lock, lockFile, vendor>>

UndoLock ==
  /\ Undo("undo_lock", "undo_clear")
  /\ lock' = snap.lock /\ lockFile' = snap.lockFile
  /\ UNCHANGED <<declared, vendor>>

UndoClear ==
  /\ Undo("undo_clear", "undo_vendor")
  /\ vendor' = NoVendor /\ UNCHANGED <<declared, lock, lockFile>>

UndoVendor ==
  /\ Undo("undo_vendor", "idle")
  /\ vendor' = snap.vendor /\ UNCHANGED <<declared, lock, lockFile>>

(***************************************************************************)
(* `pkg vendor` and `pkg refreeze`.                                        *)
(***************************************************************************)
Vendor ==
  /\ Begin("vendor", "vendoring")
  /\ pending' = Locked
  /\ UNCHANGED <<project, cache, world, selected, dirs, missing, acquired,
                 resolving>>

VendorNext ==
  /\ pc = "vendoring"
  /\ \E k \in First(pending) :
        /\ pending' = pending \ {k}
        /\ IF k \in Unfetched
             THEN missing' = missing \cup {k} /\ UNCHANGED vendor
             ELSE vendor' = [vendor EXCEPT ![k] = LockedTree(k)] /\ UNCHANGED missing
  /\ UNCHANGED <<declared, lock, lockFile, cache, world, control, selected, dirs,
                 acquired, resolving, history>>

VendorDone ==
  /\ pc = "vendoring" /\ pending = {}
  /\ Finish(IF missing = {} THEN "ok" ELSE "missing")
  /\ UNCHANGED <<project, cache, world>>

\* pkgRefreeze: every canon pin recomputed, written when all could be and
\* some changed.
Refreeze ==
  /\ Begin("refreeze", "repin")
  /\ UNCHANGED <<project, cache, world, syncing, resolving>>

Stale ==
  {k \in Locked \ Unread :
     ~Evaluates(k, LockedTree(k), lock, vendor, store, engine)}

Repinned ==
  [k \in Key |-> IF k \in Locked
     THEN [lock[k] EXCEPT !.canon = CanonOf(LockedTree(k), engine)] ELSE NoEntry]

Repinning == pc = "repin" /\ Unread = {} /\ Stale = {}

Repin ==
  /\ Repinning
  /\ lock' = Repinned
  /\ Finish("ok")
  /\ UNCHANGED <<declared, lockFile, vendor, cache, world>>

RepinNothing ==
  /\ pc = "repin" /\ ~Repinning
  /\ Finish(IF Stale # {} THEN "error" ELSE "missing")
  /\ UNCHANGED <<project, cache, world>>

(***************************************************************************)
(* Faults: a verb ends between two steps or inside one.  A file being      *)
(* written is empty, a tree being replaced is absent or part of either.    *)
(***************************************************************************)
Damaged(t, b, m) == [pkg |-> t.pkg, v |-> t.v, bytes |-> b, manifest |-> m]

Torn(t) ==
  IF t = NoTree THEN {NoTree}
  ELSE {NoTree} \cup {Damaged(t, b, t.manifest) : b \in Damages}
                \cup {Damaged(t, b, FALSE) : b \in Damages}

Fault(f) == f \in Faults /\ faults < MaxFaults /\ faults' = faults + 1

Ended(fault, v) ==
  /\ Fault(fault)
  /\ pc # "idle" /\ pc' = "idle" /\ verdict' = v
  /\ Cleared
  /\ UNCHANGED <<mode, history, cache, listed, engine>>

Die == Ended("crash", "died")

\* A file or a directory cannot be read, written or renamed: refused rethrows
\* what is not a refusal, and the verb ends where it stands.
Throw == Ended("throw", "threw") /\ UNCHANGED project

DieBetween == Die /\ UNCHANGED project

DieInPackageFile ==
  /\ Die
  /\ pc = "undo_file" \/ (pc = "edit" /\ selected # declared)
  /\ declared' = NoBids
  /\ UNCHANGED <<lock, lockFile, vendor>>

DieInLock ==
  /\ Die
  /\ \/ pc = "write"
     \/ pc = "undo_lock" /\ snap.lockFile # "absent"
     \/ Repinning /\ Repinned # lock
  /\ lock' = NoLock /\ lockFile' = "torn"
  /\ UNCHANGED <<declared, vendor>>

\* The trees a step under way replaces or removes, with what it puts there.
Replacing ==
  {<<k, TreeIn(k, dirs[k])>> : k \in IF pc = "copy" THEN First(ToCopy) ELSE {}}
    \cup {<<k, NoTree>> : k \in IF pc = "prune" THEN First(ToPrune) ELSE {}}
    \cup {<<k, LockedTree(k)>> :
            k \in {j \in First(pending) \ Unfetched :
                     pc = "vendoring" /\ vendor[j] = NoTree}}

DieInTree ==
  /\ Die
  /\ \E r \in Replacing : \E t \in Torn(vendor[r[1]]) \cup Torn(r[2]) :
       vendor' = [vendor EXCEPT ![r[1]] = t]
  /\ UNCHANGED <<declared, lock, lockFile>>

DieInClear ==
  /\ pc = "undo_clear" /\ Die
  /\ \E gone \in SUBSET Key :
       vendor' = [k \in Key |-> IF k \in gone THEN NoTree ELSE vendor[k]]
  /\ UNCHANGED <<declared, lock, lockFile>>

Crash == Throw \/ DieBetween \/ DieInPackageFile \/ DieInLock \/ DieInTree \/ DieInClear

(***************************************************************************)
(* What happens to the project between verbs, and to the repository at any *)
(* time.                                                                   *)
(***************************************************************************)
Disturbed ==
  /\ pc = "idle" /\ verdict' = "none" /\ mode' = "sync" /\ again' = FALSE
  /\ snap' = Now'
  /\ UNCHANGED <<pc, listed, syncing, resolving>>

Author ==
  /\ declared' \in RootBids /\ declared' # declared
  /\ UNCHANGED <<lock, lockFile, vendor, cache, engine, faults>>
  /\ Disturbed

\* A vendored tree is edited in place, or removed.
Damage ==
  /\ Fault("damage")
  /\ \E k \in Key : \E t \in Torn(vendor[k]) : vendor' = [vendor EXCEPT ![k] = t]
  /\ vendor' # vendor
  /\ UNCHANGED <<declared, lock, lockFile, cache, engine>>
  /\ Disturbed

\* A published tree put under vendor by hand: no manifest beside it.
HandCopy ==
  /\ Fault("hand")
  /\ \E k \in Key, v \in Label :
       /\ Usable(k)
       /\ vendor' = [vendor EXCEPT ![k] = [Released(Names[k], v) EXCEPT !.manifest = FALSE]]
  /\ UNCHANGED <<declared, lock, lockFile, cache, engine>>
  /\ Disturbed

\* The cache is emptied, or the project checked out where there is none:
\* nothing of the project changes.
CleanCache ==
  /\ "clean" \in Faults /\ pc = "idle"
  /\ store' = EmptyStore /\ down' = {}
  /\ UNCHANGED <<project, world, control, syncing, resolving, history>>

Upgrade ==
  /\ engine < MaxEngine /\ engine' = engine + 1
  /\ UNCHANGED <<project, cache, faults>>
  /\ Disturbed

\* A release appears, whatever runs meanwhile.
Publish ==
  /\ "publish" \in Faults
  /\ \E r \in Release \ listed : listed' = listed \cup {r}
  /\ UNCHANGED <<project, cache, engine, faults, control, syncing, resolving, history>>

Start ==
  \/ \E frozen \in BOOLEAN : Sync(frozen)
  \/ \E k \in Key : Remove(k)
  \/ \E k \in Key : \E v \in Version : Get(k, v)
  \/ Tidy \/ Vendor \/ Refreeze

Continue ==
  \/ EditPackageFile
  \/ BidUnusable \/ BidHeld \/ BidAcquire \/ BidRefused \/ ConfigRefused
  \/ BidFrozen \/ BidDone
  \/ Copy \/ CopyDone
  \/ Round \/ ResolveDone \/ Unwritable \/ Writable
  \/ Prune \/ PruneDone \/ WriteLock \/ Verify
  \/ UndoPackageFile \/ UndoLock \/ UndoClear \/ UndoVendor
  \/ VendorNext \/ VendorDone \/ Repin \/ RepinNothing

Environment ==
  Author \/ Damage \/ HandCopy \/ CleanCache \/ Upgrade \/ Publish

Next == Start \/ Continue \/ Crash \/ Environment

Spec == Init /\ [][Next]_vars

\* A running verb is a running process: it takes its next step.
LiveSpec == Spec /\ WF_vars(Continue)

(***************************************************************************)
(* Properties.                                                             *)
(***************************************************************************)
\* What a verb has found stays found until it is used: materialise copies a
\* usable key's cached tree, which no later fetch of the run took away; what pkgResolve selected and did not report
\* missing is in a store when it comes to be pinned, at the version
\* selected, however often that was raised; pkgVendor walks the lock's keys.
DirsFound ==
  \A k \in Key : dirs[k].at = "store" =>
    pc \in {"bid", "copy"} /\ Usable(k) /\ TreeIn(k, dirs[k]) # NoTree

SelectionFound ==
  pc = "resolve" =>
    \A k \in Asked(rsel) \ rmissing : Usable(k) /\ LocalTree(k, rsel[k]) # NoTree

VendoringLocked == pc = "vendoring" => pending \subseteq Locked

TreesFound == DirsFound /\ SelectionFound /\ VendoringLocked

\* MVS as the lock shows it: after a sync that answers ok every version is
\* exactly the highest minimum that the project or a locked package's tree
\* asks for, whatever was held, fetched, replaced or superseded on the way
\* (pkgSync's and pkgResolve's loops agree on the closure).
LockIsHighestMinima ==
  Synced => \A k \in Key :
    /\ declared[k] <= lock[k].v
    /\ \A j \in Locked : Deps(vendor[j])[k] <= lock[k].v
    /\ k \in Locked => \/ declared[k] = lock[k].v
                       \/ \E j \in Locked : Deps(vendor[j])[k] = lock[k].v

\* "A synced project evaluates with no cache and no network": every locked
\* tree is vendored, carries the pinned bytes and evaluates with the cache
\* gone.
OfflineBuild ==
  Synced => \A k \in Locked :
    /\ vendor[k] # NoTree
    /\ BytesHold(lock[k], vendor[k])
    /\ Evaluates(k, vendor[k], lock, vendor, EmptyStore, engine)

\* A dependency is a MINIMUM version: no locked tree is older than the
\* version its entry names, hence than any minimum asked for.
MinimaAreMet ==
  Synced => \A k \in Locked : Said(vendor[k]) = 0 \/ lock[k].v <= Said(vendor[k])

\* The lock never pins a tree that evaluates to an error, and a torn
\* lockfile pins nothing, whenever the verb that wrote it died.  A tree that
\* lost its main file, to a death or by hand, IS pinned, with the empty
\* canon; no other tree is, and no sync answers ok over such a pin.
EmptyPinsAreRefused ==
  /\ \A k \in Locked :
       /\ lock[k].tree.bytes # "broken" /\ Usable(k)
       /\ lock[k].canon = NoCanon => Mainless(lock[k].tree) /\ ~Synced
  /\ lockFile # "whole" => lock = NoLock

\* get and remove: a change the sync cannot carry is taken back, package
\* file, lock and vendor tree together (settled).
TakenBack ==
  (pc = "idle" /\ mode \in Changes /\ verdict \notin {"ok", "none", "died", "threw"})
    => Now = snap

\* --frozen refuses to change the lock: whatever happens while it runs, the
\* lockfile it leaves is the one it found, or torn by its death.
FrozenKeepsLock ==
  [][(pc # "idle" /\ mode = "frozen" /\ verdict' # "died") => UNCHANGED <<declared, lock, lockFile>>]_vars

\* A sync never lowers a version it has bid, whatever a package read later,
\* or read again at another version, asks for.
BidsOnlyRise ==
  [][(pc = "bid" /\ pc' \in {"bid", "copy"}) => \A k \in Key : selected[k] <= selected'[k]]_vars

\* Every verb ends: the bidding, the rounds and the undo terminate.
VerbsEnd == (pc # "idle") ~> (pc = "idle")

(***************************************************************************)
(* What a verb promises (module Change), with the steps of a running verb  *)
(* hidden: its user sees the project it began with until it ends.          *)
(***************************************************************************)
Promise ==
  INSTANCE Change WITH shown <- IF pc = "idle" THEN Now ELSE snap,
                       running <- pc # "idle",
                       verb <- mode,
                       answer <- IF pc = "idle" THEN verdict ELSE "none"

\* Every verb carries exactly the change it was asked for or takes all of it
\* back, whatever fails on the way and wherever it dies.
KeepsPromise == Promise!Spec

(***************************************************************************)
(* What the repository's texts say and the code does not do.               *)
(***************************************************************************)

\* "It is idempotent" (sync): run again with nothing disturbed and nothing
\* refused, it answers ok and changes neither the lock nor the vendor tree.
Idempotent ==
  (pc = "idle" /\ mode = "sync" /\ again /\ verdict \notin {"none", "refused", "died", "threw"})
    => verdict = "ok" /\ Now = snap

\* "a frozen sync that refuses leaves the locked build whole".
FrozenLeavesBuild ==
  (pc = "idle" /\ mode = "frozen" /\ verdict = "frozen") => vendor = snap.vendor

\* "The archive digest and each file against the kept manifest" (verify, and
\* the sync that ends in it): a locked tree that keeps its manifest is what
\* the manifest lists, no file edited and none missing.
LockedAsServed ==
  Synced => \A k \in Locked : vendor[k].manifest => vendor[k].bytes = "released"

\* Exit 4, verdict error: "a module in the store that does not evaluate on
\* its own".  Otherwise a sync of released trees never answers error.
ErrorMeansBroken ==
  (pc = "idle" /\ mode \in Syncs /\ verdict = "error")
    => \E k \in Key : ~Meaningful(vendor[k])
=============================================================================
