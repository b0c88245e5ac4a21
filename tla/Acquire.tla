------------------------------ MODULE Acquire ------------------------------
(***************************************************************************)
(* acquire (ts/src/pkg-net.ts): clients that fetch packages, each with its *)
(* closure, into one cache.                                                *)
(*                                                                         *)
(* acquire is recursive: a client is a stack of frames, one per package    *)
(* being fetched, of which the top one runs.  A step ends at an await or   *)
(* at an effect another process can see, so that clients of one cache      *)
(* interleave, the repository changes between an answer and its use, and a *)
(* client dies between any two effects.                                    *)
(*                                                                         *)
(* A canon-hash tells meanings apart: here it is the set of the packages a *)
(* release is evaluated with, each with its own meaning.                   *)
(***************************************************************************)
EXTENDS Packages, Sequences

CONSTANTS
  Client,
  Wanted,          \* the releases each client may be asked for
  FirstPublished,  \* the releases the repository serves at the start
  Fickle,          \* the releases the repository may add, drop, withdraw
  Moved,           \* the releases whose manifest declares `moved`
  MaxDepth,        \* LIMITS.depth
  MaxClosure,      \* LIMITS.closure
  Mishaps,         \* what else may happen: "crash", "rollback", "withdraw", ...
  MaxMishaps       \* bound: how often

VARIABLES
  published,       \* the releases whose objects are served
  offered,         \* the releases the version lists name
  withdrawn,       \* the releases a tombstone stands for
  seen,            \* cache: the client's own first-seen records
  store,           \* cache: the module trees
  down,            \* cache: the served files, by release
  stack,           \* the acquires a client is in, the innermost last
  answer,          \* the version list last served to a client
  memo,            \* ctx.acquired
  count,           \* ctx.count
  outcome,         \* how the client's last run ended; "running" while it runs
  shown,           \* history: the releases that lists have named to clients
  mishaps, halfway \* bound, and history: a tree may be left half removed

repository == <<published, offered, withdrawn>>
cache == <<seen, store, down>>
clients == <<stack, answer, memo, count, outcome>>
history == <<shown, mishaps, halfway>>
vars == <<repository, cache, clients, history>>

Release == Pkg \X Version
\* The files kept of a release, in the order they are written.
FileOrder == <<"zip", "manifest", "sig">>
File == {"zip", "manifest", "sig"}

ASSUME AcquireAssumption ==
  /\ IsFiniteSet(Client)
  /\ Wanted \in [Client -> SUBSET Release] /\ FirstPublished \subseteq Release
  /\ Moved \subseteq Release /\ Fickle \subseteq Release
  /\ MaxDepth \in Nat \ {0} /\ MaxClosure \in Nat \ {0} /\ MaxMishaps \in Nat

(***************************************************************************)
(* Meanings.                                                               *)
(***************************************************************************)
Hash == SUBSET (Pkg \X Meaning)
Own(p, v) == <<p, MeaningOf[p][v]>>

\* The highest minimum a set of releases asks of a key.
Highest(rels, k) ==
  LET minima == {DepsOf[r[1]][r[2]][k] : r \in rels}
  IN CHOOSE u \in minima : \A w \in minima : w <= u

\* The releases the publisher's own sync reads: from its dep block, each key
\* at the highest minimum read so far.
PublisherReads(p, v) ==
  LET Read[n \in 0 .. Cardinality(Release)] ==
        IF n = 0 THEN {<<p, v>>}
        ELSE LET had == Read[n - 1]
             IN had \cup {<<Names[k], Highest(had, k)>> :
                             k \in {k \in Key : Usable(k) /\ Highest(had, k) # 0}}
  IN Read[Cardinality(Release)]

\* The canon-hash a manifest pins (pkgManifest): what the module meant where
\* it was published, its imports as its publisher's lock selected them.
Published(p, v) ==
  LET reads == PublisherReads(p, v)
      Imported[n \in 0 .. Cardinality(Key)] ==
        IF n = 0 THEN {<<p, v>>}
        ELSE LET had == Imported[n - 1]
             IN had \cup UNION {{<<Names[k], Highest(reads, k)>> :
                   k \in {k \in Asked(DepsOf[r[1]][r[2]]) : Usable(k)}} : r \in had}
  IN {Own(r[1], r[2]) : r \in Imported[Cardinality(Key)]}

\* What the signed manifests say: the canon-hash of each release.
Manifests ==
  {[pkg |-> r[1], v |-> r[2], canon |-> Published(r[1], r[2])] : r \in Release}

PinnedBy(t) == [pkg |-> t.pkg, v |-> t.v, canon |-> t.canon] \in Manifests

\* A lock entry of a tree in the store: the key, and the release it names.
Pinned == [key : Key, v : Version, canon : Hash]

\* lockText unifies the entries, so two of one key must be one entry.
Consistent(pins) == \A e, f \in pins : e.key = f.key => e = f

\* What a release means with these pins for its imports.
MeaningWith(p, v, pins) ==
  {Own(p, v)} \cup UNION {e.canon : e \in {e \in pins : e.key \in Asked(DepsOf[p][v])}}

(***************************************************************************)
(* The cache.                                                              *)
(***************************************************************************)
\* A directory of the store, under its package and canon-hash: the release in
\* it, with the lock it was verified against; torn while it is being removed.
Filed == [pkg : Pkg, canon : Hash, v : Version, pins : SUBSET Pinned, torn : BOOLEAN]

At(p, canon) == {t \in store : t.pkg = p /\ t.canon = canon}

\* A tree's imports resolve through its own lock to trees that are there and
\* filed under the meaning pinned.
Holds(t, among) ==
  /\ Consistent(t.pins)
  /\ MeaningWith(t.pkg, t.v, t.pins) = t.canon
  /\ \A k \in Asked(DepsOf[t.pkg][t.v]) : \E e \in t.pins, u \in among :
       e.key = k /\ u.pkg = Names[k] /\ u.canon = e.canon

\* The trees that evaluate from the cache alone, their imports in turn.  No
\* tree is filed whose imports nest past MaxDepth.
Standing(trees) ==
  LET whole == {t \in trees : ~t.torn}
      Up[n \in 0 .. MaxDepth] ==
        IF n = 0 THEN whole ELSE {t \in whole : Holds(t, Up[n - 1])}
  IN whole \cap Up[MaxDepth]

(***************************************************************************)
(* Frames.                                                                 *)
(***************************************************************************)
Places == {"enter", "list", "fetch", "deps", "clear", "clearing", "rename",
           "keep", "keeping"}

Refusals == {"module_depth", "closure_too_large", "list_rollback", "tombstoned",
             "fetch_failed", "proof_missing", "module_moved", "bad_object",
             "manifest_invalid", "module_integrity"}

Outcomes == {"none", "running", "ok", "threw", "died"} \cup Refusals

Frame == [pkg : Pkg, v : Version, at : Places, todo : SUBSET Key,
          pins : SUBSET Pinned, canon : Hash, file : File \cup {""}]

Acquired == [pkg : Pkg, v : Version, canon : Hash, closure : SUBSET Pinned]

Enter(p, v) ==
  [pkg |-> p, v |-> v, at |-> "enter", todo |-> {}, pins |-> {}, canon |-> {},
   file |-> ""]

Running(c) == stack[c] # <<>>
Top(c) == stack[c][Len(stack[c])]
Rel(f) == <<f.pkg, f.v>>
Is(c, place) == Running(c) /\ Top(c).at = place

Retop(c, f) == stack' = [stack EXCEPT ![c][Len(stack[c])] = f]
Move(c, place) == Retop(c, [Top(c) EXCEPT !.at = place])

\* A run that ends: its context goes with it, except where it ended well and
\* the sync goes on to the next package (pkgSync).
End(c, how) ==
  /\ stack' = [stack EXCEPT ![c] = <<>>]
  /\ outcome' = [outcome EXCEPT ![c] = how]
  /\ answer' = [answer EXCEPT ![c] = {}]
  /\ memo' = [memo EXCEPT ![c] = {}]
  /\ count' = [count EXCEPT ![c] = 0]

TypeOK ==
  /\ published \subseteq Release /\ offered \subseteq Release
  /\ withdrawn \subseteq Release /\ seen \subseteq Release
  /\ \A t \in store : t \in Filed
  /\ down \in [Release -> [File -> {"absent", "torn", "whole"}]]
  /\ stack \in [Client -> Seq(Frame)] /\ answer \in [Client -> SUBSET Version]
  /\ memo \in [Client -> SUBSET Acquired] /\ count \in [Client -> 0 .. MaxClosure]
  /\ outcome \in [Client -> Outcomes]
  /\ \A c \in Client : outcome[c] = "running" <=> Running(c)
  /\ shown \subseteq Release /\ mishaps \in 0 .. MaxMishaps /\ halfway \in BOOLEAN

Init ==
  /\ published = FirstPublished /\ offered = FirstPublished /\ withdrawn = {}
  /\ seen = {} /\ store = {}
  /\ down = [r \in Release |-> [o \in File |-> "absent"]]
  /\ stack = [c \in Client |-> <<>>]
  /\ answer = [c \in Client |-> {}] /\ memo = [c \in Client |-> {}]
  /\ count = [c \in Client |-> 0]
  /\ outcome = [c \in Client |-> "none"]
  /\ shown = {} /\ mishaps = 0 /\ halfway = FALSE

(***************************************************************************)
(* One acquire.                                                            *)
(***************************************************************************)
Mishap(m) == m \in Mishaps /\ mishaps < MaxMishaps /\ mishaps' = mishaps + 1

\* pkgSync asks for a release, in the context of the run so far or of a new one.
Ask(c, r, fresh) ==
  /\ ~Running(c)
  /\ stack' = [stack EXCEPT ![c] = <<Enter(r[1], r[2])>>]
  /\ outcome' = [outcome EXCEPT ![c] = "running"]
  /\ memo' = [memo EXCEPT ![c] = IF fresh THEN {} ELSE @]
  /\ count' = [count EXCEPT ![c] = IF fresh THEN 0 ELSE @]
  /\ UNCHANGED <<repository, cache, answer, history>>

Refuse(c, code) ==
  /\ End(c, code)
  /\ UNCHANGED <<repository, history>>

\* Mutant of Full: one package past the cap.
FullPast(c) == count[c] > MaxClosure

Full(c) == count[c] >= MaxClosure

\* The caps, then the version list, as it stands when it is served.
TooDeep(c) ==
  /\ Is(c, "enter")
  /\ Len(stack[c]) > MaxDepth
  /\ Refuse(c, "module_depth") /\ UNCHANGED cache

TooLarge(c) ==
  /\ Is(c, "enter") /\ Len(stack[c]) <= MaxDepth
  /\ Full(c)
  /\ Refuse(c, "closure_too_large") /\ UNCHANGED cache

ListServed(c) ==
  /\ Is(c, "enter") /\ Len(stack[c]) <= MaxDepth /\ ~Full(c)
  /\ answer' = [answer EXCEPT ![c] = {v \in Version : <<Top(c).pkg, v>> \in offered}]
  /\ Move(c, "list")
  /\ UNCHANGED <<repository, cache, memo, count, outcome, history>>

NoAnswer(c) ==
  /\ Mishap("unreachable")
  /\ Is(c, "enter") /\ Len(stack[c]) <= MaxDepth /\ ~Full(c)
  /\ End(c, "fetch_failed")
  /\ UNCHANGED <<repository, cache, shown, halfway>>

\* Mutant of Recorded: only the version taken is a version seen.
RecordedTaken(c) == seen \cup ({Rel(Top(c))} \cap {<<Top(c).pkg, v>> : v \in answer[c]})

\* fetchList records every version the list names.
Recorded(c) == seen \cup {<<Top(c).pkg, v>> : v \in answer[c]}

\* What the list just read hides: seen, not listed, not withdrawn.
Hidden(c) ==
  {r \in Recorded(c) \ withdrawn : r[1] = Top(c).pkg /\ r[2] \notin answer[c]}

\* The list is read: its versions are recorded.
Told(c) ==
  /\ seen' = Recorded(c)
  /\ shown' = shown \cup {<<Top(c).pkg, v>> : v \in answer[c]}

ListRefused(c) ==
  /\ Is(c, "list")
  /\ Hidden(c) # {} \/ Top(c).v \notin answer[c]
  /\ Told(c)
  /\ End(c, IF Hidden(c) # {} THEN "list_rollback"
            ELSE IF Rel(Top(c)) \in withdrawn THEN "tombstoned"
            ELSE "fetch_failed")
  /\ UNCHANGED <<repository, store, down, mishaps, halfway>>

Listed(c) == Is(c, "list") /\ Hidden(c) = {} /\ Top(c).v \in answer[c]
Had(c) == {a \in memo[c] : <<a.pkg, a.v>> = Rel(Top(c))}

\* The entries a dependency adds to the lock being built: its own, and those
\* of its closure that no entry has the key of.
Joined(pins, direct, closure) ==
  LET own == pins \cup {direct}
  IN own \cup {e \in closure : \A p \in own : p.key # e.key}

\* The innermost acquire returns: its caller pins it, or the run is done.
Return(c, a) ==
  /\ answer' = [answer EXCEPT ![c] = {}]
  /\ LET n == Len(stack[c]) IN
     IF n = 1
       THEN /\ stack' = [stack EXCEPT ![c] = <<>>]
            /\ outcome' = [outcome EXCEPT ![c] = "ok"]
       ELSE /\ \E k \in First(stack[c][n - 1].todo) :
                 LET up == stack[c][n - 1]
                     direct == [key |-> k, v |-> a.v, canon |-> a.canon]
                 IN stack' = [stack EXCEPT ![c] = Append(SubSeq(@, 1, n - 2),
                      [up EXCEPT !.todo = @ \ {k}, !.pins = Joined(@, direct, a.closure)])]
            /\ UNCHANGED outcome

\* A package this run has fetched already is not fetched again.
ListHad(c) ==
  /\ Listed(c)
  /\ Told(c)
  /\ \E a \in Had(c) : Return(c, a)
  /\ UNCHANGED <<repository, store, down, memo, count, mishaps, halfway>>

ListRead(c) ==
  /\ Listed(c) /\ Had(c) = {}
  /\ Told(c)
  /\ count' = [count EXCEPT ![c] = @ + 1]
  /\ Move(c, "fetch")
  /\ UNCHANGED <<repository, store, down, answer, memo, outcome, mishaps, halfway>>

(***************************************************************************)
(* The objects: the cache's own copy where there is one, else the one      *)
(* served.  The newest version's manifest is read first, for a move.  Of   *)
(* several things wrong, any may be the one that is named.                 *)
(***************************************************************************)
Newest(c) == {v \in answer[c] : \A u \in answer[c] : u <= v}

Objects(c) ==
  {<<Rel(Top(c)), o>> : o \in File} \cup
    {<<<<Top(c).pkg, v>>, "manifest">> : v \in Newest(c)}

Copy(x) == down[x[1]][x[2]]

FetchRefused(c) ==
  /\ Is(c, "fetch")
  /\ \/ \E x \in Objects(c) :
          /\ Copy(x) = "torn" /\ End(c, "bad_object")
     \/ \E x \in Objects(c) :
          /\ Copy(x) = "absent" /\ x[1] \notin published
          /\ End(c, IF x[2] = "sig" THEN "proof_missing"
                    ELSE IF x[2] = "manifest" /\ x[1] \in withdrawn THEN "tombstoned"
                    ELSE "fetch_failed")
     \/ /\ \E v \in Newest(c) \cup {Top(c).v} : <<Top(c).pkg, v>> \in Moved
        /\ End(c, "module_moved")
  /\ UNCHANGED <<repository, cache, history>>

Fetch(c) ==
  /\ Is(c, "fetch")
  /\ \A x \in Objects(c) :
       Copy(x) = "whole" \/ (Copy(x) = "absent" /\ x[1] \in published)
  /\ \A v \in Newest(c) \cup {Top(c).v} : <<Top(c).pkg, v>> \notin Moved
  /\ Retop(c, [Top(c) EXCEPT !.at = "deps", !.todo = Asked(DepsOf[Top(c).pkg][Top(c).v])])
  /\ answer' = [answer EXCEPT ![c] = {}]
  /\ UNCHANGED <<repository, cache, memo, count, outcome, history>>

(***************************************************************************)
(* Deps first, in key order, each at the minimum the manifest declares.    *)
(***************************************************************************)
Descend(c) ==
  /\ Is(c, "deps")
  /\ \E k \in First(Top(c).todo) :
        /\ Usable(k)
        /\ stack' = [stack EXCEPT ![c] =
             Append(@, Enter(Names[k], DepsOf[Top(c).pkg][Top(c).v][k]))]
  /\ UNCHANGED <<repository, cache, answer, memo, count, outcome, history>>

DepInvalid(c) ==
  /\ Is(c, "deps")
  /\ \E k \in First(Top(c).todo) : ~Usable(k)
  /\ Refuse(c, "manifest_invalid") /\ UNCHANGED cache

(***************************************************************************)
(* The tree is unpacked beside the store with the lock of its closure and  *)
(* evaluated there, its imports read from the store as it stands.          *)
(***************************************************************************)
Unpacked(c) ==
  [pkg |-> Top(c).pkg, canon |-> MeaningWith(Top(c).pkg, Top(c).v, Top(c).pins),
   v |-> Top(c).v, pins |-> Top(c).pins, torn |-> FALSE]

Evaluated(c) == Holds(Unpacked(c), Standing(store))

\* Mutant of Verified: that it evaluates is enough, whatever it means.
VerifiedAnyway(c) == TRUE

Verified(c) == Evaluated(c) /\ PinnedBy(Unpacked(c))

Built(c) == Is(c, "deps") /\ Top(c).todo = {}

Build(c) ==
  /\ Built(c) /\ Verified(c)
  /\ Retop(c, [Top(c) EXCEPT !.at = "clear", !.canon = Unpacked(c).canon])
  /\ UNCHANGED <<repository, cache, answer, memo, count, outcome, history>>

\* Mutant of Unverified: the place is cleared before the checks are made.
UnverifiedCleared(c) ==
  /\ Built(c) /\ ~Verified(c)
  /\ store' = store \ At(Top(c).pkg, Published(Top(c).pkg, Top(c).v))
  /\ Refuse(c, "module_integrity") /\ UNCHANGED <<seen, down>>

Unverified(c) ==
  /\ Built(c) /\ ~Verified(c)
  /\ Refuse(c, "module_integrity") /\ UNCHANGED cache

(***************************************************************************)
(* rmSync, then renameSync: what stood in the place is removed file by     *)
(* file, and a rename onto a directory that is there again throws.         *)
(***************************************************************************)
Place(c) == At(Top(c).pkg, Top(c).canon)

Tear(trees) == (store \ trees) \cup {[t EXCEPT !.torn = TRUE] : t \in trees}

Clear(c) ==
  /\ Is(c, "clear")
  /\ store' = Tear(Place(c))
  /\ Move(c, IF Place(c) = {} THEN "rename" ELSE "clearing")
  /\ UNCHANGED <<repository, seen, down, answer, memo, count, outcome, history>>

Cleared(c) ==
  /\ Is(c, "clearing")
  /\ store' = store \ Place(c)
  /\ Move(c, "rename")
  /\ UNCHANGED <<repository, seen, down, answer, memo, count, outcome, history>>

Rename(c) ==
  /\ Is(c, "rename") /\ Place(c) = {}
  /\ store' = store \cup {Unpacked(c)}
  /\ Retop(c, [Top(c) EXCEPT !.at = "keep"])
  /\ UNCHANGED <<repository, seen, down, answer, memo, count, outcome, history>>

RenameThrows(c) ==
  /\ Is(c, "rename") /\ Place(c) # {}
  /\ End(c, "threw")
  /\ UNCHANGED <<repository, cache, history>>

(***************************************************************************)
(* The served files are kept, each where there is none, written in place.  *)
(***************************************************************************)
Lacking(c) ==
  {i \in DOMAIN FileOrder : down[Rel(Top(c))][FileOrder[i]] = "absent"}

Keep(c) ==
  /\ Is(c, "keep")
  /\ \E i \in Lacking(c) :
        /\ \A j \in Lacking(c) : i <= j
        /\ down' = [down EXCEPT ![Rel(Top(c))][FileOrder[i]] = "torn"]
        /\ Retop(c, [Top(c) EXCEPT !.at = "keeping", !.file = FileOrder[i]])
  /\ UNCHANGED <<repository, seen, store, answer, memo, count, outcome, history>>

Kept(c) ==
  /\ Is(c, "keeping")
  /\ down' = [down EXCEPT ![Rel(Top(c))][Top(c).file] = "whole"]
  /\ Retop(c, [Top(c) EXCEPT !.at = "keep", !.file = ""])
  /\ UNCHANGED <<repository, seen, store, answer, memo, count, outcome, history>>

Done(c) ==
  /\ Is(c, "keep") /\ Lacking(c) = {}
  /\ LET a == [pkg |-> Top(c).pkg, v |-> Top(c).v, canon |-> Top(c).canon,
               closure |-> Top(c).pins]
     IN /\ memo' = [memo EXCEPT ![c] = @ \cup {a}]
        /\ Return(c, a)
  /\ UNCHANGED <<repository, cache, count, history>>

Step(c) ==
  \/ TooDeep(c) \/ TooLarge(c) \/ NoAnswer(c) \/ ListServed(c)
  \/ ListRefused(c) \/ ListHad(c) \/ ListRead(c)
  \/ FetchRefused(c) \/ Fetch(c)
  \/ Descend(c) \/ DepInvalid(c)
  \/ Build(c) \/ Unverified(c)
  \/ Clear(c) \/ Cleared(c) \/ Rename(c) \/ RenameThrows(c)
  \/ Keep(c) \/ Kept(c) \/ Done(c)

(***************************************************************************)
(* What else happens.  A client that dies leaves what it was writing torn, *)
(* and an installed tree it was still removing the predecessor of, too.    *)
(* One that meets another's tree in the place it is removing throws, with  *)
(* that tree removed in part.                                              *)
(***************************************************************************)
Die(c) ==
  /\ Mishap("crash")
  /\ Running(c)
  /\ End(c, "died")
  /\ store' \in {store} \cup (IF Is(c, "clearing") THEN {Tear(Place(c))} ELSE {})
  /\ halfway' = TRUE
  /\ UNCHANGED <<repository, seen, down, shown>>

ClearThrows(c) ==
  /\ Is(c, "clearing") /\ \E t \in Place(c) : ~t.torn
  /\ End(c, "threw")
  /\ store' \in {store, Tear(Place(c))}
  /\ halfway' = TRUE
  /\ UNCHANGED <<repository, seen, down, shown, mishaps>>

Abandon(c) == Die(c) \/ ClearThrows(c)

Publish(r) ==
  /\ "publish" \in Mishaps
  /\ r \in Fickle \ (offered \cup withdrawn)
  /\ published' = published \cup {r} /\ offered' = offered \cup {r}
  /\ UNCHANGED <<withdrawn, cache, clients, history>>

\* The repository, or a stale mirror of it, drops a version from its list.
RollBack(r) ==
  /\ Mishap("rollback")
  /\ r \in offered \cap Fickle /\ offered' = offered \ {r}
  /\ UNCHANGED <<published, withdrawn, cache, clients, shown, halfway>>

\* A version is withdrawn, and a tombstone says so.
Withdraw(r) ==
  /\ Mishap("withdraw")
  /\ r \in offered \cap Fickle /\ offered' = offered \ {r}
  /\ published' = published \ {r} /\ withdrawn' = withdrawn \cup {r}
  /\ UNCHANGED <<cache, clients, shown, halfway>>

Next ==
  \/ \E c \in Client : Step(c) \/ Abandon(c)
  \/ \E c \in Client : \E r \in Wanted[c], fresh \in BOOLEAN : Ask(c, r, fresh)
  \/ \E r \in Release : Publish(r) \/ RollBack(r) \/ Withdraw(r)

Spec == Init /\ [][Next]_vars

(***************************************************************************)
(* Properties.                                                             *)
(***************************************************************************)
\* A place of the store holds only a release that means there what its
\* publisher's manifest pins, with one lock entry a key, every import at
\* the minimum its dep block declares: whoever replaced whose tree, and
\* whoever died.
StoreIsVerified ==
  \A t \in store :
    /\ PinnedBy(t)
    /\ Consistent(t.pins)
    /\ \A k \in Asked(DepsOf[t.pkg][t.v]) :
         \E e \in t.pins : e.key = k /\ e.v = DepsOf[t.pkg][t.v][k]

\* The trees about to be put in the places cleared for them.
Coming == {Unpacked(c) : c \in {c \in Client : Is(c, "clearing") \/ Is(c, "rename")}}

\* "so it verifies again from the cache alone": as long as no client dies, or
\* throws while it removes a tree, every tree in the store evaluates with
\* nothing but the store and the trees that are being put back.
Untorn == {t \in store : ~t.torn}
CacheStandsAlone == ~halfway => \A t \in Untorn : Holds(t, Untorn \cup Coming)

\* What a run was told it has, it has: every package acquired in a run that
\* was not refused is filed whole, or being filed again.
AcquiredIsFiled ==
  ~halfway => \A c \in Client : \A a \in memo[c] :
    \E t \in Untorn \cup Coming : t.pkg = a.pkg /\ t.canon = a.canon

\* A repository that drops a version is detected: a client goes on from a
\* list only when it names, or a tombstone accounts for, every version any
\* client of this cache was ever shown.
NoRollbackTaken ==
  [][\A c \in Client : (Is(c, "list") /\ outcome'[c] \in {"running", "ok"} /\ stack'[c] # stack[c])
       => \A r \in shown \ withdrawn : r[1] = Top(c).pkg => r[2] \in answer[c]]_vars

(***************************************************************************)
(* What the repository's texts say and the code does not do.  Every object *)
(* this repository serves is good.                                         *)
(***************************************************************************)

\* "Acquisition reads a repository": a repository that serves good objects
\* is not refused for a bad one.
GoodObjectsAreTaken == \A c \in Client : outcome[c] # "bad_object"

\* "The module is evaluated in its publisher's context, which is what its
\* canon pins": with its imports pinned as the publisher's sync pinned them,
\* a published module means what its manifest says.
InPublishersContext ==
  \A c \in Client : Built(c) =>
    Consistent(Top(c).pins) /\ PinnedBy(Unpacked(c))
=============================================================================
