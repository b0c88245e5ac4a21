# A TLA+ model of Aontu

Aontu is a unification language for configuration: documents are merged by a
*meet*, whatever order they are written in. Around its evaluator stand a
package manager (`aontu sync`, `get`, `add`, `remove`, `aontu pkg ...`), which
pins the bytes and the *meaning* of what a project depends on, and two servers
over stdio, one for editors and one for agents.

This development models three things. The package tooling is where the program
keeps state across runs, writes files in several places, awaits a network and
may die between two writes. The language's laws (order does not matter, what is
admitted is what every term admits, `subsume` says yes only where the order
holds) are promises about every sequence of calls, carried by large case
analyses over value classes. The servers owe each message, however its bytes
are cut, one answer of the right text.

## The system

### Components

| component | code (`src/ts/src`) | state it keeps | operations | here |
|---|---|---|---|---|
| project verbs | `pkg-net.ts` pkgSync, pkgGet, pkgRemove, settled | package file, lockfile, vendor tree | `sync [--frozen]`, `get`, `add`, `remove` | `Project`, `Change` |
| lock tooling | `pkg.ts` | the same | `pkg tidy`, `verify`, `vendor`, `refreeze`, `tree` | `Project` (`tree` only reads) |
| local stores and imports | `pkg.ts` storeDir, `mod.ts` resolveModule | vendor tree, cache | search of the stores, check of an import's pin | `Packages` |
| acquisition | `pkg-net.ts` acquire | cache: store, downloads, seen versions | the checks of one fetch and its closure | `Acquire`; one step of `Project` |
| repository | `pkg-net.ts` writeLayout, pkgPublish | a directory of objects, or an upload | `publish --to` | `Registry` |
| serve | `pkg-net.ts` serveObject, startServe | a directory that caches an upstream | GET of one object | `Registry` |
| read-only queries | `pkg-net.ts` pkgWhy, pkgOutdated; `pkg.ts` pkgManifest | none | reports | not modelled |
| archives, signatures, log | `pkg-zip.ts`, `sig*.ts`, `tlog.ts` | none | byte layouts, cryptography | abstracted to equality |
| values | `val/*` | a value graph per document | unify, same, superior, gen | `Residual`, `Leaf`, `Meet`, `Choice`, in part |
| unifier | `unify.ts`, `ctx.ts`, `type.ts` | pass counters, seen table | dispatch of a meet; the fixpoint loop | the dispatch, in `Leaf` and `Choice` |
| subsumption | `subsume.ts`, `compat.ts`, `diff.ts` | memo, assumptions, frames of one query | is this value an instance of that | `Subsume` (walk), `Leaf` (leaf rows) |
| front end | `lang.ts`, `grammar.ts`, `format.ts` | none | parse, format | not modelled |
| schemas, generation, views, queries | `jsonschema*.ts`, `view.ts`, `query.ts`, ... | none | translate an evaluated document | not modelled |
| language server | `lsp-server.ts`, `lsp.ts` | unread bytes, open documents, settings | one handler a method | `Session` |
| MCP server | `mcp-server.ts`, `mcp.ts` | unread text | one handler a method, tools without state | `Session` |
| command line | `cli.ts` | none but the loop of `vet --watch` | arguments and output over the same functions | not modelled |
| Go port, editors, site, docs | `go/`, `editors/`, `web/`, `docs/` | | | not modelled |

### How they interact

A verb is one process. It reads the package file, the lockfile and the stores
through the file system, awaits HTTP between two packages of a fetch, and
writes files in place; there is no journal and no lock between processes. The
evaluator is called back (`options.eval`) to give a tree its canon-hash, and
resolves that tree's imports through the *project's* vendor tree and lockfile,
so what a vendored package means depends on the lock standing at that moment.
The repository is a directory of files that publishers rewrite while clients
read. The cache is shared by every project of a user.

An evaluation is one computation over one value graph. The parser turns a
document's statements into a conjunction, `unite` dispatches each pair of terms
to a value class, and the classes call `unite` back on their members. `subsume`
runs on two evaluated documents. The servers evaluate the text of one document
at a time, synchronously, between two chunks of input.

### What is hard

* The closure is walked twice, by two loops that read trees from stores in
  different orders: `pkgSync` (one package at a time, fetching) and
  `pkgResolve` (a frontier at a time, local). The lock is right only when they
  agree.
* A package may be read at a version that is superseded later in the run. What
  the superseded release asked for stays asked for.
* The vendor tree answers first in every store search, whatever version it
  holds; the cache is filed by canon-hash, so two releases with one meaning
  share a place.
* A verb changes three things (package file, lock, vendor tree) one file at a
  time and may die, or throw, between any two; `get` and `remove` promise to
  take a failed change back.
* Evaluating a tree reads the lock that the verb is about to replace.
* A meet is commutative and associative by promise, and written as a dispatch
  that treats its two sides differently: the right side drives before the left,
  a sealed map leads, "" is refused only when a later step settles it.
* A default survives a meet with a space it may be overridden from; arms of a
  choice are ranked, folded, flattened and dropped while that happens.
* `subsume` assumes of a recursion what it is about to show, remembers answers
  on the way, and must not remember one that rested on an assumption that fell.
* A chunk of input ends anywhere: within a header, a frame or a character.

`PROJECT.json` lists these, and the others, at the lines where they bite.

## The plan

Done: `Packages` and `Project`, the data and the verbs of one project, with
proofs; `Acquire`, clients of one cache, with proofs; `Registry`, publishers, a
proxy and a client, with proofs; `Change`, the abstract specification of a change, and `Project` shown
to implement it, checked and proved; `Residual`, `Leaf`, `Meet`, the meet of
values without parts, with proofs; `Choice`, disjunctions, preferences and
maps; `Walk` and `Subsume`, the subsumption query and what it should answer, with
proofs; `Session`, both servers, with proofs.

Left, in this order:

1. The fixpoint loop of `unify.ts`: passes, its budgets, references, spreads
   that refer, lists, `open()`, marks, functions.
2. The upload path of a publish, two requests at once and a death in the proxy,
   the termination of `acquire` under its caps, the loop of `vet --watch`.

## Modules

### Packages

The data. A *key* of a `dep` block is a package path or an alias; `Names` gives
the package it names, `""` for a key the tooling cannot act on (`usableKey`).
Versions are numbers (`versionCompare` is `<=`) and 0 is "none", so a dep block
is a function from keys to versions. A *tree* is the release it was copied from
with what happened to its bytes since; its digest is that record. The damages
told apart are those the verbs answer differently: a file that nothing imports
is gone (`partial`), the package file is cut short and says neither a version
nor a need (`cut`, `Said`), the main file says something else (`edited`), is an
error (`broken`), or is not there (`mainless`). `CanonOf` is
the canon-hash an engine computes, and the empty one where there is no main
file, which `pinTree` (pkg.ts:444) does not evaluate; `Pin` is `pinTree`, `HeldTree` is `storeDir`,
`Resolved` and `ImportHolds` are `resolveModule` with its pin check, and
`Evaluates` is `options.eval(...).ok` for a tree standing alone.

### Project

One project and its verbs. State and code:

| variable | code |
|---|---|
| `declared` | the `dep` block of `pkg.aontu` |
| `lock`, `lockFile` | `aontu_meta/pkg-lock.aontu`: its entries, and whether it is absent, whole or torn |
| `vendor` | `aontu_meta/vendor/`, by key |
| `store`, `down` | the cache's store, by package and canon, and its downloads, by package and version |
| `listed` | the releases the repository offers |
| `engine` | the canonical form this client computes |
| `selected`, `pending`, `dirs`, `missing`, `acquired` | the locals of `pkgSync` |
| `rsel`, `frontier`, `rmissing`, `newlock` | the locals of `pkgResolve` |
| `pc`, `mode`, `verdict` | where the verb is, which it is, what it answered |
| `snap`, `again` | the project as the verb found it (`snapshot`), and whether it follows an undisturbed `ok` |

| actions | code |
|---|---|
| `Sync`, `Get`, `Remove`, `EditPackageFile` | entry of the verbs, `editDeps` |
| `BidUnusable`, `BidHeld`, `BidAcquire`, `BidRefused`, `ConfigRefused`, `BidFrozen`, `BidDone` | one turn of `pkgSync`'s loop: an unusable key, else the first key held locally, else the first that may be fetched |
| `Copy`, `CopyDone` | materialise, one tree per step |
| `Tidy`, `Round`, `ResolveDone` | `pkgResolve`, one frontier per step |
| `Unwritable`, `Writable` | its verdict, and the `--frozen` comparison |
| `Prune`, `PruneDone`, `WriteLock`, `Verify` | prune, write the lockfile, `pkgVerify` |
| `UndoPackageFile`, `UndoLock`, `UndoClear`, `UndoVendor` | `settled`, file by file |
| `Vendor`, `VendorNext`, `VendorDone` | `pkg vendor`, one entry per step |
| `Refreeze`, `Repin`, `RepinNothing` | `pkg refreeze`: begun, and the lockfile rewritten or left; the rewriting may be cut short (`DieInLock`) as any |
| `Throw`, `DieBetween`, `DieInPackageFile`, `DieInLock`, `DieInTree`, `DieInClear` | a verb ends where it stands: by an exception that `refused` rethrows, or by a crash between two writes or within one |
| `Author`, `Damage`, `HandCopy`, `CleanCache`, `Upgrade`, `Publish` | the environment: a hand edit of the package file, a vendored tree edited or removed, a copy put there by hand, the cache cleaned, a new engine, a new release |

Only `Publish` happens while a verb runs; the rest of the environment acts
between verbs. The cache is cleaned, the package file edited and the vendor
tree damaged only then: two verbs on one project at once are not modelled (the
tooling takes no lock, and promises nothing about it).

Abstractions. What an import adds to a package's own meaning is not computed: a
hash tells releases (and edits) apart, and an engine tells canonical forms
apart. Fetching one package with its closure is a single step that succeeds when
the closure is listed and finite; when the `refuse` fault is on it may refuse
anything at any time, leaving whatever part of the closure it had filed. Of two
releases with one canon either may end up in the store, as the order of the walk
decides. Files an archive may not hold are a tree that does not evaluate. A
torn tree (`Torn`) is absent or has part of the files of either side, with or
without its manifest, and one of the damages above; a tree with several keeps
one of them. A tree without its package file is no tree to any store search.
Left out is a copy that died before the store's own lock was removed from it.

A tree that lost its main file is held by the stores, and `pinTree` pins it
unevaluated with the empty canon. So `pkg tidy` answers ok over it, and a sync
has pruned and written such a lock when its `pkgVerify` says `missing`
(`Unread`). The model follows the code here, and `EmptyPinsAreRefused` says what
remains true of the lock.

### Change

What a user may rely on between verbs, with no step inside a verb: `shown` is
the project as it stood when no verb ran, `Begin` and `Answer` bracket a verb,
`Die` is a verb that ends where it stands, `Disturb`
is what is no verb. A `get` raises one minimum at most and a `remove` drops
exactly one key, or the whole project is as it was; no other verb writes the
dep block; a frozen sync and `pkg vendor` write no lock; what a repository
refuses changes nothing at all; a tidy and a refreeze write no tree; an answer
of frozen or error, and a `pkg vendor`, has lost no tree (`KeepsTrees`); a
lockfile that was cut short pins nothing.

`Project` implements it by the mapping `Promise`: `shown` is the project while
`pc` is `"idle"` and the snapshot of the running verb otherwise, `running` is
`pc # "idle"`, `verb` is `mode`, `answer` is `verdict` once the verb has ended.
The steps in between (every file of every tree) are stutters. Two things are
left free in `Answer`: the vendor tree where the verb answers ok, missing or
mismatch, for it has pruned then, and what it holds after an ok is
`OfflineBuild`'s subject; and *which* tree of a package stands where it answers
frozen or error. There the code has replaced trees before it knew: that it has
not is `FrozenLeavesBuild`, which is refuted.

### MCProject

Small worlds: the dependency graph of a few releases, as definitions the
configurations pick from.

### PackagesProofs, ProjectProofs

The proofs; see below.

### Acquire

Clients that run `acquire` on one cache. `acquire` is recursive and awaits, so a
client is a *stack* of frames, one per package being fetched; a step ends at an
await or at an effect that another process can see.

| variable | code |
|---|---|
| `published`, `offered`, `withdrawn` | the repository: objects served, versions listed, tombstones |
| `seen` | `seen/<package>/` of the cache |
| `store` | `store/<canon>/<package>/`: the release in each place, with its own lock, torn while it is removed |
| `down` | `download/<package>/@v/`: zip, manifest and proof of each release |
| `stack`, `answer` | the calls of `acquire` a client is in, and the list it was served last |
| `memo`, `count` | `ctx.acquired`, `ctx.count` |
| `outcome` | how the client's last run ended |
| `shown`, `halfway`, `mishaps` | history: what was shown to a client, and whether a tree may be left half removed; bound |

| actions | code |
|---|---|
| `Ask` | `pkgSync` asks for a release, in the context of the run or a new one |
| `TooDeep`, `TooLarge`, `ListServed`, `NoAnswer` | the caps, and the request for the list |
| `ListRefused`, `ListHad`, `ListRead` | the list read: versions recorded, rollback, a version not listed, a package had already |
| `FetchRefused`, `Fetch` | the newest manifest, the manifest, the proof, the archive: the kept copy or the one served |
| `Descend`, `DepInvalid`, `Done` | the dependencies in key order, and the return of each to its caller |
| `Build`, `Unverified` | unpacked beside the store, with its lock, evaluated, compared with the manifest |
| `Clear`, `Cleared`, `Rename`, `RenameThrows` | `rmSync`, `renameSync` |
| `ClearThrows` | `rmSync` meets a tree that another client has renamed into the place, throws `ENOTEMPTY`, and leaves that tree whole or in part |
| `Keep`, `Kept` | each served file written where there is none |
| `Die`, `Publish`, `RollBack`, `Withdraw` | the environment |

A canon-hash is the set of the packages a release is evaluated with, each with
its own meaning; the hash a manifest pins (`Published`) is computed as the
publisher's sync would resolve it. Abstractions: every object the repository
serves is good, so a bad one is a torn copy of the cache; the checks of archive
rules and trust configuration are left out; the requests of `Fetch` are one
step, because what they return never changes and any that fails is a disjunct
of `FetchRefused`; the choice of a version that a `get` leaves open is in
`Registry`; that a kept file is absent and that it is opened is one step.

### Registry

One package's directory. Publishers are processes that share it without a lock
and write every file in place; a client asks for objects through a proxy.

| variable | code |
|---|---|
| `file` | `<version>.zip`, `.manifest`, `.sig`: absent, torn, or the build of one publisher |
| `list`, `latest`, `advisory` | the three documents that are rewritten |
| `keptFile`, `keptList`, `keptAdvisory` | the proxy's copies |
| `pub` | the locals of `pkgPublish` and `writeLayout` of each publisher |
| `client`, `seen` | the locals of a client's acquire, and its records |
| `sent`, `overlapped`, `died`, `mishaps` | history and bound |

| actions | code |
|---|---|
| `Begin`, `Gate` | `pkgPublish`: the list read, the predecessor fetched and compared |
| `Scan` | `writeLayout`: the manifests found, `version_exists`, `path_moved` |
| `OpenObject`, `CloseObject` | archive, manifest, proof, each opened and then whole |
| `ReadList`, `OpenList`, `CloseList`, `WriteLatest` | the list read, rewritten, `@latest` |
| `OpenAdvisory`, `CloseAdvisory` | the advisory derived from the manifests found |
| `ListServed`, `AdvisoryServed`, `NewestServed`, `ManifestServed`, `ProofServed`, `ArchiveServed` | one request of the client, through `serveObject` |
| `Die` | a publisher dies; what it was writing stays torn |

A publish under `--against` is a publisher of the set `Against`. Which version a
client takes depends on the clock: any that is listed and not retracted may be
the newest past its cooldown. Nothing is known of the upload path (it is no code
of this repository); `--to` is what is modelled. The client's own cache is that
of `Acquire`.

### MCAcquire, MCRegistry

The worlds of those runs. `AcquireProofs` and `RegistryProofs` are the proofs.

### Residual

The constraint algebra, as pure operators. A scalar is a leaf and a point: a
number's point is twice its value, so a half has one, and a text's is the place
of its spelling in code-point order. What the algebra does not look into (a
pattern, a format, a trial schema, a key function) is a name, and the constant
`Holds` says of which values it is true.

| operator | code |
|---|---|
| `Tighter`, `MergedMults`, `MeetCount`, `Merged` | the end kept of two, the divisor kept of two that show one value, the meet of two sizes and of two residuals |
| `EmptyInterval`, `IntegralGap`, `PointExcluded`, `CountEmpty`, `StateEmpty` | the rules by which a residual is refused where it arises |
| `AdmitsScalar`, `AdmitsContainer` | what a scalar, a map or a list has to pass |
| `ResidualCovers`, `LowerCovers`, `UpperCovers`, `CountCovers` | whether one residual subsumes another, atom by atom |

Infinite bounds and the infinities are left out, and so are the texts'
normalisation and everything that formats a residual.

### Leaf

The values without parts and the meet of two: `Unite` is `unite`'s dispatch for
them, `Kind`, `Scalar`, `Empty` the classes of `val/`. Two flags of a string are
kept, because they are combined by every later meet and read when the value is
generated: `needs` (it met the string kind while it is "") and `ok` (it met
`empty()`). `MinConstraint` to `MustConstraint` are the atoms as the constraint
functions build them, `MeetConstraint`, `MeetKind`, `MeetEmpty` and
`ScalarScalar` what `Unite` dispatches to. `Covers` is the leaf rows of `subsume.ts`. The boolean kind is left
out: beside a trial schema alone it stays a conjunction, which has parts.

### Meet

A document of two parts. `val` is the meet of a part so far and `met` the terms
it has met; `Write` meets one more term from either side, a term already met
included, and `Join` meets the parts. So every order, side, repetition and
grouping of up to `MaxTerms` different terms is a behaviour.

### Choice

Alternatives, defaults and maps. A preference is a value with a rank and the
space an override of it comes from; a choice is a sequence of arms; a map has
members, optional keys, a seal and a template.

| operator | code |
|---|---|
| `MeetPref`, `PrefOther`, `PrefPref`, `Bounded`, `Stand` | `PrefVal.unify`, `restand`, `overMet` |
| `MeetAlts`, `Ranked`, `ArmMeets`, `Standing`, `OneOf` | `DisjunctVal.unify`, `rankPrefs`, the meet of one arm, the flattening and the removal of twins |
| `MapMap`, `MeetMap`, `Template`, `SealTree`, `SealChild`, `StaysOptional` | `MapVal.unify`, `BagVal`, `SealVal` |
| `Meet` | the dispatch of `unite` on these, leaves by `Unite` |
| `Self` | a value unified with itself, which every written one is first |
| `Super`, `Same` | `superior`, `same` |
| `Gen`, `Best` | the generators |
| `Reached`, `Left` | what a map generates under an optional key, where a failure of a member is collected and set aside: the members up to the one that stops it, in key order (`KeyOrder`) |

`Says` is the reference: what a written term admits, read arm by arm and member
by member, with no meet in it. `Write` and `Join` are those of `Meet`. Left
out: lists, `open()`, aliases, marks, references in templates, functions.

### Walk and Subsume

`Walk` is the walk of one query, one call or return at a time, so that the answers it
assumes and remembers are states.

| variable | code |
|---|---|
| `gdoc`, `sdoc` | the general and the specific document |
| `ctl`, `stack` | the comparison being started or the answer returned, and the calls it is in |
| `frames` | the pairs of bags being compared, each with its lowlink and what waits for it |
| `settled`, `pending` | the memo, and the answers that wait for a pair still running |
| `unfolding` | the recursions unfolded since the walk last entered a bag |
| `overlooked` | history: a shape no rule looks at was met (`Overlooked`), or a choice refuted on one that counts as concrete and is not (`Loose`), or of which an alternative was left undecided |

| actions | code |
|---|---|
| `Answer` | the rows answered outright |
| `Unfold`, `Folded` | `subsumeRecursion` |
| `DistributeEvery`, `EveryNext`, `DistributeSome`, `SomeNext` | the rows of a choice on either side |
| `Recall`, `Assume`, `Enter` | `assume`: settled, running or pending, new |
| `Member`, `Settle` | `subsumeBag` and `settle` |

The order of members and alternatives is left open. `Ruled` is what the rules
make of a pair, given the answers of the pairs they ask about. `Subsume` says what
the answers should be: `Greatest` is the greatest answer consistent with the
rules, found by iteration with nothing assumed and nothing remembered, and
`Holdings` samples which values a
document admits. How two leaves compare is a constant here and `Leaf`'s
subject; `Domainless` are the leaves that say nothing of a domain (a `len`
alone), whose comparison with a map is undecided where any other leaf's is no
(`subsume.ts` 547), and `Counts` says which sizes they take. Defaults, marks and templates that depend on their path are left out.

### Session

Both servers, `wire` telling which. A client writes messages, the pipe hands
over their bytes in chunks cut anywhere, and the server handles what a chunk
completes before it reads the next.

| variable | code |
|---|---|
| `sent`, `pipe` | what the client wrote, and what of it no chunk has brought |
| `buffer` | the codec's bytes or text not yet used |
| `docs`, `setting`, `shutdown`, `running` | `LspHandler`'s fields and the process |
| `out`, `handled`, `cut` | what was written back; history |

| actions | code |
|---|---|
| `Send` | the client, which keeps to the protocol |
| `Push`, `Unreadable` | `FrameCodec.push`, `LineCodec.push`, and what does not parse |
| `Initialize`, `Shutdown`, `Exit`, `DidOpenOrChange`, `DidClose`, `Ask` | the methods of `lsp.ts` |
| `Call` | a tool of `mcp.ts` |
| `Unknown`, `Notice` | an unknown request refused by its id, what has no id not answered |
| `HangUp` | end of input |

Bytes are units: what a codec looks for is told apart, the rest of a body is as
many units as name it, two of them one character where the text is `Wide`. What
is computed of a text is the text with the settings it is computed under.

### MCMeet, MCChoice, MCSubsume, MCSession

The vocabularies of those runs. `ResidualProofs`, `MeetProofs` and `SessionProofs`
are the proofs.

## What the runs check

The `Project` runs have two releases of each package; that is the least with a
raise, and the graphs are the least with the shape the name says. Faults are
bounded by `MaxFaults` and `MaxMishaps`; the cache may be cleaned and releases
published without bound.

| run | world and environment | shows |
|---|---|---|
| `Mixed` | a@1 needs b@2 under an alias, a@2 only b@1, c raises a, both releases of b mean the same, an unusable key; sync, frozen and tidy; fetches refused, cache cleaned | `LockIsHighestMinima`, `TreesFound` |
| `Faults` | a needs b; sync, frozen, get, remove; one death or exception anywhere, or one tree edited, cut short, robbed of its main file, removed or put there by hand; releases appearing | `TypeOK`, `OfflineBuild`, `MinimaAreMet`, `EmptyPinsAreRefused`, `TakenBack`, `KeepsPromise` |
| `Again` | a and b need and raise each other; sync, remove, vendor, refreeze; two hand copies, cache cleaned, fetches refused, an engine upgrade | `Idempotent`, `VerbsEnd` |
| `Acquire` | a diamond of four packages, one that needs itself, one with an unusable key, one that moves; two clients, one death, outage, rollback or withdrawal; any number of removals that throw | `TypeOK`, `StoreIsVerified`, `CacheStandsAlone`, `AcquiredIsFiled`, `NoRollbackTaken` |
| `Registry` | three versions, one retracting, one moving, one breaking; two publishers of distinct versions, one past the gate; a proxy and a client; one death or outage | `TypeOK`, `ListedIsComplete`, `ProxyKeepsGood`, `NeverRolledBack`, `SendIsWhole`, `MoveIsFinal`, `NeverReused`, `GateIsCurrent` |
| `Meet` | 32 terms, of which three in one document: bounds and divisors of four number leaves, texts, paths, sizes, tests; every value of the vocabulary tried | `TypeOK`, `MeetIsExact`, `OrderFree`, `CoverIsSound`, `MeetIsBelow` |
| `Choice` | 27 terms, of which three in one document: choices, defaults of two ranks, maps with optional keys, seals and templates, choices of maps; 22 values tried | `TypeOK`, `ChoiceIsExact`, `DefaultIsFree` |
| `Subsume` | every pair of 58 documents: seals, templates, optional keys, lists, choices, a length, and recursions that unroll, take turns, never end or hold nothing | `TypeOK`, `VerdictIsGreatest`, `YesIsBelow`, `NoHasWitness`, `WalkEnds` |
| `Session` | either server, four messages, one of them written in an unusual way, two documents, texts of narrow and wide characters | `TypeOK`, `HandledAsSent`, `ShownIsCurrent`, `AnsweredAsAsked` |

`MaxDepth` 3 and `MaxClosure` 4 are `LIMITS.depth` and `LIMITS.closure` made small
enough to be reached: the world has a chain of three, a package that needs
itself meets the depth, and two runs in one context meet the closure. One
mishap is enough for every single failure at every point; two in one behaviour
are not explored. Two clients, or two publishers, are the least that interleave.

Three terms (`MaxTerms`) are the least in which a grouping matters, and two
parts the least that can be grouped; a part may repeat a term. In `Choice` a
term with a default is written once, for a default written twice outranks
itself by design; nothing is added to what has failed, which stays failed; and
the first term goes to the left part, which only names the parts.

Four messages (`MaxSent`) let a document be opened, changed, closed or asked
about after an `initialize`; at most `MaxOdd` of them is written in an unusual
way and at most `MaxAhead` are written that no chunk has brought, which is
enough for a chunk that ends one message and starts another. `Alike` swaps the
two documents, which no rule tells apart and no liveness property depends on.

The properties, in words:

* `LockIsHighestMinima`: after a sync that answers ok the version of every lock
  entry is the highest minimum the project or a locked package's vendored tree
  asks for, no more and no less, and nothing asked for is missing.
* `OfflineBuild`: every locked tree is vendored, has the pinned bytes and
  evaluates with the cache gone.
* `MinimaAreMet`: no locked tree is older than its entry says (a copy without a
  version is taken at its word).
* `TakenBack`: a `get` or `remove` that does not answer ok leaves package file,
  lock and vendor tree as they were.
* `KeepsPromise`: every behaviour is one of `Change`.
* `EmptyPinsAreRefused`: whenever a verb died, the lock pins no tree whose main
  file is an error; an empty pin is that of a tree without a main file, and no
  sync that answers ok leaves one, though a tidy may and a sync writes it before
  it answers missing; a lockfile that is not whole pins nothing. Its mutant
  passes over a tree without a main file in the verify.
* `TreesFound`: what a verb found, across the steps in between, is there when it
  is copied or pinned.
* `Idempotent`: a second sync, nothing having happened but cache cleaning and
  publishing, answers ok and changes nothing.
* `VerbsEnd`: every verb ends.
* `StoreIsVerified`: a place of the store holds only a release that means there
  what its publisher's manifest pins, with a lock of one entry a key and its
  direct imports at their minima, whoever replaced whose tree and whoever died.
* `CacheStandsAlone`: as long as no client dies, or throws in the middle of a
  removal, each tree of the store evaluates with what is there or is just being
  put back.
* `AcquiredIsFiled`: under the same condition, what a run was told it has is whole
  in the store or just being put back. The condition (`halfway`) is needed: where
  `rmSync` meets the tree that another client has just filed, it may take part
  of it and throw, and that client was told it has the package. Without it TLC
  refutes both.
* `NoRollbackTaken`: a client goes on from a list only when every version any
  client of the cache was shown is in it or has a tombstone.
* `ListedIsComplete`, `ProxyKeepsGood`: what a list names is there, whole and of
  one build; the proxy, which keeps objects for ever, has kept no torn one. They
  rest on the order of the publisher's writes and of the client's requests.
* `NeverRolledBack`, `SendIsWhole`, `MoveIsFinal`, `GateIsCurrent`: publishers one at
  a time (`overlapped` is false) hide no version from a client, bring list,
  `@latest` and advisory up to date after someone else's death too, send nothing
  after a move, and list nothing that breaks the highest version listed before
  it. Side by side they do not: each reads before it writes, and nothing says
  otherwise. So these four say nothing of the race itself (the lost list entry,
  the gate against a list that has moved on); what they cover is what a death, a
  torn file or a stale copy of the proxy leaves to the next publisher.
* `NeverReused`: the files of a version that was sent never change.
* `MeetIsExact`: the computed meet admits a value exactly when every term it met
  does. A path value among the terms is left out, which stands for its
  extensions too, and of `empty()` what it says of paths.
* `OrderFree`: two parts that met the same terms, in whatever order, grouping and
  sides, hold the same value: ends and exclusions as written, and whether "" is
  refused. Three cases are set apart, each named in the property, and in each the
  order does show: two addresses; an address and `empty()`; and two ends at one
  text of which one is a string and the other an address (`Unmixed`): `tighter`
  (ConstraintVal.ts:1527) keeps the one it met first, and the canonical form prints
  it as it was written.
* `CoverIsSound`, `MeetIsBelow`: where the query says a term covers a part,
  whatever the part takes the term takes; and it says so of every term the part
  met. Set apart, and named in the property: trial schemas, which the query never
  looks into, `empty()`, and parts that met two addresses. The longer of the two
  may leave the bound that admitted the shorter and nothing tests it again (the
  disagreement `PathOrder` shows).
* `ChoiceIsExact`: data meets the document exactly when every term says the
  data, where at most one default is written. Three shapes are set apart, each
  named in the property: a default among alternatives (`PrefersArm`), a default
  that meets alternatives of another term (`Marks`), and an optional key no
  value fits (`Fits`).
* `DefaultIsFree`: two orders of the same terms never generate different values.
* `VerdictIsGreatest`: what the walk assumes, remembers and waits for changes no
  answer, on documents each of whose recursions meets a bag, and where no form that
  counts as concrete holds a recursion on the specific side (`Grounded`). It can only
  in a template: `isConcrete` looks at members alone. A yes for such a form is
  final for its choice, and may rest on a pair still running that ends undecided.
* `YesIsBelow`, `NoHasWitness`: a yes is right for every sampled value, a no has
  one that shows it, but where `Overlooked` says a rule does not look, and, for a
  no, where a choice was refuted on a map that counts as concrete and has an
  optional key or a template (`Loose`; the disagreement `LooseWitness` shows), or
  with an alternative left undecided (`DoubtRefutes`).
* `WalkEnds`: the walk ends, on recursions with nothing in them too.
* `HandledAsSent`: each message handed over whole is handled once, in order and
  as written, however it was cut (for lines, where no chunk ended inside a
  character).
* `ShownIsCurrent`: with nothing left to read an editor shows, for each document,
  the diagnostics of its last text, and none for a closed one.
* `AnsweredAsAsked`: every request is answered once, in order, of the text the
  document had where the request was written.

The type invariant of `Choice` is a normal form: a choice has two arms or more,
no failure, no choice and no arm twice, and what is under a seal is sealed.

`VerbsEnd` is checked under `LiveSpec`, weak fairness of `Continue`: a running
verb is a running process, and every loop of it takes its next step. `WalkEnds`
is checked under weak fairness of `Next`, which is one synchronous computation.
Nothing is assumed of the environment, of faults, or of the user, and a fetch
may be refused at any time.

Deadlock is checked where something can always happen: a verb can start, a
client can ask, a part can meet a term again. It is not in `Choice` (a document
is complete when its terms are used up), `Subsume` (the query is answered) and
`Session` (the session is over).

Every property of every passing run is broken by a mutant of the code, listed in
`PROJECT.json`: operators such as `RaisedFirst`, `StandingAll` or `RestDropped` stand
before the definition they are a variant of.

## Where the code differs from its texts

Each has a configuration that finds the behaviour in a few seconds. The first
three are runs; the others are kept beside them, to be run by hand, as
`tlc -config <name>.cfg` on the MC module of their subject.

| configuration | text | code |
|---|---|---|
| `TornDownload` | "acquisition reads a repository" (`reference-packages.md` 229) | a kept file cut short by a death is read instead, and refused, for ever |
| `RetractedChosen` | a retracted version "is never selected" (`reference-api.md` 3152) | an advisory that is not served counts as one without retractions |
| `ArmWidens` | "A preferred branch contributes exactly its own value to the admitted set" (`reference-language.md` 778) | a choice left with one arm is that arm, a lone preference, whose override space is its kind: `*1 \| 2` with `max(1)` takes 0 |
| `BoundsLost` | "Conjunction is commutative, associative, and idempotent" (`reference-language.md`) | of two preferences of different rank the outranked one is dropped with the bounds it had met (`PrefVal.ts` 137) |
| `DefaultOrder` | the same | for that reason the value generated from two defaults and a bound depends on the grouping |
| `PathOrder` | the same (`reference-language.md` 637) | a bound tests a path when it meets it; met later, the longer address is never tested |
| `EarlySettle` | a yes that assumed a running pair does not settle "before that pair does" (`subsume.ts` 684) | one that assumed a *pending* pair rests on what that pair rested on when it was filed, settles too early, and is wrong in the memo; no answer of a query is known to change |
| `LooseWitness` | "`does_not_subsume` stands only on a value the specific side admits and the general side refuses" (`reference-language.md` 5554) | a map with an optional key, or a template, counts as concrete (`subsume.ts` 197), so a choice none of whose arms admits all of it refutes it: `close({x:1}) \| close({})` over `close({x?:1})` is answered no, and no value shows it |
| `DoubtRefutes` | the same | an alternative that is left undecided is, for a concrete value, counted with the refused ones (`subsume.ts` 434): `len(0) \| 1` over `close({})` is answered no, and `{}` is in both |
| `PartialMember` | an optional key "drops a value that fails to resolve" (`reference-language.md` 924) | a map under an optional key whose member fails to generate is put in the output without that member (`BagVal.ts` 184): `{x?: {x: 1, y: integer}}` generates `{x: {x: 1}}`, which the document does not admit |
| `SplitCharacter` | the line codec reads "exactly as the LSP's FrameCodec is" (`mcp-server.ts` 50) | each chunk is decoded by itself (64), so a character cut in two becomes two replacement characters |
| `FrozenLeavesBuild` | "a frozen sync that refuses leaves the locked build whole" (`pkg-net.ts` 1100) | the vendor tree is replaced before the lock text is compared |
| `PartialTree` | verify checks "each file against the kept manifest" (`reference-api.md` 3331) | only the files present: a copy cut short by a crash is locked and verified |
| `ErrorMeansBroken` | exit 4: a module that does not evaluate on its own (`reference-api.md` 3157) | released trees are evaluated against the lock about to be replaced |
| `OlderTree` | "a dependency is a minimum version" (`reference-api.md` 3063) | of two releases with one meaning the older tree may be locked as the newer |
| `SharedPlace` | "a synced project evaluates with no cache and no network" (`reference-api.md` 3121) | where two releases with one meaning need different things, the place of the store in which a sync found the one may hold the other when it is copied, whose needs were never bid: a dependency is then pinned from the old vendor tree and pruned, and the sync answers ok |
| `PublisherContext` | "evaluated in its publisher's context, which is what its canon pins" (`pkg-net.ts` 860) | a direct dependency is pinned at its declared minimum even where the closure, and the publisher's lock, raised it: the package is refused everywhere |

Met on the way and given no configuration: a residual that met `empty()` goes on
admitting a path, which `empty()` itself refuses (`Settled` in `Meet`); a waiver
written inside a group counts as if it stood beside it; the shapes of
`Overlooked`; a recursion that is only itself is answered no where the language
reference says undecided; a default that meets overlapping alternatives loses
overrides, as in `(1 | integer) & *1`, which refuses 2 (`Marks` in `Choice`).

`Idempotent`, `MinimaAreMet`, `OfflineBuild` and `LockIsHighestMinima` hold in the
passing runs, whose worlds lack the shape that breaks them: no release lowers a
minimum where `Idempotent` is checked (where one does, the evaluation against
the old lock may answer error the second time), no two releases share a meaning
where `MinimaAreMet` is, and releases that share one need the same where the
other two are. The theorems say that nothing else breaks them.

## What is proved

### The project

From the assumptions on the constants alone (`KeyAssumption`, `PkgAssumption`,
`WorldAssumption`, `ProjectAssumption`: finitely many keys with distinct ranks,
dep blocks over the keys), for every world, set of verbs and set of faults:

* `TypeCorrect`: `Spec => [](TypeOK /\ TreesFound)`. The two are inductive
  together: types need that a copied or pinned tree exists (`NoTree` is no
  entry's tree), and that needs types. `TreesFound` says, for each phase, why:
  a directory remembered in `dirs` still holds a tree because later fetches of
  the run only file trees under other canons or replace a tree by a tree, and
  because nothing but the verb touches the cache; a package not in `rmissing`
  is found at every higher version too, because it was looked up again when it
  was raised.
* `FrozenLockKept`: `Spec => FrozenKeepsLock`. The invariant needed, `FrozenInv`:
  a frozen verb is never in a step that edits or undoes, and past the comparison
  `newlock = lock`.
* `BidsRise`: `Spec => BidsOnlyRise`, from the types and lemmas on `Raise`.
* `ChangesAreTakenBack`: `Spec => []TakenBack`. The strengthening `UndoInv` follows
  the undo: after each of its steps one more part of the project equals the
  snapshot, and a changing verb that answers anything but ok has gone through
  all of them.
* `LockIsSound`: `Spec => []EmptyPinsAreRefused`. The strengthening has three parts.
  `SoundInv` says what the lock may pin of `newlock` too, and of the lock in the
  snapshot, which the undo writes back. `VerbInv` ties a verb's steps to its name,
  so that only a sync is taken for one. `Meant` says that once a sync has answered
  ok no entry has the empty canon: its verify has found every tree with a main
  file, and the pins to be what those trees mean.
* `ChangeImplemented`: `Spec => KeepsPromise`, the refinement. Initial states map
  to initial states, a step that starts a verb to `Begin`, one that ends it to
  `Answer` or `Die`, every other of a verb to a stutter. What the last step needs
  of all the steps before it is `ChangeInv`: what the running verb has done to
  the package file so far is what it was asked for, what it may not write
  equals the snapshot, and no tree of the snapshot is gone before the lock was
  found writable.

`FrozenKeepsLock` and `BidsOnlyRise` are proved and belong to no run.

* `TreesStayFound`: `Spec => []TreesFound`, from `TypeCorrect`.

The second half of `ProjectProofs` proves what a sync promises of its lock, of
worlds restricted by a hypothesis on the releases, without which the code does not keep the promise:

* `OneDepBlock` (releases of a package that mean the same need the same) gives
  `LocksAreHighestMinima`, `Spec => []LockIsHighestMinima`, and `BuildsAreOffline`,
  `Spec => []OfflineBuild`; without it `SharedPlace` refutes both. The cache may be
  cleaned, releases appear, fetches be refused and verbs die at any point.
  The inductive invariant `LockInv` follows the two walks. `Bidden`: the trees the
  sync has read ask for no more than it has selected, and whatever was refiled
  under a directory it remembers asks for the same. `Rounds`: what the
  resolve has selected or has in its frontier is asked for by the project or by
  a tree it read, and what they ask for is selected or in the frontier, all
  within what the sync bid. So, when no frontier raises anything, the selection
  is the highest minimum both ways, and no more than the sync copied.
  `Written` carries this from the pinned entries to the lock written, through
  the pruning, which drops only what is not in it; `Standalone` adds that each
  entry was pinned from the vendor tree and evaluated against it.
* `DistinctMeanings` (no two releases of a package mean the same) gives
  `MinimaAreMetByTrees`, `Spec => []MinimaAreMet`; without it `OlderTree` refutes
  it. `VersionInv` says that a tree read is of the version bid or higher until it
  is pinned.
* `DistinctMeanings` with `RisingNeeds` (a release needs no less than the one before
  it) gives `SyncIsIdempotent`, `Spec => []Idempotent`: a second sync answers ok,
  unless it is refused or dies, and leaves lock and vendor tree alone. Two
  invariants. `LeastInv`: a choice of versions is closed when it is at or above
  what is declared and at or above what its own releases need. Everything a sync
  bids is at or below every closed choice; here the needs have to rise, for what
  is read on the way up must not ask for more than the release selected at
  the end. What the resolve selects is closed, so it is what was bid: the lock is
  the least closed choice, each entry pinning the vendored tree as it stands.
  `RedoInv` follows the second sync: the locked versions being closed, it bids
  nothing above them, and nothing below is enough, so it ends where the first
  did, finds every tree in place, copies and prunes nothing, pins the same
  digests and verifies.

### Acquisition and the cache

From `AcquireAssumption` alone (any number of clients, packages and releases,
any caps):

* `AcquireTypes`: `Spec => []TypeOK`. What makes it inductive is the shape of a
  stack (`ClientOK`): each frame is the callee of the one beneath it, below the
  depth cap, and a run counts at most `MaxClosure` packages.
* `StoresAreVerified`: `Spec => []StoreIsVerified`. What is put in a place was
  unpacked and compared with its manifest by the client that renames it, and its
  frame still says so (`FrameInv`).
* `TheCacheStandsAlone` and `WhatIsAcquiredIsFiled`: `Spec => []CacheStandsAlone`,
  `Spec => []AcquiredIsFiled`. The invariant `Stands` covers the window in which a
  client has removed a tree and not yet renamed its own into the place: a torn
  or missing tree is one that a running client is about to put back, with the
  same meaning; every whole tree, and every tree about to be filed, holds with
  what is there or coming. It is void once a removal stopped halfway
  (`StandInv`), as the two properties are.
* `RollbacksAreDetected`: `Spec => NoRollbackTaken`, from `shown \subseteq seen`.

### Publishing and the proxy

From `RegistryAssumption` (a publisher is neither "absent" nor "torn", which are
the other contents of a file), for any versions, publishers and mishaps:

* `RegistryTypes`: `Spec => []TypeOK`.
* `ListedReleasesAreComplete`, `ProxyKeepsWholeReleases`, `SentIsNeverRewritten`:
  `ListedIsComplete`, `ProxyKeepsGood` and `NeverReused`, where no two publishers
  may publish one version (`DistinctBuilds`; two builds of one version side by
  side do overwrite each other, as `version_exists` is tested before the first
  file is written). `OneAtATimeIsComplete` trades the hypothesis for history: the
  first two hold until two publishers were at work at once. `ReleaseInv`: a version
  is *public* once somebody may have read that it exists (it is in a list,
  served, kept, held by a publisher who is rewriting the list, or by a client);
  what is public is complete, and a file is opened for writing only while its
  version is not public.
* `ListsAreNeverRolledBack`, `SendsAreWhole`, `MovesAreFinal`, `GatesAreCurrent`:
  the four about publishers that work one at a time. `OrderInv`: the list never
  drops a version a client or the proxy holds, and a publisher past its
  gate has gated against the list that still stands.

### The meet

From `SpellingAssumption`, `OpensAssumption`, `HoldsAssumption` (one address opening another is a strict order, a test is a set of values,
every address starts with `$` or a dot, a term as written has met nothing and is normalised), `AddressAssumption` and `TermsAssumption`, for any number of
terms, texts, paths and tests:

* `MergedIsIntersection`: two residuals merged admit exactly the intersection.
  `EmptyAdmitsNothing`: one refused as empty admits nothing, by an argument per
  rule: crossed ends, ends that meet at an excluded value, a divisor with no
  multiple between, whole sizes with none left.
* `UniteExact`, over every pair of leaf values, flags and paths included,
  and `MeetTypes`, `MeetExactness`: `Spec => []TypeOK`, `Spec => []MeetIsExact`. The
  strengthening `IInv` is the two with `PartInv`: a part waives the refusal of ""
  only where `empty()` is among its terms, and is a path only where a term is.
  Without it the next meet with "", or with a longer address, would not be exact.
* `CoverSoundness`: `Spec => []CoverIsSound`, from `CoversTakes` and, for residuals,
  `CoversAdmits`: each row of the query that says yes is sound.
* `MeetsAreBelow`: `Spec => []MeetIsBelow`. What the query answers is no invariant
  by itself: a text that met a bound lies inside the string kind, until a
  trial schema joins the bound and the query no longer sees through the two.
  `Under` says what a value that met a term *is* (its flags, ends, divisors,
  exclusions or its own value), every meet keeps it (`UniteUnder`), and `UnderCovers`
  shows the query finds it. `BelowInv` adds that a part's address is that of one
  of its terms, so that one address among them never grows.

* `MeetOrderFree`: `Spec => []OrderFree`. Equal meets of equal terms cannot be
  shown step by step, for the two parts take different steps. The way round is an
  order of the values: `Heeds(a, u)` says that `u` keeps everything `a` says (its
  ends, exclusions, divisors and tests, what it owes and what it waives). It is
  transitive, `UniteIsGreatest` shows the meet of two values to be the widest
  value that keeps both, rule by rule, and so every part holds the widest that
  keeps its terms (`OrderInv`). Two parts with one set of terms therefore keep each
  other, and two values that do are shown alike (`HeedsSame`): this is where the
  normal form of the divisors is needed, and where two ends at one text tell apart
  only by who was first.

### The subsumption query

From `WalkAssumption` (a document holds what it refers to, and the forms its own
are made of), for any documents, leaves and tables of leaves, recursions that
meet no bag included:

* `WalkTypes`: `Spec => []TypeOK`. What waits is held by exactly one running pair,
  which depends on no less than it does; what runs is neither settled nor
  waiting; no pair runs twice. `Counted` and `Holds` tie the bags on the stack to
  the frames, one to one.
* `WalkExact`: `Spec => []VerdictIsExact`. A *claim* answers every pair, and no pair
  better than the rules make it from the claim's own answers. No claim answers the
  pair asked about better than the walk does, and one answers it as the walk does:
  the greatest answer the rules allow is the walk's, whatever order the members
  come in. This is `VerdictIsGreatest` with "greatest" said by quantifiers, where the
  run finds it by iteration. `Graded` asks what the run's `Guarded` does, a rank
  that unfolding a recursion lowers and no choice raises; the second half, for an
  undecided answer, asks `Plain`, the run's `Grounded`. TLC showed that neither
  can be left out: each of the two was added when a run found a counterexample.
* `WalkYes`: `Spec => []YesIsSimulated`, which asks neither. When the query answers yes there is a set of
  pairs, the one asked about among them, that the rules say yes to with every pair
  of the set taken as yes: a simulation, which nothing was assumed to find. The
  coinductive reading of the walk is `Justified`: for each bag on the stack a set
  of pairs is kept, closed under the rules but for the pairs still open below it,
  and the answers settled, waiting and returned lie in such sets. A pair assumed
  is open by definition (`Open`), so the set of a bag that ends with yes leans only
  on what is below it, and that of the outermost on nothing. One thing remains,
  a bag that ends with less than yes after others have leant on it. Outside a
  choice it is `Broken`: whatever is above it in the stack is not saved by another
  alternative, so the whole query does not answer yes. Inside a choice nothing is
  settled.

The argument for `WalkExact` has two halves. *No better*: `FitInv` says of every claim
that each answer settled, returned or gathered in a frame is at least the
claim's. A pair assumed is answered yes, which is at least anything, so only the answers
given outright, and what a recursion met again answers, could fall short; `RankInv`
shows that the latter does not happen between two bags (`Unrecursed`). *No worse*: a
no is claimed by everything, a yes by the set of `WalkYes`, and an undecided
answer by the claim built in `ClaimOfBears`. It says yes to `Good`, the pairs with a
simulation of their own, and undecided to the pairs that the invariant
`Tolerated` collects: those the rules do not refute given that none of the
collected is refuted. A choice is tolerated where each concrete alternative is
in `Good`, so a yes for such a one must lean on nothing that runs. It does not
(`SureInv`): below a form in `C`, a set without recursions closed under parts
(`Solid`), positions only get longer (`Deep`), so no pair under it meets itself. What
has failed for good, outside every choice, is `Refuted`, as `Broken` is for yes,
and stays so (`FailsStays`).

### The servers

From `SessionAssumption` (a wide text is a text, the two servers, natural
bounds), for any documents, texts and settings, every way of writing a message
the model has, and every way of cutting the bytes:

* `SessionTypes`: `Spec => []TypeOK`, and with it that what a turn takes spells one
  message at most.
* `MessagesAreHandledAsSent`, `EditorsSeeTheirText`, `RequestsAreAnsweredInOrder`:
  `Spec => []HandledAsSent`, `Spec => []ShownIsCurrent`, `Spec => []AnsweredAsAsked`.

None of these is inductive: each speaks of what was handled, and what will be
handled is in units spread over a buffer and a pipe. `Laid` is what is missing.
It reads buffer and pipe as one stream and says where in it each message not
yet handled ends; what is between two such places spells that message, up to
half characters. A chunk moves units from the pipe to the buffer and
leaves the stream alone (`PushedLaid`), a message written lengthens it
(`AddedLaid`), and a turn takes exactly the first piece, or its prologue
where a block without a length or an empty line comes first (`FrameTurn`,
`LineTurn`). So the next message handled is the next one sent. `CutInv` says
where a half character can be: a character whose second half is first in the
pipe was cut, and the buffer has a replacement only where one was.
`ServerInv` and `ReplyInv` then hold message by message: the documents and the
settings are those the client had written up to the last message handled, each
editor was shown what they say, and the numbered replies are those due.

### Only model-checked

Everything of `Choice`, and `YesIsBelow` and `NoHasWitness` of `Subsume`: they are
recursive over the structure of values and declare RECURSIVE operators, which
the prover's arithmetic back end does not take. That is why `Walk`, which does
without, is a module of its own. `VerdictIsGreatest` is there too, for its iteration
and the two conditions on documents are such operators; `WalkExact` proves what it says. And `VerbsEnd` and `WalkEnds`, for
liveness is out of this prover's reach, and ENABLED with it.

## What is not modelled

The fixpoint loop of the evaluator with its budgets, references, functions,
lists in meets, `open()`, aliases, marks, and templates that refer; infinite
bounds; the boolean kind. Defaults, marks and path-dependent templates in
`subsume`, and the reports that `compat` and `diff` build on it. What a language
server computes of a text, and what a tool computes of its arguments.

The end of every `acquire` under fairness (its caps fire, but the two-client
state space is too large for the liveness check); two publishers of one
version; two requests to the proxy at once, and its death; the upload of a
publish; two verbs at once on one project; the cache cleaned while a verb runs;
forbidden files; imports with an explicit hash, moved packages, private names
and their bases; the text edits of `editDeps` and its refusals (which change
nothing); the loop of `vet --watch`.

Parsing, formatting, JSON Schema, views and queries are functions from one
document to one text with no state, decided by their wording and layout; the Go
port is a second implementation held to the same test corpus. Everything else
marked so in the table of components is in no module for the reason given there.
