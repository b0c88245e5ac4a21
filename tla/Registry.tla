------------------------------ MODULE Registry ------------------------------
(***************************************************************************)
(* A repository directory (ts/src/pkg-net.ts): publishers that add         *)
(* releases of one package to it (pkgPublish --to, writeLayout), a caching *)
(* proxy in front of it (serveObject), and a client behind the proxy that  *)
(* chooses a version and fetches it (selectVersion, acquire).              *)
(*                                                                         *)
(* Publishers are processes of their own: nothing locks the directory, and *)
(* every file is written in place.  A publisher's step is one read, the    *)
(* opening of a file it writes, or the end of that write.                  *)
(***************************************************************************)
EXTENDS Naturals, FiniteSets

CONSTANTS
  MaxVersion,
  Publisher,
  Builds,        \* the versions each publisher may publish
  Against,       \* the publishers that name the prior tree themselves
  Retracts,      \* the versions each version's manifest retracts
  Moved,         \* the versions whose manifest declares `moved`
  Breaking,      \* <<old, new>> that the compatibility gate tells apart
  Mishaps,       \* "crash", "outage"
  MaxMishaps     \* bound: how often

VARIABLES
  file,          \* the directory: pkg/.../@v/<version>.zip, .manifest, .sig
  list,          \* pkg/.../@v/list
  latest,        \* pkg/.../@latest
  advisory,      \* advisory/...
  keptFile, keptList, keptAdvisory,    \* the proxy's copies
  pub,           \* the publishers
  client,        \* the client
  seen,          \* its first-seen records
  sent,          \* history: the releases a publisher was told it sent
  overlapped,    \* history: two publishers were at work at once
  mishaps, died  \* bound, and history: whether a publisher ever died

directory == <<file, list, latest, advisory>>
kept == <<keptFile, keptList, keptAdvisory>>
behind == <<kept, client, seen>>
history == <<sent, overlapped, mishaps, died>>
vars == <<directory, behind, pub, history>>

Version == 1 .. MaxVersion
File == {"zip", "manifest", "sig"}

ASSUME RegistryAssumption ==
  /\ MaxVersion \in Nat \ {0}
  /\ IsFiniteSet(Publisher) /\ Publisher \cap {"absent", "torn"} = {}
  /\ Builds \in [Publisher -> SUBSET Version] /\ Against \subseteq Publisher
  /\ Retracts \in [Version -> SUBSET Version]
  /\ Moved \subseteq Version /\ Breaking \subseteq Version \X Version
  /\ MaxMishaps \in Nat

(***************************************************************************)
(* What a file holds.  Two publishers' builds of one version differ, in    *)
(* `published` if in nothing else; a proof holds for its own manifest.     *)
(***************************************************************************)
Content == {"absent", "torn"} \cup Publisher
Document(X) == [is : {"absent", "torn", "whole"}, says : SUBSET X]
Absent == [is |-> "absent", says |-> {}]
Torn == [is |-> "torn", says |-> {}]
Whole(s) == [is |-> "whole", says |-> s]

Complete(objects) == \E p \in Publisher : \A o \in File : objects[o] = p

NewestOf(versions) == {v \in versions : \A u \in versions : u <= v}

\* The pairs <<retracted, by>> that manifests declare.
RetractedBy(versions) == UNION {Retracts[v] \X {v} : v \in versions}

(***************************************************************************)
(* Types.                                                                  *)
(***************************************************************************)
Places == {"idle", "gate", "scan", "zip", "manifest", "sig", "read", "list",
           "latest", "advisory"}

\* The locals of pkgPublish and writeLayout: the version, the manifests found,
\* the list read, and whether a file is open.
Work == [at : Places, v : 0 .. MaxVersion,
         found : SUBSET Version, old : SUBSET Version, open : BOOLEAN]
Idle == [at |-> "idle", v |-> 0, found |-> {}, old |-> {}, open |-> FALSE]

\* The locals of an acquire: the list read, the version chosen, its manifest.
Errand == [at : {"idle", "advisory", "newest", "manifest", "sig", "zip"},
           listed : SUBSET Version, v : 0 .. MaxVersion, body : Content]
NoErrand == [at |-> "idle", listed |-> {}, v |-> 0, body |-> "absent"]

TypeOK ==
  /\ file \in [Version -> [File -> Content]]
  /\ keptFile \in [Version -> [File -> Content]]
  /\ list \in Document(Version) /\ keptList \in Document(Version)
  /\ latest \in 0 .. MaxVersion
  /\ advisory \in Document(Version \X Version)
  /\ keptAdvisory \in Document(Version \X Version)
  /\ pub \in [Publisher -> Work] /\ client \in Errand
  /\ \A p \in Publisher : pub[p].v = 0 <=> pub[p].at = "idle"
  /\ client.v = 0 <=> client.at \in {"idle", "advisory"}
  /\ seen \subseteq Version /\ sent \subseteq Version
  /\ overlapped \in BOOLEAN /\ mishaps \in 0 .. MaxMishaps /\ died \in BOOLEAN

NoFiles == [v \in Version |-> [o \in File |-> "absent"]]

Init ==
  /\ file = NoFiles /\ list = Absent /\ latest = 0 /\ advisory = Absent
  /\ keptFile = NoFiles /\ keptList = Absent /\ keptAdvisory = Absent
  /\ pub = [p \in Publisher |-> Idle]
  /\ client = NoErrand /\ seen = {}
  /\ sent = {} /\ overlapped = FALSE /\ mishaps = 0 /\ died = FALSE

Mishap(m) == m \in Mishaps /\ mishaps < MaxMishaps /\ mishaps' = mishaps + 1

(***************************************************************************)
(* A publish: the gate, the scan, the files.                               *)
(***************************************************************************)
At(p, place) == pub[p].at = place
Running(p) == ~At(p, "idle")
Becomes(p, w) == pub' = [pub EXCEPT ![p] = w]

\* Mutant of Ends: the version is not forgotten.
EndsBusy(p) == Becomes(p, [pub[p] EXCEPT !.at = "idle", !.open = FALSE])

Ends(p) == Becomes(p, Idle)
Goes(p, place) == Becomes(p, [pub[p] EXCEPT !.at = place, !.open = FALSE])
Opens(p) == Becomes(p, [pub[p] EXCEPT !.open = TRUE])

Begin(p) ==
  /\ ~Running(p)
  /\ \E v \in Builds[p] : Becomes(p, [Idle EXCEPT !.at = "gate", !.v = v])
  /\ overlapped' = (overlapped \/ \E q \in Publisher \ {p} : Running(q))
  /\ UNCHANGED <<directory, behind, sent, mishaps, died>>

\* Mutant of Predecessor: the release first listed.
FirstListed == {v \in list.says : \A u \in list.says : v <= u}

\* What a candidate is compared with: the highest version listed.
Predecessor == NewestOf(list.says)

\* What the gate refuses: a list that does not parse, a version listed, a
\* predecessor that cannot be read, that moved or that the candidate breaks.
\* It is passed over where no list is served and where --against names a
\* prior tree.
Refused(p) ==
  /\ list.is # "absent" /\ p \notin Against
  /\ \/ list.is = "torn" \/ pub[p].v \in list.says
     \/ \E u \in Predecessor :
          ~Complete(file[u]) \/ u \in Moved \/ <<u, pub[p].v>> \in Breaking

Gate(p) ==
  /\ At(p, "gate")
  /\ IF Refused(p) THEN Ends(p) ELSE Goes(p, "scan")
  /\ UNCHANGED <<directory, behind, history>>

\* The manifests in the directory, and those of them that parse.
Existing == {v \in Version : file[v]["manifest"] # "absent"}
Readable == {v \in Existing : file[v]["manifest"] # "torn"}

\* Mutant of Frozen: the list says what was published.
FrozenByList(p) == pub[p].v \in list.says

\* version_exists, path_moved.
Frozen(p) == pub[p].v \in Existing \/ Readable \cap Moved # {}

Scan(p) ==
  /\ At(p, "scan")
  /\ IF Frozen(p) THEN Ends(p)
     ELSE Becomes(p, [pub[p] EXCEPT !.at = "zip", !.found = Readable])
  /\ UNCHANGED <<directory, behind, history>>

\* Mutant of After: the proof is written when the release is listed.
AfterListed(place) ==
  CASE place = "zip" -> "manifest" [] place = "manifest" -> "read"
    [] place = "list" -> "sig"     [] place = "sig" -> "latest"

\* The archive, the manifest, the proof, then the list.
After(place) ==
  CASE place = "zip" -> "manifest" [] place = "manifest" -> "sig"
    [] place = "sig" -> "read"     [] place = "list" -> "latest"

OpenObject(p, o) ==
  /\ At(p, o) /\ ~pub[p].open
  /\ file' = [file EXCEPT ![pub[p].v][o] = "torn"]
  /\ Opens(p)
  /\ UNCHANGED <<list, latest, advisory, behind, history>>

CloseObject(p, o) ==
  /\ At(p, o) /\ pub[p].open
  /\ file' = [file EXCEPT ![pub[p].v][o] = p]
  /\ Goes(p, After(o))
  /\ UNCHANGED <<list, latest, advisory, behind, history>>

\* The list is read, a torn one as an empty one, and written with the version.
ReadList(p) ==
  /\ At(p, "read")
  /\ Becomes(p, [pub[p] EXCEPT !.at = "list", !.old = list.says])
  /\ UNCHANGED <<directory, behind, history>>

\* Mutant of Relisted: the list starts again with this version.
RelistedAlone(p) == {pub[p].v}

Relisted(p) == pub[p].old \cup {pub[p].v}

OpenList(p) ==
  /\ At(p, "list") /\ ~pub[p].open
  /\ list' = Torn
  /\ Opens(p)
  /\ UNCHANGED <<file, latest, advisory, behind, history>>

CloseList(p) ==
  /\ At(p, "list") /\ pub[p].open
  /\ list' = Whole(Relisted(p))
  /\ Goes(p, After("list"))
  /\ UNCHANGED <<file, latest, advisory, behind, history>>

\* @latest is read by no client here: the write is one step.
WriteLatest(p) ==
  /\ At(p, "latest")
  /\ \E v \in NewestOf(Relisted(p)) : latest' = v
  /\ Goes(p, "advisory")
  /\ UNCHANGED <<file, list, advisory, behind, history>>

\* Mutant of Retractions: what this version's own manifest says.
RetractionsOwn(p) == RetractedBy({pub[p].v})

\* The advisory is derived anew from the manifests found and the version's.
Retractions(p) == RetractedBy(pub[p].found \cup {pub[p].v})

OpenAdvisory(p) ==
  /\ At(p, "advisory") /\ ~pub[p].open
  /\ advisory' = Torn
  /\ Opens(p)
  /\ UNCHANGED <<file, list, latest, behind, history>>

CloseAdvisory(p) ==
  /\ At(p, "advisory") /\ pub[p].open
  /\ advisory' = Whole(Retractions(p))
  /\ Ends(p)
  /\ sent' = sent \cup {pub[p].v}
  /\ UNCHANGED <<file, list, latest, behind, overlapped, mishaps, died>>

\* A publisher dies where it stands: what it was writing stays torn.
Die(p) ==
  /\ Mishap("crash")
  /\ Running(p)
  /\ Ends(p)
  /\ died' = TRUE
  /\ UNCHANGED <<directory, behind, sent, overlapped>>

Publish(p) ==
  \/ Begin(p) \/ Gate(p) \/ Scan(p)
  \/ \E o \in File : OpenObject(p, o) \/ CloseObject(p, o)
  \/ ReadList(p) \/ OpenList(p) \/ CloseList(p) \/ WriteLatest(p)
  \/ OpenAdvisory(p) \/ CloseAdvisory(p) \/ Die(p)

(***************************************************************************)
(* The proxy.  A mutable document is fetched again for every request and   *)
(* the copy kept answers only when the directory does not; an object is    *)
(* fetched once.  The client makes one request at a time.                  *)
(***************************************************************************)
\* Whether the directory answers: TRUE, or FALSE in an outage.
Reached(up) == IF up THEN UNCHANGED mishaps ELSE Mishap("outage")

ServedDocument(up, doc, copy) == IF up /\ doc.is # "absent" THEN doc ELSE copy

ServedObject(up, v, o) ==
  IF keptFile[v][o] # "absent" THEN keptFile[v][o]
  ELSE IF up THEN file[v][o] ELSE "absent"

(***************************************************************************)
(* The client: list, advisory, the choice, the newest manifest for a move, *)
(* then the manifest, the proof and the archive of what it chose.          *)
(***************************************************************************)
Stop == client' = NoErrand
world == <<directory, pub, sent, overlapped, died>>

\* A list that is not served, does not parse or hides a version seen ends it.
ListServed(up) ==
  /\ client.at = "idle" /\ Reached(up)
  /\ LET doc == ServedDocument(up, list, keptList) IN
       /\ keptList' = doc
       /\ seen' = seen \cup doc.says
       /\ IF doc.is = "whole" /\ seen \subseteq doc.says
            THEN client' = [NoErrand EXCEPT !.at = "advisory", !.listed = doc.says]
            ELSE Stop
  /\ UNCHANGED <<keptFile, keptAdvisory, world>>

\* What may be chosen is not retracted; of the rest, which is the newest past
\* its cooldown is left open.  An advisory that is absent, torn or not served
\* retracts nothing.
Selectable(retracted) ==
  {v \in client.listed : \A pair \in retracted : pair[1] # v}

AdvisoryServed(up) ==
  /\ client.at = "advisory" /\ Reached(up)
  /\ LET doc == ServedDocument(up, advisory, keptAdvisory) IN
       /\ keptAdvisory' = doc
       /\ \/ Stop
          \/ \E v \in Selectable(doc.says) :
               client' = [client EXCEPT !.at = "newest", !.v = v]
  /\ UNCHANGED <<keptFile, keptList, seen, world>>

\* An object is asked for, and kept; the acquire goes on from a good one.
Served(up, v, o, good, then) ==
  LET body == ServedObject(up, v, o) IN
  /\ Reached(up)
  /\ keptFile' = [keptFile EXCEPT ![v][o] = body]
  /\ IF body \in good
       THEN client' = [client EXCEPT !.at = then, !.body = body] ELSE Stop
  /\ UNCHANGED <<keptList, keptAdvisory, seen, world>>

\* Nothing follows a move, declared by the newest version or the one chosen.
Good(v) == IF v \in Moved THEN {} ELSE Publisher

NewestServed(up) ==
  /\ client.at = "newest"
  /\ \E v \in NewestOf(client.listed) : Served(up, v, "manifest", Good(v), "manifest")

ManifestServed(up) ==
  /\ client.at = "manifest"
  /\ Served(up, client.v, "manifest", Good(client.v), "sig")

ProofServed(up) ==
  /\ client.at = "sig"
  /\ Served(up, client.v, "sig", {client.body}, "zip")

ArchiveServed(up) ==
  /\ client.at = "zip"
  /\ Reached(up)
  /\ keptFile' = [keptFile EXCEPT ![client.v]["zip"] = ServedObject(up, client.v, "zip")]
  /\ Stop
  /\ UNCHANGED <<keptList, keptAdvisory, seen, world>>

Request ==
  \E up \in BOOLEAN :
    \/ ListServed(up) \/ AdvisoryServed(up) \/ NewestServed(up)
    \/ ManifestServed(up) \/ ProofServed(up) \/ ArchiveServed(up)

Next ==
  \/ \E p \in Publisher : Publish(p)
  \/ Request

Spec == Init /\ [][Next]_vars

(***************************************************************************)
(* Properties.                                                             *)
(***************************************************************************)
\* A listed release can be fetched: its three files are there, whole and of
\* one build, whoever else is publishing and wherever a publisher died.
ListedIsComplete == \A v \in list.says : Complete(file[v])

\* The proxy keeps objects for ever, so it must never keep one that was
\* being written: each is the directory's own, and its release is complete.
ProxyKeepsGood ==
  \A v \in Version, o \in File : keptFile[v][o] # "absent" =>
    keptFile[v][o] = file[v][o] /\ Complete(file[v])

\* While one publisher works at a time and none dies, no list that is served,
\* stale ones included, hides a version the client has seen.
NeverRolledBack ==
  ~overlapped /\ ~died /\ keptList.is = "whole" => seen \subseteq keptList.says

\* A publish that answers sent has brought the directory up to date: the
\* release listed, @latest the newest listed, the advisory what all the
\* manifests there declare, those of publishers that died included.
SendIsWhole ==
  [][sent' # sent /\ ~overlapped =>
       /\ sent' \ sent \subseteq list.says
       /\ latest \in NewestOf(list.says)
       /\ advisory'.says = RetractedBy(Readable)]_vars

\* Nothing is sent after a release that moves the package.
MoveIsFinal == [][sent' # sent /\ ~overlapped => sent \cap Moved = {}]_vars

\* A version that was sent is never published again.
NeverReused == [][\A v \in sent : file'[v] = file[v]]_vars

\* What is listed is compatible with the highest version listed before it,
\* unless its publisher named another to be compared with.
GateIsCurrent ==
  [][\A p \in Publisher : At(p, "list") /\ list'.is = "whole" /\ list.is = "torn"
        /\ p \notin Against /\ ~overlapped
       => \A u \in NewestOf(pub[p].old) : <<u, pub[p].v>> \notin Breaking]_vars

(***************************************************************************)
(* What the reference says and the code does not do.                       *)
(***************************************************************************)
\* "A version that a later version retracted is never selected": no version is
\* chosen that the advisory of the directory retracts at that moment.
RetractedNotChosen ==
  [][client.at = "advisory" =>
       \A pair \in advisory.says : client'.v # pair[1]]_vars
=============================================================================
