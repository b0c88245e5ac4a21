---------------------------- MODULE RegistryProofs ----------------------------
(***************************************************************************)
(* Theorems about the repository directory, the proxy and the client, for  *)
(* every set of publishers, versions, builds, mishaps and manifests.       *)
(***************************************************************************)
EXTENDS Registry, TLAPS

(***************************************************************************)
(* Type correctness.                                                       *)
(***************************************************************************)
LEMMA Documents ==
  /\ \A X : Absent \in Document(X) /\ Torn \in Document(X)
  /\ \A X : \A s \in SUBSET X : Whole(s) \in Document(X)
  /\ \A up, X : \A doc, copy \in Document(X) :
       ServedDocument(up, doc, copy) \in Document(X)
BY DEF Document, Absent, Torn, Whole, ServedDocument

LEMMA Works ==
  /\ Idle \in Work /\ NoErrand \in Errand
  /\ \A w \in Work : \A b \in BOOLEAN : [w EXCEPT !.open = b] \in Work
  /\ \A w \in Work : \A place \in Places : \A b \in BOOLEAN :
       [w EXCEPT !.at = place, !.open = b] \in Work
<1>1. Idle \in Work
  BY RegistryAssumption DEF Idle, Work, Places
<1>2. NoErrand \in Errand
  BY RegistryAssumption DEF NoErrand, Errand, Content
<1>3. \A w \in Work : \A b \in BOOLEAN : [w EXCEPT !.open = b] \in Work
  BY DEF Work
<1>4. ASSUME NEW w \in Work, NEW place \in Places, NEW b \in BOOLEAN
      PROVE  [w EXCEPT !.at = place, !.open = b] \in Work
  BY DEF Work
<1> QED BY <1>1, <1>2, <1>3, <1>4

LEMMA Versions ==
  /\ Version \subseteq Nat /\ 0 \notin Version
  /\ \A v \in Version : v \in 0 .. MaxVersion
  /\ \A p \in Publisher : Builds[p] \subseteq Version
BY RegistryAssumption DEF Version

LEMMA NewestIsOne ==
  ASSUME NEW S \in SUBSET Version
  PROVE  NewestOf(S) \subseteq S
BY DEF NewestOf

LEMMA RetractionTypes ==
  ASSUME NEW S \in SUBSET Version
  PROVE  RetractedBy(S) \in SUBSET (Version \X Version)
BY RegistryAssumption DEF RetractedBy

LEMMA TypeInit == Init => TypeOK
<1> SUFFICES ASSUME Init PROVE TypeOK
  OBVIOUS
<1>1. NoFiles \in [Version -> [File -> Content]]
  BY DEF NoFiles, Content
<1>2. pub \in [Publisher -> Work] /\ client \in Errand
  BY Works DEF Init
<1>3. \A p \in Publisher : pub[p].v = 0 <=> pub[p].at = "idle"
  BY DEF Init, Idle
<1>4. client.v = 0 <=> client.at \in {"idle", "advisory"}
  BY DEF Init, NoErrand
<1>5. latest \in 0 .. MaxVersion /\ mishaps \in 0 .. MaxMishaps
  BY RegistryAssumption DEF Init
<1> QED BY <1>1, <1>2, <1>3, <1>4, <1>5, Documents DEF Init, TypeOK

\* A publisher's record is replaced by another.
LEMMA BecomesTypes ==
  ASSUME TypeOK, NEW p \in Publisher, NEW w \in Work, Becomes(p, w),
         w.v = 0 <=> w.at = "idle"
  PROVE  /\ pub' \in [Publisher -> Work]
         /\ \A q \in Publisher : pub'[q].v = 0 <=> pub'[q].at = "idle"
BY DEF TypeOK, Becomes

LEMMA BeginTypes ==
  ASSUME TypeOK, NEW p \in Publisher, Begin(p)
  PROVE  TypeOK'
<1>1. PICK v \in Builds[p] : Becomes(p, [Idle EXCEPT !.at = "gate", !.v = v])
  BY DEF Begin
<1>2. v \in Version /\ v \in 0 .. MaxVersion /\ v # 0
  BY Versions
<1>3. [Idle EXCEPT !.at = "gate", !.v = v] \in Work
  BY <1>2 DEF Idle, Work, Places
<1>4. /\ pub' \in [Publisher -> Work]
      /\ \A q \in Publisher : pub'[q].v = 0 <=> pub'[q].at = "idle"
  BY <1>1, <1>2, <1>3 DEF TypeOK, Becomes, Idle
<1> QED BY <1>4 DEF TypeOK, Begin, directory, behind, kept

\* What the steps of a publisher make of its record.
LEMMA MoveTypes ==
  ASSUME TypeOK, NEW p \in Publisher, Running(p)
  PROVE  /\ Ends(p) =>
              /\ pub' \in [Publisher -> Work]
              /\ \A q \in Publisher : pub'[q].v = 0 <=> pub'[q].at = "idle"
         /\ Opens(p) =>
              /\ pub' \in [Publisher -> Work]
              /\ \A q \in Publisher : pub'[q].v = 0 <=> pub'[q].at = "idle"
         /\ \A place \in Places \ {"idle"} : Goes(p, place) =>
              /\ pub' \in [Publisher -> Work]
              /\ \A q \in Publisher : pub'[q].v = 0 <=> pub'[q].at = "idle"
<1>1. pub[p] \in Work /\ pub[p].at # "idle" /\ pub[p].v # 0
  BY DEF TypeOK, Running, At
<1>2. Ends(p) =>
              /\ pub' \in [Publisher -> Work]
              /\ \A q \in Publisher : pub'[q].v = 0 <=> pub'[q].at = "idle"
  <2>1. Idle \in Work /\ Idle.v = 0 /\ Idle.at = "idle"
    BY Works DEF Idle
  <2> QED BY <2>1, BecomesTypes DEF Ends
<1>3. Opens(p) =>
              /\ pub' \in [Publisher -> Work]
              /\ \A q \in Publisher : pub'[q].v = 0 <=> pub'[q].at = "idle"
  <2> DEFINE w == [pub[p] EXCEPT !.open = TRUE]
  <2>1. w \in Work
    BY <1>1, Works
  <2>2. w.v = pub[p].v /\ w.at = pub[p].at
    BY <1>1 DEF Work
  <2> QED BY <1>1, <2>1, <2>2, BecomesTypes DEF Opens
<1>4. ASSUME NEW place \in Places \ {"idle"}, Goes(p, place)
      PROVE  /\ pub' \in [Publisher -> Work]
             /\ \A q \in Publisher : pub'[q].v = 0 <=> pub'[q].at = "idle"
  <2> DEFINE w == [pub[p] EXCEPT !.at = place, !.open = FALSE]
  <2>1. w \in Work
    BY <1>1, Works
  <2>2. w.v = pub[p].v /\ w.at = place
    BY <1>1 DEF Work
  <2> QED BY <1>1, <1>4, <2>1, <2>2, BecomesTypes DEF Goes
<1> QED BY <1>2, <1>3, <1>4

\* The steps that leave the directory alone.
LEMMA LookTypes ==
  ASSUME TypeOK, NEW p \in Publisher, Gate(p) \/ Scan(p) \/ ReadList(p) \/ Die(p)
  PROVE  TypeOK'
<1>1. Running(p) /\ pub[p] \in Work /\ pub[p].v # 0
  BY DEF Gate, Scan, ReadList, Die, Running, At, TypeOK
<1>2. /\ pub' \in [Publisher -> Work]
      /\ \A q \in Publisher : pub'[q].v = 0 <=> pub'[q].at = "idle"
  <2>1. CASE Ends(p) \/ Goes(p, "scan")
    BY <1>1, <2>1, MoveTypes DEF Places
  <2>2. CASE Becomes(p, [pub[p] EXCEPT !.at = "zip", !.found = Readable])
    <3> DEFINE w == [pub[p] EXCEPT !.at = "zip", !.found = Readable]
    <3>1. w \in Work /\ w.v = pub[p].v /\ w.at = "zip"
      BY <1>1 DEF Work, Places, Readable, Existing
    <3> QED BY <1>1, <2>2, <3>1, BecomesTypes
  <2>3. CASE Becomes(p, [pub[p] EXCEPT !.at = "list", !.old = list.says])
    <3> DEFINE w == [pub[p] EXCEPT !.at = "list", !.old = list.says]
    <3>1. list.says \in SUBSET Version
      BY DEF TypeOK, Document
    <3>2. w \in Work /\ w.v = pub[p].v /\ w.at = "list"
      BY <1>1, <3>1 DEF Work, Places
    <3> QED BY <1>1, <2>3, <3>2, BecomesTypes
  <2> QED BY <2>1, <2>2, <2>3 DEF Gate, Scan, ReadList, Die
<1>3. mishaps' \in 0 .. MaxMishaps
  BY RegistryAssumption DEF Gate, Scan, ReadList, Die, Mishap, TypeOK, history
<1> QED BY <1>2, <1>3 DEF TypeOK, Gate, Scan, ReadList, Die, directory, behind, kept, history

\* One file of one version is written; what the others hold is not.
LEMMA Written ==
  ASSUME NEW f \in [Version -> [File -> Content]], NEW v \in Version,
         NEW o \in File, NEW c \in Content
  PROVE  /\ [f EXCEPT ![v][o] = c] \in [Version -> [File -> Content]]
         /\ [f EXCEPT ![v][o] = c][v] = [f[v] EXCEPT ![o] = c]
         /\ \A u \in Version \ {v} : [f EXCEPT ![v][o] = c][u] = f[u]
<1>1. f[v] \in [File -> Content]
  OBVIOUS
<1>2. [f[v] EXCEPT ![o] = c] \in [File -> Content]
  BY <1>1
<1> QED BY <1>2

LEMMA ObjectTypes ==
  ASSUME TypeOK, NEW p \in Publisher, NEW o \in File,
         OpenObject(p, o) \/ CloseObject(p, o)
  PROVE  TypeOK'
<1>1. o # "idle" /\ After(o) \in Places \ {"idle"}
  BY DEF File, After, Places
<1>2. Running(p)
  BY <1>1 DEF OpenObject, CloseObject, Running, At
<1>3. /\ pub' \in [Publisher -> Work]
      /\ \A q \in Publisher : pub'[q].v = 0 <=> pub'[q].at = "idle"
  BY <1>1, <1>2, MoveTypes DEF OpenObject, CloseObject
<1>4. "torn" \in Content /\ p \in Content
  BY DEF Content
<1>5. pub[p].v \in Version
  BY <1>2, RegistryAssumption DEF TypeOK, Running, At, Work, Version
<1>6. file' \in [Version -> [File -> Content]]
  <2>1. file \in [Version -> [File -> Content]]
    BY DEF TypeOK
  <2>2. PICK c \in Content : file' = [file EXCEPT ![pub[p].v][o] = c]
    BY <1>4 DEF OpenObject, CloseObject
  <2> QED BY <1>5, <2>1, <2>2, Written
<1> QED BY <1>3, <1>6 DEF TypeOK, OpenObject, CloseObject, behind, kept, history

LEMMA ListingTypes ==
  ASSUME TypeOK, NEW p \in Publisher,
         OpenList(p) \/ CloseList(p) \/ WriteLatest(p) \/ OpenAdvisory(p) \/ CloseAdvisory(p)
  PROVE  TypeOK'
<1>1. Running(p) /\ pub[p] \in Work /\ pub[p].v # 0
  BY DEF OpenList, CloseList, WriteLatest, OpenAdvisory, CloseAdvisory, Running, At, TypeOK
<1>2. pub[p].v \in Version /\ pub[p].old \subseteq Version /\ pub[p].found \subseteq Version
  BY <1>1, RegistryAssumption DEF Work, Version
<1>3. Relisted(p) \in SUBSET Version
  BY <1>2 DEF Relisted
<1>4. Retractions(p) \in SUBSET (Version \X Version)
  <2>1. pub[p].found \cup {pub[p].v} \in SUBSET Version
    BY <1>2
  <2> QED BY <2>1, RetractionTypes DEF Retractions
<1>5. After("list") = "latest"
  BY DEF After
<1>6. /\ pub' \in [Publisher -> Work]
      /\ \A q \in Publisher : pub'[q].v = 0 <=> pub'[q].at = "idle"
  BY <1>1, <1>5, MoveTypes DEF OpenList, CloseList, WriteLatest, OpenAdvisory, CloseAdvisory, Places
<1>7. list' \in Document(Version)
  BY <1>3, Documents DEF OpenList, CloseList, WriteLatest, OpenAdvisory, CloseAdvisory, TypeOK
<1>8. advisory' \in Document(Version \X Version)
  BY <1>4, Documents DEF OpenList, CloseList, WriteLatest, OpenAdvisory, CloseAdvisory, TypeOK
<1>9. latest' \in 0 .. MaxVersion
  BY <1>3, Versions, NewestIsOne DEF OpenList, CloseList, WriteLatest, OpenAdvisory, CloseAdvisory, TypeOK
<1>10. sent' \subseteq Version
  BY <1>2 DEF OpenList, CloseList, WriteLatest, OpenAdvisory, CloseAdvisory, TypeOK, history
<1> QED BY <1>6, <1>7, <1>8, <1>9, <1>10
        DEF TypeOK, OpenList, CloseList, WriteLatest, OpenAdvisory, CloseAdvisory, behind, kept, history

(***************************************************************************)
(* The proxy and the client.                                               *)
(***************************************************************************)
LEMMA ReachedTypes ==
  ASSUME TypeOK, NEW up \in BOOLEAN, Reached(up)
  PROVE  mishaps' \in 0 .. MaxMishaps
BY RegistryAssumption DEF TypeOK, Reached, Mishap

LEMMA StopTypes ==
  ASSUME Stop
  PROVE  client' \in Errand /\ (client'.v = 0 <=> client'.at \in {"idle", "advisory"})
BY Works DEF Stop, NoErrand

LEMMA ListServedTypes ==
  ASSUME TypeOK, NEW up \in BOOLEAN, ListServed(up)
  PROVE  TypeOK'
<1> DEFINE doc == ServedDocument(up, list, keptList)
<1>1. doc \in Document(Version) /\ doc.says \subseteq Version
  BY Documents DEF TypeOK, Document
<1>2. keptList' = doc /\ seen' = seen \cup doc.says
  BY DEF ListServed
<1>3. client' \in Errand /\ (client'.v = 0 <=> client'.at \in {"idle", "advisory"})
  <2>1. CASE client' = [NoErrand EXCEPT !.at = "advisory", !.listed = doc.says]
    <3>1. NoErrand \in Errand /\ NoErrand.v = 0
      BY Works DEF NoErrand
    <3> QED BY <1>1, <2>1, <3>1 DEF Errand
  <2>2. CASE Stop
    BY <2>2, StopTypes
  <2> QED BY <2>1, <2>2 DEF ListServed
<1> QED BY <1>1, <1>2, <1>3, ReachedTypes DEF ListServed, TypeOK, world, directory

LEMMA AdvisoryServedTypes ==
  ASSUME TypeOK, NEW up \in BOOLEAN, AdvisoryServed(up)
  PROVE  TypeOK'
<1> DEFINE doc == ServedDocument(up, advisory, keptAdvisory)
<1>1. doc \in Document(Version \X Version)
  BY Documents DEF TypeOK
<1>2. keptAdvisory' = doc
  BY DEF AdvisoryServed
<1>3. client' \in Errand /\ (client'.v = 0 <=> client'.at \in {"idle", "advisory"})
  <2>1. ASSUME NEW v \in Selectable(doc.says),
               client' = [client EXCEPT !.at = "newest", !.v = v]
        PROVE  client' \in Errand /\ (client'.v = 0 <=> client'.at \in {"idle", "advisory"})
    <3>1. v \in Version
      BY DEF Selectable, TypeOK, Errand
    <3>2. v \in 0 .. MaxVersion /\ v # 0
      BY <3>1, Versions
    <3> QED BY <2>1, <3>2 DEF TypeOK, Errand
  <2>2. CASE Stop
    BY <2>2, StopTypes
  <2> QED BY <2>1, <2>2 DEF AdvisoryServed
<1> QED BY <1>1, <1>2, <1>3, ReachedTypes DEF AdvisoryServed, TypeOK, world, directory

LEMMA ServedObjectTypes ==
  ASSUME TypeOK, NEW up \in BOOLEAN, NEW v \in Version, NEW o \in File
  PROVE  /\ ServedObject(up, v, o) \in Content
         /\ [keptFile EXCEPT ![v][o] = ServedObject(up, v, o)] \in [Version -> [File -> Content]]
<1>1. ServedObject(up, v, o) \in Content
  BY DEF TypeOK, ServedObject, Content
<1> QED BY <1>1, Written DEF TypeOK

LEMMA ServedTypes ==
  ASSUME TypeOK, NEW up \in BOOLEAN, NEW v \in Version, NEW o \in File,
         NEW good, NEW then \in {"manifest", "sig", "zip"},
         Served(up, v, o, good, then), client.v # 0
  PROVE  TypeOK'
<1> DEFINE body == ServedObject(up, v, o)
<1>1. client' \in Errand /\ (client'.v = 0 <=> client'.at \in {"idle", "advisory"})
  <2>1. CASE client' = [client EXCEPT !.at = then, !.body = body]
    BY <2>1, ServedObjectTypes DEF TypeOK, Errand
  <2>2. CASE Stop
    BY <2>2, StopTypes
  <2> QED BY <2>1, <2>2 DEF Served
<1> QED BY <1>1, ReachedTypes, ServedObjectTypes DEF Served, TypeOK, world, directory

LEMMA ArchiveServedTypes ==
  ASSUME TypeOK, NEW up \in BOOLEAN, ArchiveServed(up)
  PROVE  TypeOK'
<1>1. client.v \in Version /\ "zip" \in File
  BY RegistryAssumption DEF TypeOK, ArchiveServed, Errand, Version, File
<1> QED BY <1>1, StopTypes, ReachedTypes, ServedObjectTypes
        DEF ArchiveServed, TypeOK, world, directory

LEMMA RequestTypes ==
  ASSUME TypeOK, Request
  PROVE  TypeOK'
<1>1. PICK up \in BOOLEAN :
        \/ ListServed(up) \/ AdvisoryServed(up) \/ NewestServed(up)
        \/ ManifestServed(up) \/ ProofServed(up) \/ ArchiveServed(up)
  BY DEF Request
<1>2. client.at \in {"newest", "manifest", "sig", "zip"} => client.v \in Version /\ client.v # 0
  BY RegistryAssumption DEF TypeOK, Errand, Version
<1>3. CASE NewestServed(up)
  <2>1. PICK v \in NewestOf(client.listed) :
          Served(up, v, "manifest", Good(v), "manifest")
    BY <1>3 DEF NewestServed
  <2>2. v \in Version
    BY <2>1, NewestIsOne DEF TypeOK, Errand
  <2> QED BY <1>2, <1>3, <2>1, <2>2, ServedTypes DEF NewestServed, File
<1>4. CASE ManifestServed(up)
  BY <1>2, <1>4, ServedTypes DEF ManifestServed, File
<1>5. CASE ProofServed(up)
  BY <1>2, <1>5, ServedTypes DEF ProofServed, File
<1> QED BY <1>1, <1>3, <1>4, <1>5, ListServedTypes, AdvisoryServedTypes, ArchiveServedTypes

LEMMA TypeStep == TypeOK /\ [Next]_vars => TypeOK'
<1> SUFFICES ASSUME TypeOK, [Next]_vars PROVE TypeOK'
  OBVIOUS
<1>1. ASSUME NEW p \in Publisher, Publish(p) PROVE TypeOK'
  BY <1>1, BeginTypes, LookTypes, ObjectTypes, ListingTypes DEF Publish
<1>2. CASE Request
  BY <1>2, RequestTypes
<1>3. CASE UNCHANGED vars
  BY <1>3 DEF TypeOK, vars, directory, behind, kept, history
<1> QED BY <1>1, <1>2, <1>3 DEF Next

\* Every state keeps its type, whatever publishers, builds and mishaps there are.
THEOREM RegistryTypes == Spec => []TypeOK
BY TypeInit, TypeStep, PTL DEF Spec

(***************************************************************************)
(* Releases are complete.  Publishers are kept apart by the versions they  *)
(* may publish, or by time; then a publisher at work owns its version: it  *)
(* is public nowhere and no proxy holds a file of it until its last file   *)
(* is written.                                                             *)
(***************************************************************************)
DistinctBuilds ==
  \A p, q \in Publisher : p # q => Builds[p] \cap Builds[q] = {}

Separate == DistinctBuilds \/ ~overlapped

\* What a publisher works on, and that only one works when none overlapped.
OwnWork ==
  /\ \A p \in Publisher : Running(p) => pub[p].v \in Builds[p]
  /\ ~overlapped => \A p, q \in Publisher : Running(p) /\ Running(q) => p = q

\* The versions somebody was told of.
Public ==
  list.says \cup keptList.says \cup client.listed \cup sent
    \cup UNION {pub[p].old : p \in Publisher}

Writing == {"zip", "manifest", "sig"}
Listing == {"read", "list", "latest", "advisory"}

PublicIsComplete == \A v \in Public : Complete(file[v])

WritingIsPrivate ==
  \A p \in Publisher : pub[p].at \in Writing =>
    /\ pub[p].v \notin Public
    /\ \A o \in File : keptFile[pub[p].v][o] = "absent"

WrittenSoFar ==
  \A p \in Publisher :
    /\ pub[p].at \in {"manifest", "sig"} \cup Listing => file[pub[p].v]["zip"] = p
    /\ pub[p].at \in {"sig"} \cup Listing => file[pub[p].v]["manifest"] = p
    /\ pub[p].at \in Listing => file[pub[p].v]["sig"] = p

ChosenIsListed ==
  client.at \in {"newest", "manifest", "sig", "zip"} => client.v \in client.listed

Releases ==
  /\ PublicIsComplete /\ ProxyKeepsGood
  /\ WritingIsPrivate /\ WrittenSoFar /\ ChosenIsListed

ReleaseInv == OwnWork /\ (Separate => Releases)

(***************************************************************************)
(* The directory as one publisher at a time leaves it.                     *)
(***************************************************************************)
Held == seen \cup keptList.says

\* Unless a publisher died, the list holds every version the client or the
\* proxy has seen, in the file or in the hands of the one that rewrites it.
ListGrows ==
  /\ list.is # "torn" => Held \subseteq list.says
  /\ list.is = "torn" => \E p \in Publisher : At(p, "list") /\ pub[p].open
  /\ \A p \in Publisher : At(p, "list") => Held \cup list.says \subseteq pub[p].old
  /\ keptList.is = "whole" => seen \subseteq keptList.says

\* What the scan found, and what the list and @latest are brought to.
Listed(p) ==
  /\ pub[p].at \in Writing \cup Listing =>
       /\ pub[p].found = Readable \ {pub[p].v}
       /\ sent \cap Moved = {}
  /\ pub[p].at \in {"latest", "advisory"} => list = Whole(Relisted(p))
  /\ At(p, "advisory") => latest \in NewestOf(list.says)

\* What the gate let pass.
Gated(p) ==
  p \notin Against =>
    /\ pub[p].at \in {"scan", "read"} \cup Writing =>
         \A u \in NewestOf(list.says) : <<u, pub[p].v>> \notin Breaking
    /\ At(p, "list") =>
         \A u \in NewestOf(pub[p].old) : <<u, pub[p].v>> \notin Breaking

\* A list that is not whole says nothing.
Blank ==
  /\ list.is # "whole" => list.says = {}
  /\ keptList.is # "whole" => keptList.says = {}

OrderInv ==
  /\ Blank
  /\ ~overlapped => /\ ~died => ListGrows
                    /\ \A p \in Publisher : Listed(p) /\ Gated(p)

(***************************************************************************)
(* What the steps of a publisher do to its record.                         *)
(***************************************************************************)
LEMMA Effects ==
  ASSUME TypeOK, NEW p \in Publisher, NEW w, Becomes(p, w)
  PROVE  pub'[p] = w /\ \A q \in Publisher \ {p} : pub'[q] = pub[q]
BY DEF TypeOK, Becomes

LEMMA GoesEffects ==
  ASSUME TypeOK, NEW p \in Publisher, NEW place, Goes(p, place)
  PROVE  /\ pub'[p].at = place /\ pub'[p].open = FALSE
         /\ pub'[p].v = pub[p].v /\ pub'[p].found = pub[p].found /\ pub'[p].old = pub[p].old
         /\ \A q \in Publisher \ {p} : pub'[q] = pub[q]
<1>1. pub[p] \in Work
  BY DEF TypeOK
<1> QED BY <1>1 DEF Goes, Becomes, TypeOK, Work

LEMMA OpensEffects ==
  ASSUME TypeOK, NEW p \in Publisher, Opens(p)
  PROVE  /\ pub'[p].at = pub[p].at /\ pub'[p].open = TRUE
         /\ pub'[p].v = pub[p].v /\ pub'[p].found = pub[p].found /\ pub'[p].old = pub[p].old
         /\ \A q \in Publisher \ {p} : pub'[q] = pub[q]
<1>1. pub[p] \in Work
  BY DEF TypeOK
<1> QED BY <1>1 DEF Opens, Becomes, TypeOK, Work

LEMMA EndsEffects ==
  ASSUME TypeOK, NEW p \in Publisher, Ends(p)
  PROVE  /\ pub'[p].at = "idle" /\ pub'[p].v = 0 /\ pub'[p].old = {}
         /\ \A q \in Publisher \ {p} : pub'[q] = pub[q]
BY Effects DEF Ends, Idle

LEMMA ScanEffects ==
  ASSUME TypeOK, NEW p \in Publisher, Scan(p), ~Frozen(p)
  PROVE  /\ pub'[p].at = "zip" /\ pub'[p].found = Readable
         /\ pub'[p].v = pub[p].v /\ pub'[p].old = pub[p].old
         /\ \A q \in Publisher \ {p} : pub'[q] = pub[q]
<1>1. pub[p] \in Work
  BY DEF TypeOK
<1>2. pub' = [pub EXCEPT ![p] = [pub[p] EXCEPT !.at = "zip", !.found = Readable]]
  BY DEF Scan, Becomes
<1> QED BY <1>1, <1>2 DEF TypeOK, Work

LEMMA ReadEffects ==
  ASSUME TypeOK, NEW p \in Publisher, ReadList(p)
  PROVE  /\ pub'[p].at = "list" /\ pub'[p].old = list.says
         /\ pub'[p].v = pub[p].v /\ pub'[p].found = pub[p].found /\ pub'[p].open = pub[p].open
         /\ \A q \in Publisher \ {p} : pub'[q] = pub[q]
<1>1. pub[p] \in Work
  BY DEF TypeOK
<1> QED BY <1>1 DEF ReadList, Becomes, TypeOK, Work

LEMMA BeginEffects ==
  ASSUME TypeOK, NEW p \in Publisher, Begin(p)
  PROVE  /\ pub'[p].at = "gate" /\ pub'[p].v \in Builds[p] /\ pub'[p].old = {}
         /\ \A q \in Publisher \ {p} : pub'[q] = pub[q]
<1>1. PICK v \in Builds[p] : Becomes(p, [Idle EXCEPT !.at = "gate", !.v = v])
  BY DEF Begin
<1> QED BY <1>1 DEF Becomes, TypeOK, Idle

\* After the first step of a publish only the publisher's place moves.
LEMMA WorkGoesOn ==
  ASSUME TypeOK, NEW p \in Publisher, Publish(p), ~Begin(p)
  PROVE  /\ Running(p) /\ overlapped' = overlapped
         /\ pub'[p].at # "idle" => pub'[p].v = pub[p].v
         /\ \A q \in Publisher \ {p} : pub'[q] = pub[q]
<1>1. CASE Gate(p)
  BY <1>1, EndsEffects, GoesEffects DEF Gate, Running, At, history
<1>2. CASE Scan(p)
  BY <1>2, EndsEffects, ScanEffects DEF Scan, Running, At, history
<1>3. ASSUME NEW o \in File, OpenObject(p, o) \/ CloseObject(p, o)
      PROVE  /\ Running(p) /\ overlapped' = overlapped
             /\ pub'[p].at # "idle" => pub'[p].v = pub[p].v
             /\ \A q \in Publisher \ {p} : pub'[q] = pub[q]
  BY <1>3, OpensEffects, GoesEffects DEF OpenObject, CloseObject, Running, At, history, File
<1>4. CASE ReadList(p)
  BY <1>4, ReadEffects DEF ReadList, Running, At, history
<1>5. CASE OpenList(p) \/ OpenAdvisory(p)
  BY <1>5, OpensEffects DEF OpenList, OpenAdvisory, Running, At, history
<1>6. CASE CloseList(p) \/ WriteLatest(p)
  BY <1>6, GoesEffects DEF CloseList, WriteLatest, Running, At, history
<1>7. CASE CloseAdvisory(p) \/ Die(p)
  BY <1>7, EndsEffects DEF CloseAdvisory, Die, Running, At
<1> QED BY <1>1, <1>2, <1>3, <1>4, <1>5, <1>6, <1>7 DEF Publish

(***************************************************************************)
(* OwnWork is inductive.                                                   *)
(***************************************************************************)
LEMMA OwnWorkStep ==
  ASSUME TypeOK, OwnWork, [Next]_vars
  PROVE  OwnWork' /\ (overlapped => overlapped')
<1>1. ASSUME NEW p \in Publisher, Begin(p)
      PROVE  OwnWork' /\ (overlapped => overlapped')
  <2>1. \A q \in Publisher : Running(q)' => pub'[q].v \in Builds[q]
    BY <1>1, BeginEffects DEF OwnWork, Running, At
  <2>2. ~overlapped' => \A q \in Publisher \ {p} : ~Running(q) /\ pub'[q] = pub[q]
    BY <1>1, BeginEffects DEF Begin
  <2>3. ~overlapped' => \A q, r \in Publisher : Running(q)' /\ Running(r)' => q = r
    BY <2>2 DEF Running, At
  <2> QED BY <1>1, <2>1, <2>3 DEF Begin, OwnWork
<1>2. ASSUME NEW p \in Publisher, Publish(p), ~Begin(p)
      PROVE  OwnWork' /\ (overlapped => overlapped')
  BY <1>2, WorkGoesOn DEF OwnWork, Running, At
<1>3. CASE Request
  <2>1. UNCHANGED <<pub, overlapped>>
    BY <1>3 DEF Request, ListServed, AdvisoryServed, NewestServed, ManifestServed,
                ProofServed, ArchiveServed, Served, world
  <2> QED BY <2>1 DEF OwnWork, Running, At
<1>4. CASE UNCHANGED vars
  BY <1>4 DEF vars, history, OwnWork, Running, At
<1> QED BY <1>1, <1>2, <1>3, <1>4 DEF Next

\* Two publishers at work have two versions.
LEMMA TwoVersions ==
  ASSUME OwnWork, Separate, NEW p \in Publisher, NEW q \in Publisher, p # q,
         Running(p), Running(q)
  PROVE  pub[p].v # pub[q].v
BY DEF OwnWork, Separate, DistinctBuilds

(***************************************************************************)
(* Releases is inductive while publishers are separate.                    *)
(***************************************************************************)
\* A publish at its last steps has written its three files.
LEMMA ListingIsComplete ==
  ASSUME WrittenSoFar, NEW p \in Publisher, pub[p].at \in Listing
  PROVE  Complete(file[pub[p].v])
BY DEF WrittenSoFar, Complete, File

\* Steps that write no object and take nobody to the files: what becomes
\* public is what a publisher in Listing wrote.
LEMMA QuietStep ==
  ASSUME TypeOK, OwnWork, Separate, Releases,
         UNCHANGED <<file, keptFile, client>>,
         \A v \in Public' : v \in Public
           \/ \E p \in Publisher : pub[p].at \in Listing /\ pub[p].v = v,
         \A q \in Publisher : pub'[q].at \in Writing =>
           pub'[q].at = pub[q].at /\ pub'[q].v = pub[q].v,
         \A q \in Publisher : pub'[q].at \in Listing =>
           pub[q].at \in Listing /\ pub'[q].v = pub[q].v
  PROVE  Releases'
<1>1. PublicIsComplete'
  BY ListingIsComplete DEF Releases, PublicIsComplete, Complete
<1>2. ProxyKeepsGood'
  BY DEF Releases, ProxyKeepsGood, Complete
<1>3. WritingIsPrivate'
  <2> SUFFICES ASSUME NEW q \in Publisher, pub'[q].at \in Writing
               PROVE  /\ pub'[q].v \notin Public'
                      /\ \A o \in File : keptFile'[pub'[q].v][o] = "absent"
    BY DEF WritingIsPrivate
  <2>1. /\ pub[q].at \in Writing /\ pub'[q].v = pub[q].v
        /\ pub[q].v \notin Public /\ \A o \in File : keptFile[pub[q].v][o] = "absent"
    BY DEF Releases, WritingIsPrivate
  <2>2. pub[q].v \in Version
    BY <2>1, Versions DEF OwnWork, Running, At, Writing
  <2>3. \A p \in Publisher : pub[p].at \in Listing => pub[p].v # pub[q].v
    BY <2>1, TwoVersions DEF Running, At, Writing, Listing
  <2> QED BY <2>1, <2>2, <2>3
<1>4. WrittenSoFar'
  BY DEF Releases, WrittenSoFar, Writing, Listing
<1>5. ChosenIsListed'
  BY DEF Releases, ChosenIsListed
<1> QED BY <1>1, <1>2, <1>3, <1>4, <1>5 DEF Releases

\* What a step of one publisher makes public.
LEMMA PublicAfter ==
  ASSUME NEW p \in Publisher, NEW S,
         \A q \in Publisher \ {p} : pub'[q] = pub[q],
         pub'[p].old \subseteq Public \cup S, list'.says \subseteq Public \cup S,
         sent' \subseteq Public \cup S, UNCHANGED <<keptList, client>>
  PROVE  Public' \subseteq Public \cup S
<1>1. \A q \in Publisher : pub'[q].old \subseteq Public \cup S
  BY DEF Public
<1> QED BY <1>1 DEF Public

LEMMA StartReleases ==
  ASSUME TypeOK, OwnWork, Separate, Releases, NEW p \in Publisher, Begin(p)
  PROVE  Releases'
<1>1. UNCHANGED <<file, keptFile, keptList, client, list, sent>>
  BY DEF Begin, directory, behind, kept
<1>2. Public' \subseteq Public
  BY <1>1, BeginEffects, PublicAfter DEF Public
<1> QED BY <1>1, <1>2, BeginEffects, QuietStep DEF Writing, Listing

LEMMA LookReleases ==
  ASSUME TypeOK, OwnWork, Separate, Releases, NEW p \in Publisher,
         Gate(p) \/ ReadList(p) \/ Die(p)
  PROVE  Releases'
<1>1. UNCHANGED <<file, keptFile, keptList, client, list, sent>>
  BY DEF Gate, ReadList, Die, directory, behind, kept, history
<1>2. Ends(p) \/ Goes(p, "scan") \/ ReadList(p)
  BY DEF Gate, Die
<1>3. /\ pub'[p].old \subseteq Public
      /\ pub'[p].at \notin Writing
      /\ pub'[p].at \in Listing => pub[p].at \in Listing /\ pub'[p].v = pub[p].v
      /\ \A q \in Publisher \ {p} : pub'[q] = pub[q]
  <2>1. pub[p].old \subseteq Public /\ list.says \subseteq Public
    BY DEF Public
  <2>2. CASE Ends(p)
    BY <2>2, EndsEffects DEF Writing, Listing
  <2>3. CASE Goes(p, "scan")
    <3>1. /\ pub'[p].at = "scan" /\ pub'[p].old = pub[p].old
          /\ \A q \in Publisher \ {p} : pub'[q] = pub[q]
      BY <2>3, GoesEffects
    <3> QED BY <2>1, <3>1 DEF Writing, Listing
  <2>4. CASE ReadList(p)
    BY <2>1, <2>4, ReadEffects DEF ReadList, At, Writing, Listing
  <2> QED BY <1>2, <2>2, <2>3, <2>4
<1>4. Public' \subseteq Public
  BY <1>1, <1>3, PublicAfter DEF Public
<1> QED BY <1>1, <1>3, <1>4, QuietStep

LEMMA ListingReleases ==
  ASSUME TypeOK, OwnWork, Separate, Releases, NEW p \in Publisher,
         OpenList(p) \/ CloseList(p) \/ WriteLatest(p) \/ OpenAdvisory(p) \/ CloseAdvisory(p)
  PROVE  Releases'
<1>1. UNCHANGED <<file, keptFile, keptList, client>>
  BY DEF OpenList, CloseList, WriteLatest, OpenAdvisory, CloseAdvisory, behind, kept
<1>2. pub[p].at \in Listing
  BY DEF OpenList, CloseList, WriteLatest, OpenAdvisory, CloseAdvisory, At, Listing
<1>3. Opens(p) \/ Goes(p, "latest") \/ Goes(p, "advisory") \/ Ends(p)
  BY DEF OpenList, CloseList, WriteLatest, OpenAdvisory, CloseAdvisory, After
<1>4. /\ pub'[p].old \subseteq Public
      /\ pub'[p].at \notin Writing
      /\ pub'[p].at \in Listing => pub'[p].v = pub[p].v
      /\ \A q \in Publisher \ {p} : pub'[q] = pub[q]
  <2>1. pub[p].old \subseteq Public
    BY DEF Public
  <2>2. CASE Ends(p)
    BY <2>2, EndsEffects DEF Writing, Listing
  <2>3. CASE Goes(p, "latest") \/ Goes(p, "advisory")
    <3>1. /\ pub'[p].at \in {"latest", "advisory"} /\ pub'[p].old = pub[p].old
          /\ pub'[p].v = pub[p].v /\ \A q \in Publisher \ {p} : pub'[q] = pub[q]
      BY <2>3, GoesEffects
    <3> QED BY <2>1, <3>1 DEF Writing, Listing
  <2>4. CASE Opens(p)
    BY <1>2, <2>1, <2>4, OpensEffects DEF Writing, Listing
  <2> QED BY <1>3, <2>2, <2>3, <2>4
<1>5. list'.says \subseteq Public \cup {pub[p].v} /\ sent' \subseteq Public \cup {pub[p].v}
  BY DEF OpenList, CloseList, WriteLatest, OpenAdvisory, CloseAdvisory, history,
         Torn, Whole, Relisted, Public
<1>6. Public' \subseteq Public \cup {pub[p].v}
  BY <1>1, <1>4, <1>5, PublicAfter
<1> QED BY <1>1, <1>2, <1>4, <1>6, QuietStep

\* A version the scan lets through has no manifest, so nobody knows it.
LEMMA ScanReleases ==
  ASSUME TypeOK, OwnWork, Separate, Releases, NEW p \in Publisher, Scan(p)
  PROVE  Releases'
<1>1. UNCHANGED <<file, keptFile, keptList, client, list, sent>>
  BY DEF Scan, directory, behind, kept, history
<1>2. CASE Frozen(p)
  <2>1. Ends(p)
    BY <1>2 DEF Scan
  <2>2. Public' \subseteq Public
    BY <1>1, <2>1, EndsEffects, PublicAfter DEF Public
  <2> QED BY <1>1, <2>1, <2>2, EndsEffects, QuietStep DEF Writing, Listing
<1>3. CASE ~Frozen(p)
  <2>1. Public' \subseteq Public
    BY <1>1, <1>3, ScanEffects, PublicAfter DEF Public
  <2>2. pub[p].v \in Version
    BY Versions DEF OwnWork, Running, At, Scan
  <2>3. file[pub[p].v]["manifest"] = "absent"
    BY <1>3, <2>2 DEF Frozen, Existing
  <2>4. ~Complete(file[pub[p].v])
    BY <2>3, RegistryAssumption DEF Complete, File
  <2>5. pub[p].v \notin Public /\ \A o \in File : keptFile[pub[p].v][o] = "absent"
    BY <2>2, <2>4 DEF Releases, PublicIsComplete, ProxyKeepsGood
  <2>6. PublicIsComplete'
    BY <1>1, <2>1 DEF Releases, PublicIsComplete, Complete
  <2>7. ProxyKeepsGood'
    BY <1>1 DEF Releases, ProxyKeepsGood, Complete
  <2>8. WritingIsPrivate'
    BY <1>1, <1>3, <2>1, <2>5, ScanEffects DEF Releases, WritingIsPrivate
  <2>9. WrittenSoFar'
    BY <1>1, <1>3, ScanEffects DEF Releases, WrittenSoFar, Listing
  <2>10. ChosenIsListed'
    BY <1>1 DEF Releases, ChosenIsListed
  <2> QED BY <2>6, <2>7, <2>8, <2>9, <2>10 DEF Releases
<1> QED BY <1>2, <1>3

\* A file is opened or closed: only the publisher's own version changes, which
\* nobody knows and no proxy holds.
LEMMA ObjectReleases ==
  ASSUME TypeOK, OwnWork, Separate, Releases, NEW p \in Publisher, NEW o \in File,
         OpenObject(p, o) \/ CloseObject(p, o)
  PROVE  Releases'
<1> DEFINE v == pub[p].v
<1>1. UNCHANGED <<keptFile, keptList, client, list, sent>>
  BY DEF OpenObject, CloseObject, behind, kept, history
<1>2. pub[p].at = o /\ o \in Writing /\ v \in Version /\ Running(p)
  BY Versions DEF OpenObject, CloseObject, At, File, Writing, OwnWork, Running
<1>3. v \notin Public /\ \A x \in File : keptFile[v][x] = "absent"
  BY <1>2 DEF Releases, WritingIsPrivate
<1>4. PICK c \in Content : file' = [file EXCEPT ![v][o] = c] /\ (CloseObject(p, o) => c = p)
  BY DEF OpenObject, CloseObject, Content, At
<1>5. /\ file'[v] = [file[v] EXCEPT ![o] = c]
      /\ \A u \in Version \ {v} : file'[u] = file[u]
  <2>1. file \in [Version -> [File -> Content]]
    BY DEF TypeOK
  <2> QED BY <1>2, <1>4, <2>1, Written
<1>6. /\ pub'[p].v = v /\ pub'[p].old = pub[p].old
      /\ pub'[p].at = IF CloseObject(p, o) THEN After(o) ELSE o
      /\ \A q \in Publisher \ {p} : pub'[q] = pub[q]
  BY <1>2, OpensEffects, GoesEffects DEF OpenObject, CloseObject
<1>7. Public' \subseteq Public
  BY <1>1, <1>6, PublicAfter DEF Public
<1>8. Public \subseteq Version
  BY DEF Public, TypeOK, Document, Errand, Work
<1>9. \A q \in Publisher \ {p} : Running(q) => pub[q].v # v /\ pub[q].v \in Version
  BY <1>2, TwoVersions, Versions DEF OwnWork
<1>10. PublicIsComplete'
  BY <1>3, <1>5, <1>7, <1>8 DEF Releases, PublicIsComplete, Complete
<1>11. ProxyKeepsGood'
  <2> SUFFICES ASSUME NEW u \in Version, NEW x \in File, keptFile[u][x] # "absent"
               PROVE  keptFile[u][x] = file'[u][x] /\ Complete(file'[u])
    BY <1>1 DEF ProxyKeepsGood, Complete
  <2>1. u # v
    BY <1>3
  <2> QED BY <1>5, <2>1 DEF Releases, ProxyKeepsGood
<1>12. WritingIsPrivate'
  <2>1. /\ v \notin Public' /\ \A x \in File : keptFile'[v][x] = "absent"
    BY <1>1, <1>3, <1>7
  <2>2. ASSUME NEW q \in Publisher \ {p}, pub[q].at \in Writing
        PROVE  pub[q].v \notin Public' /\ \A x \in File : keptFile'[pub[q].v][x] = "absent"
    BY <1>1, <1>7, <2>2 DEF Releases, WritingIsPrivate
  <2> QED BY <1>6, <2>1, <2>2 DEF WritingIsPrivate
<1>13. WrittenSoFar'
  <2>1. ASSUME NEW q \in Publisher \ {p}
        PROVE  /\ pub'[q].at \in {"manifest", "sig"} \cup Listing => file'[pub'[q].v]["zip"] = q
               /\ pub'[q].at \in {"sig"} \cup Listing => file'[pub'[q].v]["manifest"] = q
               /\ pub'[q].at \in Listing => file'[pub'[q].v]["sig"] = q
    <3>1. pub[q].at \in {"manifest", "sig"} \cup Listing => file'[pub[q].v] = file[pub[q].v]
      BY <1>5, <1>9 DEF Running, At, Listing
    <3> QED BY <1>6, <3>1 DEF Releases, WrittenSoFar
  <2>2. /\ pub'[p].at \in {"manifest", "sig"} \cup Listing => file'[v]["zip"] = p
        /\ pub'[p].at \in {"sig"} \cup Listing => file'[v]["manifest"] = p
        /\ pub'[p].at \in Listing => file'[v]["sig"] = p
    <3>1. file[v] \in [File -> Content]
      BY <1>2 DEF TypeOK
    <3>2. /\ o \in {"manifest", "sig"} => file[v]["zip"] = p
          /\ o = "sig" => file[v]["manifest"] = p
      BY <1>2 DEF Releases, WrittenSoFar
    <3>3. file'[v][o] = c /\ \A x \in File \ {o} : file'[v][x] = file[v][x]
      BY <1>5, <3>1
    <3>4. CASE o = "zip"
      BY <1>4, <1>6, <3>3, <3>4 DEF After, File, Listing
    <3>5. CASE o = "manifest"
      BY <1>4, <1>6, <3>2, <3>3, <3>5 DEF After, File, Listing
    <3>6. CASE o = "sig"
      BY <1>4, <1>6, <3>2, <3>3, <3>6 DEF After, File, Listing
    <3> QED BY <3>4, <3>5, <3>6 DEF File
  <2> QED BY <1>6, <2>1, <2>2 DEF WrittenSoFar
<1>14. ChosenIsListed'
  BY <1>1 DEF Releases, ChosenIsListed
<1> QED BY <1>10, <1>11, <1>12, <1>13, <1>14 DEF Releases

\* A request: what the proxy or the client now knows was public, and a file
\* the proxy now keeps is one of a public version.
LEMMA AskReleases ==
  ASSUME TypeOK, Releases, UNCHANGED <<file, pub, list, sent>>,
         keptList'.says \subseteq Public, client'.listed \subseteq Public,
         \A u \in Version, x \in File : keptFile'[u][x] # keptFile[u][x] =>
           u \in Public /\ keptFile'[u][x] \in {"absent", file[u][x]},
         ChosenIsListed'
  PROVE  Releases'
<1>1. Public' \subseteq Public
  BY DEF Public
<1>2. PublicIsComplete'
  BY <1>1 DEF Releases, PublicIsComplete, Complete
<1>3. ProxyKeepsGood'
  BY DEF Releases, ProxyKeepsGood, PublicIsComplete, Complete
<1>4. WritingIsPrivate'
  <2> SUFFICES ASSUME NEW p \in Publisher, pub[p].at \in Writing, NEW o \in File
               PROVE  pub[p].v \notin Public' /\ keptFile'[pub[p].v][o] = "absent"
    BY DEF WritingIsPrivate, Writing, File
  <2>1. pub[p].v \notin Public /\ keptFile[pub[p].v][o] = "absent"
    BY DEF Releases, WritingIsPrivate
  <2>2. pub[p].v \in Version
    BY RegistryAssumption DEF TypeOK, Work, Version, Writing
  <2> QED BY <1>1, <2>1, <2>2
<1>5. WrittenSoFar'
  BY DEF Releases, WrittenSoFar
<1> QED BY <1>2, <1>3, <1>4, <1>5 DEF Releases

LEMMA ListServedReleases ==
  ASSUME TypeOK, Releases, NEW up \in BOOLEAN, ListServed(up)
  PROVE  Releases'
<1> DEFINE doc == ServedDocument(up, list, keptList)
<1>1. doc.says \subseteq Public
  BY DEF ServedDocument, Public
<1>2. UNCHANGED <<file, pub, list, sent, keptFile>> /\ keptList' = doc
  BY DEF ListServed, world, directory
<1>3. client'.listed \subseteq doc.says /\ client'.at \in {"idle", "advisory"}
  <2>1. CASE client' = [NoErrand EXCEPT !.at = "advisory", !.listed = doc.says]
    BY <2>1 DEF NoErrand
  <2>2. CASE Stop
    BY <2>2 DEF Stop, NoErrand
  <2> QED BY <2>1, <2>2 DEF ListServed
<1>4. ChosenIsListed'
  BY <1>3 DEF ChosenIsListed
<1>5. keptList'.says \subseteq Public /\ client'.listed \subseteq Public
  BY <1>1, <1>2, <1>3
<1> QED BY <1>2, <1>4, <1>5, AskReleases

LEMMA AdvisoryServedReleases ==
  ASSUME TypeOK, Releases, NEW up \in BOOLEAN, AdvisoryServed(up)
  PROVE  Releases'
<1> DEFINE doc == ServedDocument(up, advisory, keptAdvisory)
<1>1. UNCHANGED <<file, pub, list, sent, keptFile, keptList>>
  BY DEF AdvisoryServed, world, directory
<1>2. ChosenIsListed' /\ client'.listed \subseteq client.listed
  <2>1. CASE Stop
    BY <2>1 DEF Stop, NoErrand, ChosenIsListed
  <2>2. ASSUME NEW v \in Selectable(doc.says),
               client' = [client EXCEPT !.at = "newest", !.v = v]
        PROVE  ChosenIsListed' /\ client'.listed \subseteq client.listed
    <3>1. client'.v = v /\ client'.listed = client.listed
      BY <2>2 DEF TypeOK, Errand
    <3> QED BY <3>1 DEF Selectable, ChosenIsListed
  <2> QED BY <2>1, <2>2 DEF AdvisoryServed
<1>3. keptList'.says \subseteq Public /\ client'.listed \subseteq Public
  BY <1>1, <1>2 DEF Public
<1> QED BY <1>1, <1>2, <1>3, AskReleases

\* The proxy keeps one file more, of a version the client was listed.
LEMMA KeepsOneMore ==
  ASSUME TypeOK, NEW up \in BOOLEAN, NEW v \in client.listed, NEW o \in File,
         keptFile' = [keptFile EXCEPT ![v][o] = ServedObject(up, v, o)]
  PROVE  \A u \in Version, x \in File : keptFile'[u][x] # keptFile[u][x] =>
           u \in Public /\ keptFile'[u][x] \in {"absent", file[u][x]}
<1>1. v \in Version /\ v \in Public
  BY DEF TypeOK, Errand, Public
<1>2. /\ keptFile'[v] = [keptFile[v] EXCEPT ![o] = ServedObject(up, v, o)]
      /\ \A u \in Version \ {v} : keptFile'[u] = keptFile[u]
  <2>1. keptFile \in [Version -> [File -> Content]] /\ ServedObject(up, v, o) \in Content
    BY <1>1, ServedObjectTypes DEF TypeOK
  <2> QED BY <1>1, <2>1, Written
<1>3. keptFile[v] \in [File -> Content]
  BY <1>1 DEF TypeOK
<1>4. keptFile'[v][o] = ServedObject(up, v, o) /\ \A x \in File \ {o} : keptFile'[v][x] = keptFile[v][x]
  BY <1>2, <1>3
<1>5. ServedObject(up, v, o) \in {keptFile[v][o], "absent", file[v][o]}
  BY DEF ServedObject
<1> QED BY <1>1, <1>2, <1>4, <1>5

LEMMA ServedReleases ==
  ASSUME TypeOK, Releases, NEW up \in BOOLEAN, NEW v \in client.listed, NEW o \in File,
         NEW good, NEW then, Served(up, v, o, good, then), client.v \in client.listed
  PROVE  Releases'
<1> DEFINE body == ServedObject(up, v, o)
<1>1. UNCHANGED <<file, pub, list, sent, keptList>>
  BY DEF Served, world, directory
<1>2. ChosenIsListed' /\ client'.listed \subseteq client.listed
  <2>1. CASE Stop
    BY <2>1 DEF Stop, NoErrand, ChosenIsListed
  <2>2. CASE client' = [client EXCEPT !.at = then, !.body = body]
    BY <2>2 DEF TypeOK, Errand, ChosenIsListed
  <2> QED BY <2>1, <2>2 DEF Served
<1>3. keptList'.says \subseteq Public /\ client'.listed \subseteq Public
  BY <1>1, <1>2 DEF Public
<1>4. \A u \in Version, x \in File : keptFile'[u][x] # keptFile[u][x] =>
        u \in Public /\ keptFile'[u][x] \in {"absent", file[u][x]}
  BY KeepsOneMore DEF Served
<1> QED BY <1>1, <1>2, <1>3, <1>4, AskReleases

LEMMA RequestReleases ==
  ASSUME TypeOK, Releases, Request
  PROVE  Releases'
<1>1. PICK up \in BOOLEAN :
        \/ ListServed(up) \/ AdvisoryServed(up) \/ NewestServed(up)
        \/ ManifestServed(up) \/ ProofServed(up) \/ ArchiveServed(up)
  BY DEF Request
<1>2. client.at \in {"newest", "manifest", "sig", "zip"} => client.v \in client.listed
  BY DEF Releases, ChosenIsListed
<1>3. CASE NewestServed(up)
  <2>1. PICK v \in NewestOf(client.listed) :
          Served(up, v, "manifest", Good(v), "manifest")
    BY <1>3 DEF NewestServed
  <2>2. v \in client.listed
    BY <2>1 DEF NewestOf
  <2> QED BY <1>2, <1>3, <2>1, <2>2, ServedReleases DEF NewestServed, File
<1>4. CASE ManifestServed(up)
  BY <1>2, <1>4, ServedReleases DEF ManifestServed, File
<1>5. CASE ProofServed(up)
  BY <1>2, <1>5, ServedReleases DEF ProofServed, File
<1>6. CASE ArchiveServed(up)
  <2>1. UNCHANGED <<file, pub, list, sent, keptList>> /\ Stop
    BY <1>6 DEF ArchiveServed, world, directory
  <2>2. ChosenIsListed' /\ client'.listed = {}
    BY <2>1 DEF Stop, NoErrand, ChosenIsListed
  <2>3. keptList'.says \subseteq Public /\ client'.listed \subseteq Public
    BY <2>1, <2>2 DEF Public
  <2>4. \A u \in Version, x \in File : keptFile'[u][x] # keptFile[u][x] =>
          u \in Public /\ keptFile'[u][x] \in {"absent", file[u][x]}
    BY <1>2, <1>6, KeepsOneMore DEF ArchiveServed, File
  <2> QED BY <2>1, <2>2, <2>3, <2>4, AskReleases
<1> QED BY <1>1, <1>3, <1>4, <1>5, <1>6, ListServedReleases, AdvisoryServedReleases

(***************************************************************************)
(* The theorems.                                                           *)
(***************************************************************************)
LEMMA ReleaseInit == Init => ReleaseInv
<1> SUFFICES ASSUME Init PROVE ReleaseInv
  OBVIOUS
<1>1. OwnWork
  BY DEF Init, OwnWork, Running, At, Idle
<1>2. Public = {}
  BY DEF Init, Public, Absent, NoErrand, Idle
<1>3. ProxyKeepsGood
  BY DEF Init, ProxyKeepsGood, NoFiles
<1>4. WritingIsPrivate /\ WrittenSoFar
  BY DEF Init, WritingIsPrivate, WrittenSoFar, Idle, Writing, Listing
<1>5. ChosenIsListed
  BY DEF Init, ChosenIsListed, NoErrand
<1> QED BY <1>1, <1>2, <1>3, <1>4, <1>5 DEF ReleaseInv, Releases, PublicIsComplete

LEMMA ReleaseStep == TypeOK /\ ReleaseInv /\ [Next]_vars => ReleaseInv'
<1> SUFFICES ASSUME TypeOK, ReleaseInv, [Next]_vars
             PROVE  ReleaseInv'
  OBVIOUS
<1>1. OwnWork' /\ (Separate' => Separate)
  BY OwnWorkStep DEF ReleaseInv, Separate
<1>2. ASSUME Separate PROVE Releases'
  <2> USE <1>2
  <2>1. OwnWork /\ Releases
    BY DEF ReleaseInv
  <2>2. ASSUME NEW p \in Publisher, Publish(p) PROVE Releases'
    BY <2>1, <2>2, StartReleases, LookReleases, ScanReleases, ObjectReleases,
       ListingReleases DEF Publish
  <2>3. CASE Request
    BY <2>1, <2>3, RequestReleases
  <2>4. CASE UNCHANGED vars
    BY <2>1, <2>4 DEF vars, directory, behind, kept, history, Releases, PublicIsComplete,
       ProxyKeepsGood, WritingIsPrivate, WrittenSoFar, ChosenIsListed, Public, Complete
  <2> QED BY <2>2, <2>3, <2>4 DEF Next
<1> QED BY <1>1, <1>2 DEF ReleaseInv

LEMMA ReleaseInvariant == Spec => []ReleaseInv
BY ReleaseInit, ReleaseStep, RegistryTypes, PTL DEF Spec

\* Where no two publishers may publish one version, a listed release has its
\* three files whole and of one build, whoever else is publishing (they write
\* the list over one another) and wherever one died.
THEOREM ListedReleasesAreComplete ==
  ASSUME DistinctBuilds
  PROVE  Spec => []ListedIsComplete
<1>1. ReleaseInv => ListedIsComplete
  BY DEF ReleaseInv, Separate, Releases, PublicIsComplete, Public, ListedIsComplete
<1> QED BY <1>1, ReleaseInvariant, PTL

\* Nor does the proxy, which fetches while files are being written, ever keep
\* a file of a release that is not complete.
THEOREM ProxyKeepsWholeReleases ==
  ASSUME DistinctBuilds
  PROVE  Spec => []ProxyKeepsGood
<1>1. ReleaseInv => ProxyKeepsGood
  BY DEF ReleaseInv, Separate, Releases
<1> QED BY <1>1, ReleaseInvariant, PTL

\* Both hold without that assumption until two publishers were at work at once.
THEOREM OneAtATimeIsComplete ==
  Spec => [](~overlapped => ListedIsComplete /\ ProxyKeepsGood)
<1>1. ReleaseInv => (~overlapped => ListedIsComplete /\ ProxyKeepsGood)
  BY DEF ReleaseInv, Separate, Releases, PublicIsComplete, Public, ListedIsComplete
<1> QED BY <1>1, ReleaseInvariant, PTL

LEMMA SentStays ==
  ASSUME TypeOK, OwnWork, Releases, [Next]_vars, NEW v \in sent
  PROVE  file'[v] = file[v]
<1>1. v \in Public /\ v \in Version
  BY DEF Public, TypeOK
<1>2. ASSUME NEW p \in Publisher, NEW o \in File, OpenObject(p, o) \/ CloseObject(p, o)
      PROVE  file'[v] = file[v]
  <2>1. pub[p].at \in Writing /\ Running(p)
    BY <1>2 DEF OpenObject, CloseObject, At, File, Writing, Running
  <2>2. pub[p].v \in Version /\ pub[p].v # v
    BY <1>1, <2>1, Versions DEF Releases, WritingIsPrivate, OwnWork
  <2>3. PICK c \in Content : file' = [file EXCEPT ![pub[p].v][o] = c]
    BY <1>2 DEF OpenObject, CloseObject, Content
  <2>4. file \in [Version -> [File -> Content]]
    BY DEF TypeOK
  <2> QED BY <1>1, <2>2, <2>3, <2>4, Written
<1>3. CASE \E p \in Publisher : Begin(p) \/ Gate(p) \/ Scan(p) \/ ReadList(p) \/ Die(p)
  BY <1>3 DEF Begin, Gate, Scan, ReadList, Die, directory
<1>4. CASE \E p \in Publisher : OpenList(p) \/ CloseList(p) \/ WriteLatest(p)
                               \/ OpenAdvisory(p) \/ CloseAdvisory(p)
  BY <1>4 DEF OpenList, CloseList, WriteLatest, OpenAdvisory, CloseAdvisory
<1>5. CASE Request
  BY <1>5 DEF Request, ListServed, AdvisoryServed, NewestServed, ManifestServed,
              ProofServed, ArchiveServed, Served, world, directory
<1>6. CASE UNCHANGED vars
  BY <1>6 DEF vars, directory
<1> QED BY <1>2, <1>3, <1>4, <1>5, <1>6 DEF Next, Publish

\* No step writes a file of a release somebody was told is sent.
THEOREM SentIsNeverRewritten ==
  ASSUME DistinctBuilds
  PROVE  Spec => NeverReused
<1>1. TypeOK /\ ReleaseInv /\ [Next]_vars =>
        [\A v \in sent : file'[v] = file[v]]_vars
  BY SentStays DEF ReleaseInv, Separate
<1> QED BY <1>1, RegistryTypes, ReleaseInvariant, PTL DEF Spec, NeverReused

(***************************************************************************)
(* One publisher at a time: the directory is brought up to date.           *)
(***************************************************************************)
LEMMA OthersIdle ==
  ASSUME TypeOK, OwnWork, ~overlapped', NEW p \in Publisher, Publish(p)
  PROVE  /\ ~overlapped
         /\ \A q \in Publisher \ {p} : pub[q].at = "idle" /\ pub'[q] = pub[q]
<1>1. CASE Begin(p)
  BY <1>1, BeginEffects DEF Begin, Running, At
<1>2. CASE ~Begin(p)
  BY <1>2, WorkGoesOn DEF OwnWork, Running, At
<1> QED BY <1>1, <1>2

\* What was sent is readable.
LEMMA SentIsReadable ==
  ASSUME TypeOK, Releases
  PROVE  sent \subseteq Readable
<1> SUFFICES ASSUME NEW v \in sent PROVE v \in Readable
  OBVIOUS
<1>1. v \in Version /\ Complete(file[v])
  BY DEF TypeOK, Releases, PublicIsComplete, Public
<1> QED BY <1>1, RegistryAssumption DEF Complete, File, Readable, Existing

LEMMA BlankStep ==
  ASSUME Blank, [Next]_vars
  PROVE  Blank'
<1>1. ASSUME NEW p \in Publisher,
             \/ Begin(p) \/ Gate(p) \/ Scan(p) \/ ReadList(p) \/ Die(p)
             \/ \E o \in File : OpenObject(p, o) \/ CloseObject(p, o)
             \/ WriteLatest(p) \/ OpenAdvisory(p) \/ CloseAdvisory(p)
      PROVE  Blank'
  BY <1>1 DEF Begin, Gate, Scan, ReadList, Die, OpenObject, CloseObject, WriteLatest,
     OpenAdvisory, CloseAdvisory, directory, behind, kept, Blank
<1>2. ASSUME NEW p \in Publisher, OpenList(p) \/ CloseList(p) PROVE Blank'
  BY <1>2 DEF OpenList, CloseList, behind, kept, Torn, Whole, Blank
<1>3. CASE Request
  BY <1>3 DEF Request, ListServed, AdvisoryServed, NewestServed, ManifestServed,
              ProofServed, ArchiveServed, Served, ServedDocument, world, directory, Blank
<1>4. CASE UNCHANGED vars
  BY <1>4 DEF vars, directory, behind, kept, Blank
<1> QED BY <1>1, <1>2, <1>3, <1>4 DEF Next, Publish

LEMMA LookListed ==
  ASSUME TypeOK, Releases, Blank, NEW p \in Publisher, Listed(p), Gated(p),
         Begin(p) \/ Gate(p) \/ Scan(p) \/ ReadList(p) \/ Die(p)
  PROVE  Listed(p)' /\ Gated(p)'
<1>1. UNCHANGED <<directory, sent>> /\ Readable' = Readable
  BY DEF Begin, Gate, Scan, ReadList, Die, directory, history, Readable, Existing
<1>2. CASE Ends(p)
  BY <1>2, EndsEffects DEF Listed, Gated, At, Writing, Listing
<1>3. CASE Begin(p)
  BY <1>3, BeginEffects DEF Listed, Gated, At, Writing, Listing
<1>4. CASE Gate(p) /\ ~Refused(p)
  <2>1. /\ pub'[p].at = "scan" /\ pub'[p].v = pub[p].v
    BY <1>4, GoesEffects DEF Gate
  <2>2. Listed(p)'
    BY <2>1 DEF Listed, At, Writing, Listing
  <2>3. p \notin Against => \A u \in NewestOf(list.says) : <<u, pub[p].v>> \notin Breaking
    <3>1. CASE list.is = "absent"
      <4>1. list.says = {}
        BY <3>1 DEF Blank
      <4> QED BY <4>1 DEF NewestOf
    <3>2. CASE list.is # "absent"
      BY <1>4, <3>2 DEF Refused, Predecessor
    <3> QED BY <3>1, <3>2
  <2>4. Gated(p)'
    BY <1>1, <2>1, <2>3 DEF Gated, At, directory, NewestOf
  <2> QED BY <2>2, <2>4
<1>5. CASE Scan(p) /\ ~Frozen(p)
  <2>1. /\ pub'[p].at = "zip" /\ pub'[p].found = Readable /\ pub'[p].v = pub[p].v
    BY <1>5, ScanEffects
  <2>2. pub[p].v \notin Readable /\ sent \cap Moved = {}
    BY <1>5, SentIsReadable DEF Frozen, Readable
  <2>3. Listed(p)'
    BY <1>1, <2>1, <2>2 DEF Listed, At, Writing, Listing
  <2>4. Gated(p)'
    BY <1>1, <1>5, <2>1 DEF Gated, At, directory, NewestOf, Scan, Writing
  <2> QED BY <2>3, <2>4
<1>6. CASE ReadList(p)
  <2>1. /\ pub'[p].at = "list" /\ pub'[p].old = list.says /\ pub'[p].v = pub[p].v
        /\ pub'[p].found = pub[p].found /\ pub[p].at = "read"
    BY <1>6, ReadEffects DEF ReadList, At
  <2>2. Listed(p)'
    BY <1>1, <2>1 DEF Listed, At, Writing, Listing
  <2>3. Gated(p)'
    BY <1>1, <2>1 DEF Gated, At, directory, NewestOf, Writing
  <2> QED BY <2>2, <2>3
<1> QED BY <1>2, <1>3, <1>4, <1>5, <1>6 DEF Gate, Scan, Die

LEMMA ObjectListed ==
  ASSUME TypeOK, OwnWork, NEW p \in Publisher, NEW o \in File, Listed(p), Gated(p),
         OpenObject(p, o) \/ CloseObject(p, o)
  PROVE  Listed(p)' /\ Gated(p)'
<1> DEFINE v == pub[p].v
<1>1. pub[p].at = o /\ o \in Writing /\ v \in Version
  BY Versions DEF OpenObject, CloseObject, At, File, Writing, OwnWork, Running
<1>2. UNCHANGED <<list, latest, sent>>
  BY DEF OpenObject, CloseObject, history
<1>3. /\ pub'[p].v = v /\ pub'[p].old = pub[p].old /\ pub'[p].found = pub[p].found
      /\ pub'[p].at \in Writing \cup {"read"}
  BY <1>1, OpensEffects, GoesEffects DEF OpenObject, CloseObject, After, Writing
<1>4. \A u \in Version \ {v} : file'[u] = file[u]
  <2>1. PICK c \in Content : file' = [file EXCEPT ![v][o] = c]
    BY DEF OpenObject, CloseObject, Content
  <2> QED BY <1>1, <2>1, Written DEF TypeOK
<1>5. Readable' \ {v} = Readable \ {v}
  BY <1>4 DEF Readable, Existing
<1>6. Listed(p)'
  BY <1>1, <1>2, <1>3, <1>5 DEF Listed, At, Writing, Listing
<1>7. Gated(p)'
  BY <1>1, <1>2, <1>3 DEF Gated, At, NewestOf, Writing
<1> QED BY <1>6, <1>7

LEMMA ListingListed ==
  ASSUME TypeOK, NEW p \in Publisher, Listed(p), Gated(p),
         OpenList(p) \/ CloseList(p) \/ WriteLatest(p) \/ OpenAdvisory(p) \/ CloseAdvisory(p)
  PROVE  Listed(p)' /\ Gated(p)'
<1>1. UNCHANGED file /\ Readable' = Readable
  BY DEF OpenList, CloseList, WriteLatest, OpenAdvisory, CloseAdvisory, Readable, Existing
<1>2. CASE OpenList(p)
  <2>1. /\ pub'[p].v = pub[p].v /\ pub'[p].old = pub[p].old /\ pub'[p].found = pub[p].found
        /\ pub'[p].at = "list" /\ pub[p].at = "list" /\ sent' = sent
    BY <1>2, OpensEffects DEF OpenList, At, history
  <2> QED BY <1>1, <2>1 DEF Listed, Gated, At, NewestOf, Writing, Listing
<1>3. CASE CloseList(p)
  <2>1. /\ pub'[p].v = pub[p].v /\ pub'[p].old = pub[p].old /\ pub'[p].found = pub[p].found
        /\ pub'[p].at = "latest" /\ pub[p].at = "list" /\ sent' = sent
        /\ list' = Whole(Relisted(p))
    BY <1>3, GoesEffects DEF CloseList, At, After, history
  <2>2. Relisted(p)' = Relisted(p)
    BY <2>1 DEF Relisted
  <2>3. Listed(p)'
    BY <1>1, <2>1, <2>2 DEF Listed, At, Writing, Listing, Whole
  <2>4. Gated(p)'
    BY <2>1 DEF Gated, At, Writing
  <2> QED BY <2>3, <2>4
<1>4. CASE WriteLatest(p)
  <2>1. /\ pub'[p].v = pub[p].v /\ pub'[p].old = pub[p].old /\ pub'[p].found = pub[p].found
        /\ pub'[p].at = "advisory" /\ pub[p].at = "latest" /\ sent' = sent
        /\ list' = list /\ latest' \in NewestOf(Relisted(p))
    BY <1>4, GoesEffects DEF WriteLatest, At, history
  <2>2. Relisted(p)' = Relisted(p)
    BY <2>1 DEF Relisted
  <2>3. list = Whole(Relisted(p)) /\ list.says = Relisted(p)
    BY <2>1 DEF Listed, Whole
  <2>4. latest' \in NewestOf(list'.says)
    BY <2>1, <2>3
  <2>5. Listed(p)'
    BY <1>1, <2>1, <2>2, <2>3, <2>4 DEF Listed, At, Writing, Listing, NewestOf, Whole
  <2>6. Gated(p)'
    BY <2>1 DEF Gated, At, Writing
  <2> QED BY <2>5, <2>6
<1>5. CASE OpenAdvisory(p)
  <2>1. /\ pub'[p].v = pub[p].v /\ pub'[p].old = pub[p].old /\ pub'[p].found = pub[p].found
        /\ pub'[p].at = "advisory" /\ pub[p].at = "advisory" /\ sent' = sent
        /\ UNCHANGED <<list, latest>>
    BY <1>5, OpensEffects DEF OpenAdvisory, At, history
  <2>2. Relisted(p)' = Relisted(p)
    BY <2>1 DEF Relisted
  <2>3. Listed(p)'
    BY <1>1, <2>1, <2>2 DEF Listed, At, Writing, Listing, NewestOf
  <2>4. Gated(p)'
    BY <2>1 DEF Gated, At, Writing
  <2> QED BY <2>3, <2>4
<1>6. CASE CloseAdvisory(p)
  BY <1>6, EndsEffects DEF CloseAdvisory, Listed, Gated, At, Writing, Listing
<1> QED BY <1>2, <1>3, <1>4, <1>5, <1>6

LEMMA IdleListed ==
  ASSUME NEW q \in Publisher, pub'[q].at = "idle"
  PROVE  Listed(q)' /\ Gated(q)'
BY DEF Listed, Gated, At, Writing, Listing

LEMMA PublishListGrows ==
  ASSUME TypeOK, NEW p \in Publisher, Publish(p), ListGrows, ~died',
         \A q \in Publisher \ {p} : pub[q].at = "idle" /\ pub'[q] = pub[q]
  PROVE  ListGrows'
<1>1. UNCHANGED <<seen, keptList>> /\ Held' = Held
  <2>1. UNCHANGED <<seen, keptList>>
    BY DEF Publish, Begin, Gate, Scan, OpenObject, CloseObject, ReadList, OpenList, CloseList,
       WriteLatest, OpenAdvisory, CloseAdvisory, Die, behind, kept
  <2> QED BY <2>1 DEF Held
<1>2. keptList'.is = "whole" => seen' \subseteq keptList'.says
  BY <1>1 DEF ListGrows
<1>3. CASE /\ list' = list /\ pub[p].at # "list" /\ pub'[p].at # "list"
  BY <1>1, <1>2, <1>3 DEF ListGrows, At
<1>4. CASE ReadList(p)
  <2>1. /\ pub'[p].at = "list" /\ pub'[p].old = list.says /\ pub[p].at = "read"
        /\ list' = list
    BY <1>4, ReadEffects DEF ReadList, At, directory
  <2>2. list.is # "torn" /\ Held \subseteq list.says
    BY <2>1 DEF ListGrows, At
  <2> QED BY <1>1, <1>2, <2>1, <2>2 DEF ListGrows, At
<1>5. CASE OpenList(p)
  <2>1. /\ pub'[p].at = "list" /\ pub'[p].old = pub[p].old /\ pub[p].at = "list"
        /\ pub'[p].open = TRUE /\ list' = Torn
    BY <1>5, OpensEffects DEF OpenList, At
  <2>2. list'.is = "torn" /\ Held \cup list'.says \subseteq pub[p].old
    BY <2>1 DEF ListGrows, At, Torn
  <2> QED BY <1>1, <1>2, <2>1, <2>2 DEF ListGrows, At
<1>6. CASE CloseList(p)
  <2>1. /\ pub'[p].at = "latest" /\ pub[p].at = "list" /\ list' = Whole(Relisted(p))
    BY <1>6, GoesEffects DEF CloseList, At, After
  <2>2. Held \subseteq list'.says /\ list'.is = "whole"
    BY <2>1 DEF ListGrows, At, Whole, Relisted
  <2> QED BY <1>1, <1>2, <2>1, <2>2 DEF ListGrows, At
<1>7. CASE Begin(p)
  BY <1>3, <1>7, BeginEffects DEF Begin, Running, At, directory
<1>8. CASE Gate(p)
  <2>1. list' = list /\ pub[p].at = "gate" /\ pub'[p].at \in {"idle", "scan"}
    BY <1>8, EndsEffects, GoesEffects DEF Gate, At, directory
  <2> QED BY <1>3, <2>1
<1>9. CASE Scan(p)
  <2>1. list' = list /\ pub[p].at = "scan" /\ pub'[p].at \in {"idle", "zip"}
    BY <1>9, EndsEffects, ScanEffects DEF Scan, At, directory
  <2> QED BY <1>3, <2>1
<1>10. ASSUME NEW o \in File, OpenObject(p, o) \/ CloseObject(p, o)
       PROVE  ListGrows'
  <2>1. list' = list /\ pub[p].at = o /\ pub'[p].at \in {o, After(o)}
    BY <1>10, OpensEffects, GoesEffects DEF OpenObject, CloseObject, At
  <2> QED BY <1>3, <2>1 DEF After, File
<1>11. CASE WriteLatest(p) \/ OpenAdvisory(p) \/ CloseAdvisory(p)
  <2>1. list' = list /\ pub[p].at \in {"latest", "advisory"}
    BY <1>11 DEF WriteLatest, OpenAdvisory, CloseAdvisory, At
  <2>2. pub'[p].at \in {"advisory", "idle"}
    BY <1>11, OpensEffects, GoesEffects, EndsEffects
       DEF WriteLatest, OpenAdvisory, CloseAdvisory, At
  <2> QED BY <1>3, <2>1, <2>2
<1>12. ~Die(p)
  BY DEF Die
<1> QED BY <1>4, <1>5, <1>6, <1>7, <1>8, <1>9, <1>10, <1>11, <1>12 DEF Publish

LEMMA RequestListGrows ==
  ASSUME TypeOK, Blank, Request, ListGrows
  PROVE  ListGrows'
<1>1. UNCHANGED <<list, pub>>
  BY DEF Request, ListServed, AdvisoryServed, NewestServed, ManifestServed,
         ProofServed, ArchiveServed, Served, world, directory
<1>2. CASE UNCHANGED <<keptList, seen>>
  BY <1>1, <1>2 DEF ListGrows, Held, At
<1>3. ASSUME NEW up \in BOOLEAN, ListServed(up)
      PROVE  ListGrows'
  <2> DEFINE doc == ServedDocument(up, list, keptList)
  <2>1. keptList' = doc /\ seen' = seen \cup doc.says /\ doc \in {list, keptList}
    BY <1>3 DEF ListServed, ServedDocument
  <2>2. CASE doc = keptList
    BY <1>1, <2>1, <2>2 DEF ListGrows, Held, At
  <2>3. CASE doc = list
    <3>1. Held' = seen \cup list.says
      BY <2>1, <2>3 DEF Held
    <3>2. list.is # "torn" => Held' \subseteq list.says
      BY <3>1 DEF ListGrows, Held
    <3>3. \A p \in Publisher : At(p, "list") => Held' \cup list.says \subseteq pub[p].old
      BY <3>1 DEF ListGrows, Held
    <3> QED BY <1>1, <2>1, <2>3, <3>2, <3>3 DEF ListGrows, Held, At
  <2> QED BY <2>1, <2>2, <2>3
<1>4. Request => UNCHANGED <<keptList, seen>> \/ \E up \in BOOLEAN : ListServed(up)
  BY DEF Request, AdvisoryServed, NewestServed, ManifestServed, ProofServed, ArchiveServed, Served
<1> QED BY <1>2, <1>3, <1>4

LEMMA OrderInit == Init => OrderInv
<1> SUFFICES ASSUME Init PROVE OrderInv
  OBVIOUS
<1>1. Blank
  BY DEF Init, Blank, Absent
<1>2. \A p \in Publisher : pub[p].at = "idle"
  BY DEF Init, Idle
<1>3. ListGrows
  BY <1>2 DEF Init, ListGrows, Held, At, Absent
<1>4. \A p \in Publisher : Listed(p) /\ Gated(p)
  BY <1>2 DEF Listed, Gated, At, Writing, Listing
<1> QED BY <1>1, <1>3, <1>4 DEF OrderInv

LEMMA OrderStep == TypeOK /\ ReleaseInv /\ OrderInv /\ [Next]_vars => OrderInv'
<1> SUFFICES ASSUME TypeOK, ReleaseInv, OrderInv, [Next]_vars
             PROVE  OrderInv'
  OBVIOUS
<1>1. Blank /\ Blank'
  BY BlankStep DEF OrderInv
<1>2. ASSUME ~overlapped'
      PROVE  (~died' => ListGrows') /\ \A q \in Publisher : Listed(q)' /\ Gated(q)'
  <2> USE <1>2
  <2>1. OwnWork /\ ~overlapped /\ Releases
    BY OwnWorkStep DEF ReleaseInv, Separate
  <2>2. (~died => ListGrows) /\ \A q \in Publisher : Listed(q) /\ Gated(q)
    BY <2>1 DEF OrderInv
  <2>3. died => died'
    BY DEF Next, Publish, Begin, Gate, Scan, OpenObject, CloseObject, ReadList, OpenList,
       CloseList, WriteLatest, OpenAdvisory, CloseAdvisory, Die, history, Request, ListServed,
       AdvisoryServed, NewestServed, ManifestServed, ProofServed, ArchiveServed, Served,
       world, vars
  <2>4. ASSUME NEW p \in Publisher, Publish(p)
        PROVE  (~died' => ListGrows') /\ \A q \in Publisher : Listed(q)' /\ Gated(q)'
    <3>1. \A q \in Publisher \ {p} : pub[q].at = "idle" /\ pub'[q] = pub[q]
      BY <2>1, <2>4, OthersIdle
    <3>2. ~died' => ListGrows'
      BY <2>2, <2>3, <2>4, <3>1, PublishListGrows
    <3>3. Listed(p)' /\ Gated(p)'
      BY <1>1, <2>1, <2>2, <2>4, LookListed, ObjectListed, ListingListed DEF Publish
    <3>4. \A q \in Publisher \ {p} : Listed(q)' /\ Gated(q)'
      BY <3>1, IdleListed
    <3> QED BY <3>2, <3>3, <3>4
  <2>5. CASE Request
    <3>1. UNCHANGED <<file, list, latest, pub, sent>>
      BY <2>5 DEF Request, ListServed, AdvisoryServed, NewestServed, ManifestServed,
                  ProofServed, ArchiveServed, Served, world, directory
    <3>2. \A q \in Publisher : Listed(q)' /\ Gated(q)'
      BY <2>2, <3>1 DEF Listed, Gated, At, NewestOf, Readable, Existing, Relisted
    <3> QED BY <1>1, <2>2, <2>3, <2>5, <3>2, RequestListGrows
  <2>6. CASE UNCHANGED vars
    <3>1. UNCHANGED <<file, list, latest, pub, sent, keptList, seen>>
      BY <2>6 DEF vars, directory, behind, kept, history
    <3>2. \A q \in Publisher : Listed(q)' /\ Gated(q)'
      BY <2>2, <3>1 DEF Listed, Gated, At, NewestOf, Readable, Existing, Relisted
    <3>3. ListGrows => ListGrows'
      BY <3>1 DEF ListGrows, Held, At
    <3> QED BY <2>2, <2>3, <3>2, <3>3
  <2> QED BY <2>4, <2>5, <2>6 DEF Next
<1> QED BY <1>1, <1>2 DEF OrderInv

LEMMA OrderInvariant == Spec => []OrderInv
BY OrderInit, OrderStep, RegistryTypes, ReleaseInvariant, PTL DEF Spec

\* While one publisher works at a time and none dies, no list that is served,
\* stale ones included, hides a version the client has seen.
THEOREM ListsAreNeverRolledBack == Spec => []NeverRolledBack
<1>1. OrderInv => NeverRolledBack
  BY DEF OrderInv, ListGrows, NeverRolledBack
<1> QED BY <1>1, OrderInvariant, PTL

\* What is told sent is told by the end of a publish.
LEMMA SentAtTheEnd ==
  ASSUME [Next]_vars, sent' # sent
  PROVE  \E p \in Publisher : CloseAdvisory(p)
BY DEF Next, Publish, Begin, Gate, Scan, OpenObject, CloseObject, ReadList, OpenList,
   CloseList, WriteLatest, OpenAdvisory, Die, history, Request, ListServed, AdvisoryServed,
   NewestServed, ManifestServed, ProofServed, ArchiveServed, Served, world, vars

LEMMA SendStep ==
  ASSUME TypeOK, ReleaseInv, OrderInv, ~overlapped, NEW p \in Publisher, CloseAdvisory(p)
  PROVE  /\ sent' \ sent \subseteq list.says
         /\ latest \in NewestOf(list.says)
         /\ advisory'.says = RetractedBy(Readable)
         /\ sent \cap Moved = {}
<1>1. pub[p].at = "advisory"
  BY DEF CloseAdvisory, At
<1>2. Listed(p) /\ WrittenSoFar
  BY DEF OrderInv, ReleaseInv, Separate, Releases
<1>3. /\ pub[p].found = Readable \ {pub[p].v} /\ sent \cap Moved = {}
      /\ list = Whole(Relisted(p)) /\ latest \in NewestOf(list.says)
  BY <1>1, <1>2 DEF Listed, At, Listing
<1>4. pub[p].v \in Readable
  <2>1. pub[p].v \in Version
    BY <1>1, Versions DEF ReleaseInv, OwnWork, Running, At
  <2>2. file[pub[p].v]["manifest"] = p
    BY <1>1, <1>2 DEF WrittenSoFar, Listing
  <2> QED BY <2>1, <2>2, RegistryAssumption DEF Readable, Existing
<1>5. pub[p].found \cup {pub[p].v} = Readable
  BY <1>3, <1>4
<1>6. advisory'.says = RetractedBy(Readable)
  BY <1>5 DEF CloseAdvisory, Retractions, Whole
<1>7. sent' \ sent \subseteq list.says
  BY <1>3 DEF CloseAdvisory, Whole, Relisted
<1> QED BY <1>3, <1>6, <1>7

\* A publish that answers sent, with no other publisher at work, has brought
\* the list, @latest and the advisory up to date.
THEOREM SendsAreWhole == Spec => SendIsWhole
<1>1. TypeOK /\ ReleaseInv /\ OrderInv /\ [Next]_vars =>
        [sent' # sent /\ ~overlapped =>
           /\ sent' \ sent \subseteq list.says
           /\ latest \in NewestOf(list.says)
           /\ advisory'.says = RetractedBy(Readable)]_vars
  BY SentAtTheEnd, SendStep
<1> QED BY <1>1, RegistryTypes, ReleaseInvariant, OrderInvariant, PTL DEF Spec, SendIsWhole

\* Nothing is sent after a release that moves the package.
THEOREM MovesAreFinal == Spec => MoveIsFinal
<1>1. TypeOK /\ ReleaseInv /\ OrderInv /\ [Next]_vars =>
        [sent' # sent /\ ~overlapped => sent \cap Moved = {}]_vars
  BY SentAtTheEnd, SendStep
<1> QED BY <1>1, RegistryTypes, ReleaseInvariant, OrderInvariant, PTL DEF Spec, MoveIsFinal

\* What is listed is compatible with the highest version listed before it.
THEOREM GatesAreCurrent == Spec => GateIsCurrent
<1>1. OrderInv =>
        [\A p \in Publisher : At(p, "list") /\ list'.is = "whole" /\ list.is = "torn"
            /\ p \notin Against /\ ~overlapped
           => \A u \in NewestOf(pub[p].old) : <<u, pub[p].v>> \notin Breaking]_vars
  BY DEF OrderInv, Gated
<1> QED BY <1>1, OrderInvariant, PTL DEF GateIsCurrent
=============================================================================
