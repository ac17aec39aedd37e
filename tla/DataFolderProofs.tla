---------------------------- MODULE DataFolderProofs ----------------------------
(***************************************************************************)
(* Proofs about DataFolder, for any attachments, edits, folder changes and *)
(* crashes: a missing folder is left alone, no acknowledged edit vanishes, *)
(* a store that is opened again shows what it showed, and the attachments  *)
(* of this device have their blobs.                                        *)
(***************************************************************************)
EXTENDS DataFolder, WellFoundedInduction, TLAPS

(* The state, part by part *)

ConfType  == [folder : Folder, id : Id]
StoreType == [folder : Folder, id : Id, doc : Document, pending : BOOLEAN, stale : BOOLEAN]
SideType  == [replica : [Name -> Document \cup {None}], blobs : SUBSET (File \X Place)]
CmdType   == [at : {"idle", "migrate", "rewrite", "attach", "move", "clean", "save"},
              folder : Folder \cup {None}, from : Folder \cup {None}, move : BOOLEAN,
              doc : Document \cup {None}, files : SUBSET File]
GcType    == [at : {"idle", "scan", "unlink"}, doomed : SUBSET (File \X Place)]

StateTypes ==
    /\ conf \in ConfType \cup {None} /\ saved \in ConfType \cup {None}
    /\ store \in StoreType /\ disk \in [Folder -> SideType] /\ cmd \in CmdType
    /\ gc \in [Thread -> GcType] /\ mounted \in BOOLEAN /\ slip \in BOOLEAN
    /\ lost \subseteq File /\ edits \in 0..MaxEdit /\ moves \in 0..MaxMoves
    /\ crashes \in 0..MaxCrashes /\ ids \in 0..MaxId /\ kept \subseteq Edit /\ held \subseteq Edit

LEMMA PartsHaveTypes == TypeOK <=> StateTypes
BY DEF TypeOK, StateTypes, ConfType, StoreType, SideType, CmdType, GcType


-----------------------------------------------------------------------------
(* Merging *)

LEMMA LeastName ==
    ASSUME NEW S \in SUBSET Name, S # {}
    PROVE  LET n == CHOOSE k \in S : \A m \in S : k <= m
           IN  n \in S /\ \A m \in S : n <= m
<1>1. S \subseteq Nat
  BY FolderAssumption DEF Name, Id, Peer, Legacy
<1> DEFINE Below == {p \in Nat \X Nat : p[1] < p[2]}
<1>2. Below = OpToRel(<, Nat)
  BY Zenon DEF OpToRel
<1>3. IsWellFoundedOn(Below, Nat)
  BY <1>2, NatLessThanWellFounded
<1>4. PICK k \in S : \A m \in S : ~(<<m, k>> \in Below)
  <2> HIDE DEF Below
  <2> QED BY <1>1, <1>3, WFMin
<1>5. \A m \in S : k <= m
  <2> TAKE m \in S
  <2>1. <<m, k>> \in Nat \X Nat /\ <<m, k>>[1] = m /\ <<m, k>>[2] = k
    BY <1>1
  <2>2. ~(m < k)
    BY <1>4, <2>1
  <2> QED BY <1>1, <2>2
<1> QED BY <1>5

\* Where the path of an attachment comes from in a merge.
NoneGone(ds, own, x) ==
    /\ \A n \in DOMAIN ds : ds[n].path[x] # Gone
    /\ \A d \in own : d.path[x] # Gone

Picks(ds, own, x, p) ==
    \/ p = Gone /\ ~NoneGone(ds, own, x)
    \/ /\ NoneGone(ds, own, x)
       /\ \E n \in DOMAIN ds : /\ ds[n].path[x] # None /\ p = ds[n].path[x]
                               /\ \A m \in DOMAIN ds : ds[m].path[x] # None => n <= m
    \/ /\ NoneGone(ds, own, x) /\ \A n \in DOMAIN ds : ds[n].path[x] = None
       /\ IF own = {} THEN p = None ELSE \E d \in own : p = d.path[x]

LEMMA MergedPath ==
    ASSUME NEW N \in SUBSET Name, NEW ds \in [N -> Document], NEW own, NEW x \in File
    PROVE  Picks(ds, own, x, Merged(ds, own).path[x])
<1> DEFINE p == Merged(ds, own).path[x]
<1> SUFFICES Picks(ds, own, x, p)
  OBVIOUS
<1> DEFINE has == {n \in DOMAIN ds : ds[n].path[x] # None}
<1>1. DOMAIN ds = N
  OBVIOUS
<1>2. p = CASE \/ \E n \in has : ds[n].path[x] = Gone
               \/ \E d \in own : d.path[x] = Gone -> Gone
            [] OTHER -> IF has # {}
                          THEN ds[CHOOSE n \in has : \A m \in has : n <= m].path[x]
                          ELSE IF own = {} THEN None ELSE (CHOOSE d \in own : TRUE).path[x]
  BY DEF Merged, FirstPath
<1>3. NoneGone(ds, own, x) <=> ~(\/ \E n \in has : ds[n].path[x] = Gone
                                 \/ \E d \in own : d.path[x] = Gone)
  BY <1>1, MarkAssumption DEF NoneGone
<1>4. CASE ~NoneGone(ds, own, x)
  <2>1. p = Gone
    BY <1>2, <1>3, <1>4
  <2> HIDE DEF p
  <2> QED BY <1>4, <2>1 DEF Picks
<1>5. CASE NoneGone(ds, own, x) /\ has # {}
  <2> DEFINE k == CHOOSE n \in has : \A m \in has : n <= m
  <2>1. k \in has /\ \A m \in has : k <= m
    <3>1. has \in SUBSET Name
      BY <1>1
    <3> HIDE DEF has
    <3> QED BY <1>5, <3>1, LeastName
  <2>2. p = ds[k].path[x]
    <3> HIDE DEF has
    <3> QED BY <1>2, <1>3, <1>5
  <2> HIDE DEF p
  <2> QED BY <1>5, <2>1, <2>2 DEF Picks
<1>6. CASE NoneGone(ds, own, x) /\ has = {}
  <2>1. p = IF own = {} THEN None ELSE (CHOOSE d \in own : TRUE).path[x]
    <3> HIDE DEF has
    <3> QED BY <1>2, <1>3, <1>6
  <2> HIDE DEF p
  <2> QED BY <1>6, <2>1 DEF Picks
<1> QED BY <1>4, <1>5, <1>6

LEMMA MergedEdits ==
    ASSUME NEW N, NEW ds \in [N -> Document], NEW own, NEW e
    PROVE  e \in Merged(ds, own).edits <=> \/ \E n \in N : e \in ds[n].edits
                                           \/ \E d \in own : e \in d.edits
<1>1. Merged(ds, own).edits = (UNION {ds[n].edits : n \in N}) \cup (UNION {d.edits : d \in own})
  <2>1. DOMAIN ds = N
    OBVIOUS
  <2> QED BY <2>1, Zenon DEF Merged
<1> QED BY <1>1

LEMMA MergedIsADocument ==
    ASSUME NEW N \in SUBSET Name, NEW ds \in [N -> Document], NEW own \in SUBSET Document
    PROVE  Merged(ds, own) \in Document
<1>1. Merged(ds, own).edits \in SUBSET Edit
  BY MergedEdits DEF Document
<1>2. ASSUME NEW x \in File PROVE Merged(ds, own).path[x] \in Place \cup {Gone, None}
  <2>1. \A n \in N : ds[n].path[x] \in Place \cup {Gone, None}
    BY DEF Document
  <2>2. \A d \in own : d.path[x] \in Place \cup {Gone, None}
    BY DEF Document
  <2> DEFINE p == Merged(ds, own).path[x]
  <2>3. \/ p \in {Gone, None}
        \/ \E n \in N : p = ds[n].path[x]
        \/ \E d \in own : p = d.path[x]
    <3>1. Picks(ds, own, x, p)
      BY MergedPath
    <3>2. DOMAIN ds = N
      OBVIOUS
    <3> HIDE DEF p
    <3> QED BY <3>1, <3>2 DEF Picks
  <2> HIDE DEF p
  <2>4. p \in Place \cup {Gone, None}
    BY <2>1, <2>2, <2>3
  <2> QED BY <2>4 DEF p
<1>3. Merged(ds, own).path \in [File -> Place \cup {Gone, None}]
  <2>1. Merged(ds, own).path = [x \in File |-> FirstPath(ds, own, x)]
    BY DEF Merged
  <2>2. \A x \in File : FirstPath(ds, own, x) \in Place \cup {Gone, None}
    BY <1>2, <2>1, Zenon
  <2> QED BY <2>1, <2>2, Zenon
<1>4. Merged(ds, own) = [edits |-> Merged(ds, own).edits, path |-> Merged(ds, own).path]
  BY DEF Merged
<1> QED BY <1>1, <1>3, <1>4 DEF Document

LEMMA EmptyIsADocument == Empty \in Document
BY DEF Empty, Document
-----------------------------------------------------------------------------
(* Reading folders *)

Has(f, n) == disk[f].replica[n] # None

\* Document m is what there is in folder f, for the device whose replica there is id.
Reads(f, id, m) ==
    /\ m \in Document
    /\ \A x \in File :
         \/ m.path[x] = None
         \/ \E n \in Name : Has(f, n) /\ m.path[x] = disk[f].replica[n].path[x]
    /\ \A x \in File, n \in {Peer, id} :
         Has(f, n) /\ disk[f].replica[n].path[x] = Gone => m.path[x] = Gone
    /\ \A x \in File :
         Has(f, id) /\ disk[f].replica[id].path[x] # None => m.path[x] # None
    /\ \A n \in Name \ {Legacy} : Has(f, n) => disk[f].replica[n].edits \subseteq m.edits
    /\ \A e \in m.edits : \E n \in Name : Has(f, n) /\ e \in disk[f].replica[n].edits

\* The documents that a merge takes from a folder, and how its own replica takes part.
TakesNames(f, id, N) ==
    /\ N \subseteq {n \in Name : Has(f, n)}
    /\ \A n \in Name \ {id, Legacy} : Has(f, n) => n \in N

TakesOwn(f, id, own) ==
    IF Has(f, id) THEN \/ own = {disk[f].replica[id]}
                       \/ own = {} /\ ~HasData(disk[f].replica[id])
                  ELSE own \in {{}, {Empty}}

LEMMA MergeReads ==
    ASSUME StateTypes, NEW f \in Folder, NEW id \in Id \cup {Peer}, NEW N, NEW own,
           TakesNames(f, id, N), TakesOwn(f, id, own)
    PROVE  Reads(f, id, Merged(Replicas(f, N), own))
<1> DEFINE ds == Replicas(f, N)
           m  == Merged(ds, own)
<1>1. disk[f].replica \in [Name -> Document \cup {None}]
  BY DEF StateTypes, SideType
<1>2. N \in SUBSET Name /\ \A n \in N : disk[f].replica[n] \in Document
  BY <1>1 DEF TakesNames, Has
<1>3. ds \in [N -> Document] /\ \A n \in N : ds[n] = disk[f].replica[n]
  BY <1>2 DEF Replicas
<1>4. id \in Name /\ own \in SUBSET Document
  <2>1. id \in Name
    BY DEF Name
  <2> QED BY <1>1, <2>1, EmptyIsADocument DEF TakesOwn, Has
<1>5. \A x \in File : Empty.path[x] = None
  BY DEF Empty
<1>6. Empty.edits = {}
  BY DEF Empty
<1>7. m \in Document
  BY <1>2, <1>3, <1>4, MergedIsADocument
<1>8. ASSUME NEW x \in File PROVE Picks(ds, own, x, m.path[x])
  BY <1>2, <1>3, MergedPath
<1>9. \A e : e \in m.edits <=> (\E n \in N : e \in ds[n].edits) \/ \E d \in own : e \in d.edits
  BY <1>3, MergedEdits
<1>10. DOMAIN ds = N
  BY <1>3
<1> HIDE DEF ds, m
<1>11. ASSUME NEW x \in File
       PROVE  \/ m.path[x] = None
              \/ \E n \in Name : Has(f, n) /\ m.path[x] = disk[f].replica[n].path[x]
  <2>1. \/ m.path[x] = None
        \/ m.path[x] = Gone
        \/ \E n \in N : m.path[x] = ds[n].path[x]
        \/ \E d \in own : m.path[x] = d.path[x]
    BY <1>8, <1>10 DEF Picks
  <2>2. CASE m.path[x] = Gone
    <3>1. (\E n \in N : ds[n].path[x] = Gone) \/ \E d \in own : d.path[x] = Gone
      BY <1>8, <1>10, <2>2, MarkAssumption DEF Picks, NoneGone
    <3>2. CASE \E n \in N : ds[n].path[x] = Gone
      BY <1>2, <1>3, <2>2, <3>2 DEF TakesNames
    <3>3. CASE \E d \in own : d.path[x] = Gone
      BY <1>4, <1>5, <2>2, <3>3, MarkAssumption DEF TakesOwn
    <3> QED BY <3>1, <3>2, <3>3
  <2>3. CASE \E n \in N : m.path[x] = ds[n].path[x]
    BY <1>2, <1>3, <2>3 DEF TakesNames
  <2>4. CASE \E d \in own : m.path[x] = d.path[x]
    BY <1>4, <1>5, <2>4 DEF TakesOwn
  <2> QED BY <2>1, <2>2, <2>3, <2>4
<1>12. ASSUME NEW x \in File, NEW n \in {Peer, id}, Has(f, n), disk[f].replica[n].path[x] = Gone
       PROVE  m.path[x] = Gone
  <2>1. ~NoneGone(ds, own, x)
    <3>1. CASE n = id
      <4>1. HasData(disk[f].replica[id])
        BY <1>12, <3>1, MarkAssumption DEF HasData
      <4> QED BY <1>12, <3>1, <4>1 DEF TakesOwn, NoneGone
    <3>2. CASE n = Peer /\ n # id
      <4>1. Peer \in Name \ {id, Legacy}
        BY <3>2, FolderAssumption DEF Name, Peer, Legacy
      <4>2. n \in N /\ ds[n].path[x] = Gone
        BY <1>3, <1>12, <3>2, <4>1 DEF TakesNames
      <4> QED BY <1>10, <4>2 DEF NoneGone
    <3> QED BY <1>12, <3>1, <3>2
  <2> QED BY <1>8, <2>1 DEF Picks
<1>13. ASSUME NEW x \in File, Has(f, id), disk[f].replica[id].path[x] # None
       PROVE  m.path[x] # None
  <2>1. HasData(disk[f].replica[id])
    BY <1>13 DEF HasData
  <2>2. own = {disk[f].replica[id]}
    BY <1>13, <2>1 DEF TakesOwn
  <2> QED BY <1>8, <1>10, <1>13, <2>2, MarkAssumption DEF Picks
<1>14. ASSUME NEW n \in Name \ {Legacy}, Has(f, n), NEW e \in disk[f].replica[n].edits
       PROVE  e \in m.edits
  <2>1. CASE n = id
    BY <1>9, <1>14, <2>1 DEF TakesOwn, HasData
  <2>2. CASE n # id
    BY <1>3, <1>9, <1>14, <2>2 DEF TakesNames
  <2> QED BY <2>1, <2>2
<1>15. ASSUME NEW e \in m.edits
       PROVE  \E n \in Name : Has(f, n) /\ e \in disk[f].replica[n].edits
  <2>1. CASE \E n \in N : e \in ds[n].edits
    BY <1>2, <1>3, <2>1 DEF TakesNames
  <2>2. CASE \E d \in own : e \in d.edits
    BY <1>4, <1>6, <2>2 DEF TakesOwn
  <2> QED BY <1>9, <1>15, <2>1, <2>2
<1> QED BY <1>7, <1>11, <1>12, <1>13, <1>14, <1>15 DEF Reads, ds, m

LEMMA ReplicasAreDocuments ==
    ASSUME StateTypes, NEW f \in Folder, NEW n \in Name, Has(f, n)
    PROVE  disk[f].replica[n] \in Document
BY DEF StateTypes, SideType, Has

LEMMA OpenReads ==
    ASSUME StateTypes, NEW f \in Folder, NEW id \in Id
    PROVE  Reads(f, id, OpenDoc(f, id))
<1> DEFINE N   == Others(f, id)
           old == disk[f].replica[id]
           own == IF Own(f, id) # {} \/ N # {} THEN Own(f, id)
                  ELSE {IF old = None THEN Empty ELSE old}
<1>1. OpenDoc(f, id) = Merged(Replicas(f, N), own)
  BY DEF OpenDoc
<1>2. TakesNames(f, id, N)
  BY DEF TakesNames, Others, Peers, Has, Name
<1>3. Own(f, id) = IF Has(f, id) /\ HasData(old) THEN {old} ELSE {}
  BY DEF Own, Has
<1>4. TakesOwn(f, id, own)
  BY <1>3 DEF TakesOwn, Has
<1> HIDE DEF N, own
<1> QED BY <1>1, <1>2, <1>4, MergeReads

LEMMA TargetReads ==
    ASSUME StateTypes, NEW f \in Folder, NEW id \in Id
    PROVE  /\ Target(f, id) # None => Reads(f, id, Target(f, id))
           /\ Target(f, id) = None =>
                /\ \A n \in Name \ {id} : ~Has(f, n)
                /\ Has(f, id) => ~HasData(disk[f].replica[id])
<1> DEFINE N == Others(f, id)
<1>1. TakesNames(f, id, N)
  BY DEF TakesNames, Others, Peers, Has, Name
<1>2. Own(f, id) = IF Has(f, id) /\ HasData(disk[f].replica[id]) THEN {disk[f].replica[id]} ELSE {}
  BY DEF Own, Has
<1>3. TakesOwn(f, id, Own(f, id))
  BY <1>2 DEF TakesOwn
<1>4. Reads(f, id, Merged(Replicas(f, N), Own(f, id)))
  BY <1>1, <1>3, MergeReads
<1>5. Merged(Replicas(f, N), Own(f, id)) # None
  BY <1>4, MarkAssumption DEF Reads
<1>6. CASE N = {} /\ Own(f, id) = {}
  <2>1. \A n \in Name \ {id} : ~Has(f, n)
    BY <1>6 DEF Others, Peers, Has
  <2> QED BY <1>2, <1>6, <2>1 DEF Target
<1>7. CASE ~(N = {} /\ Own(f, id) = {})
  <2>1. Target(f, id) = Merged(Replicas(f, N), Own(f, id))
    BY <1>7 DEF Target
  <2> QED BY <1>4, <1>5, <2>1
<1> QED BY <1>6, <1>7

\* What the poll merges, and what a peer that has merged everything starts from.
LEMMA PeersRead ==
    ASSUME StateTypes, NEW f \in Folder, NEW id \in Id \cup {Peer}, NEW d,
           d = IF Has(f, id) THEN disk[f].replica[id] ELSE Empty
    PROVE  Reads(f, id, Merged(Replicas(f, Peers(f, id)), {d}))
<1>1. TakesNames(f, id, Peers(f, id))
  BY DEF TakesNames, Peers, Has
<1>2. TakesOwn(f, id, {d})
  BY DEF TakesOwn
<1> QED BY <1>1, <1>2, MergeReads

-----------------------------------------------------------------------------
(* The control of commands, collections and the setting *)

\* A command runs in a started app with a store on disk and no collection of its own; a
\* folder change remembers where it started, and what it reads and clears is mounted.
CmdControl ==
    /\ cmd.at # "idle" => Running /\ ~store.pending /\ gc["main"] = NoGc
    /\ SetUp => gc["poll"] = NoGc
    /\ \A t \in Thread : gc[t].at # "unlink" => gc[t].doomed = {}
    /\ cmd.at = "move" => /\ cmd.folder \in Folder /\ cmd.from = store.folder
                          /\ cmd.from = cmd.folder => Reselect
                          /\ cmd.folder = Chosen => mounted
    /\ cmd.at = "clean" => cmd.from \in Folder /\ (cmd.from = Chosen => mounted)
    /\ cmd.at \in {"clean", "save"} => cmd.folder = store.folder

\* The app has one device id, the saved one if there is one; what does not run does
\* nothing; the stand-in stands in for the chosen folder.
ConfControl ==
    /\ ~Running => cmd = Idle /\ gc = [t \in Thread |-> NoGc]
    /\ Running => conf.id = store.id /\ conf.id <= ids
    /\ saved # None => saved.id <= ids /\ (Running => saved.id = conf.id)
    /\ saved = None /\ Running => conf.id = ids
    /\ Running /\ store.pending => store.folder = Chosen /\ gc = [t \in Thread |-> NoGc]
    /\ Running /\ ~store.pending /\ store.folder = Chosen => mounted

\* The replica of a store on disk is its document.
Mirrored == Running /\ ~store.pending => disk[store.folder].replica[store.id] = store.doc

Control == StateTypes /\ CmdControl /\ ConfControl /\ Mirrored

LEMMA Marks ==
    /\ None \notin ConfType /\ None \notin Document /\ None \notin Folder /\ None \notin Place
    /\ Gone \notin Place /\ Gone # None /\ Default # Chosen
    /\ Id \subseteq Nat /\ Id \subseteq Name /\ Peer \in Name /\ Legacy \in Name
    /\ Peer \notin Id /\ Legacy \notin Id /\ Peer # Legacy
    /\ Id \subseteq Place /\ Peer \in Place /\ Flat \in Place /\ Flat \notin Id /\ Flat # Peer
    /\ Idle \in CmdType /\ NoGc \in GcType /\ Chosen \in Folder /\ Default \in Folder
    /\ Thread = {"main", "poll"} /\ Idle.at = "idle"
BY FolderAssumption, MarkAssumption
   DEF ConfType, Folder, Place, Name, Id, Peer, Legacy, Flat, CmdType, GcType, Idle, NoGc, Thread

LEMMA FolderStarts == Init => Control
<1> SUFFICES ASSUME Init PROVE Control
  OBVIOUS
<1> USE FolderAssumption, MarkAssumption
<1>1. Id \subseteq Nat /\ 1 \in Id /\ Peer \in Name /\ 1 \in Name /\ Legacy \in Name
  BY DEF Id, Name
<1>2. [Empty EXCEPT !.path = [x \in File |-> IF x \in Old THEN Flat ELSE None]] \in Document
  BY DEF Empty, Document, Place
<1>3. disk \in [Folder -> SideType]
  BY <1>1, <1>2, EmptyIsADocument DEF Init, SideType, Place, Flat
<1>4. saved \in ConfType \cup {None}
  BY <1>1 DEF Init, ConfType, Folder
<1>5. StateTypes
  BY <1>1, <1>3, <1>4, EmptyIsADocument, Marks
     DEF Init, StateTypes, StoreType, Folder
<1>6. cmd = Idle /\ ~Running /\ \A t \in Thread : gc[t] = NoGc
  BY DEF Init, Running
<1>7. CmdControl
  BY <1>6, Marks DEF CmdControl, SetUp, Idle, NoGc
<1> QED BY <1>1, <1>5, <1>6, <1>7 DEF Init, Control, ConfControl, Mirrored

\* What writing a replica does to the disk.
SetsReplica(f, n, d) ==
    /\ disk' \in [Folder -> SideType]
    /\ \A g \in Folder, m \in Name :
         disk'[g].replica[m] = IF g = f /\ m = n THEN d ELSE disk[g].replica[m]

KeepsReplicas == \A g \in Folder : disk'[g].replica = disk[g].replica
KeepsBlobs    == \A g \in Folder : disk'[g].blobs = disk[g].blobs

SetsBlobs(f, B) == \A g \in Folder : disk'[g].blobs = IF g = f THEN B ELSE disk[g].blobs

LEMMA PutsReplica ==
    ASSUME StateTypes, NEW f \in Folder, NEW n \in Name, NEW d \in Document \cup {None},
           disk' = [disk EXCEPT ![f].replica[n] = d]
    PROVE  SetsReplica(f, n, d) /\ KeepsBlobs
<1>1. disk \in [Folder -> SideType]
  BY DEF StateTypes
<1>2. disk' \in [Folder -> SideType]
  BY <1>1 DEF SideType
<1> QED BY <1>1, <1>2 DEF SetsReplica, KeepsBlobs, SideType

LEMMA PutsBlobs ==
    ASSUME StateTypes, NEW f \in Folder, NEW B \in SUBSET (File \X Place),
           disk' = [disk EXCEPT ![f].blobs = B]
    PROVE  disk' \in [Folder -> SideType] /\ KeepsReplicas /\ SetsBlobs(f, B)
<1>1. disk \in [Folder -> SideType]
  BY DEF StateTypes
<1> QED BY <1>1 DEF KeepsReplicas, SetsBlobs, SideType

LEMMA PutsBoth ==
    ASSUME StateTypes, NEW f \in Folder, NEW n \in Name, NEW d \in Document \cup {None},
           NEW B \in SUBSET (File \X Place), NEW side,
           side = [replica |-> [disk[f].replica EXCEPT ![n] = d], blobs |-> B],
           disk' = [disk EXCEPT ![f] = side]
    PROVE  SetsReplica(f, n, d) /\ SetsBlobs(f, B)
<1>1. disk \in [Folder -> SideType] /\ disk[f].replica \in [Name -> Document \cup {None}]
  BY DEF StateTypes, SideType
<1>2. side \in SideType /\ side.blobs = B
  BY <1>1 DEF SideType
<1>3. \A m \in Name : side.replica[m] = IF m = n THEN d ELSE disk[f].replica[m]
  BY <1>1
<1> QED BY <1>1, <1>2, <1>3 DEF SetsReplica, SetsBlobs

LEMMA CommitStores ==
    ASSUME StateTypes, NEW d \in Document, Commit(d)
    PROVE  /\ store' \in StoreType /\ store' = [store EXCEPT !.doc = d] /\ store'.doc = d
           /\ store'.folder = store.folder /\ store'.id = store.id
           /\ store'.pending = store.pending /\ store'.stale = store.stale
           /\ disk' \in [Folder -> SideType] /\ held' \subseteq Edit
           /\ store.pending => disk' = disk /\ held' = held
           /\ ~store.pending => /\ SetsReplica(store.folder, store.id, d) /\ KeepsBlobs
                                /\ held' = d.edits
<1>1. store \in StoreType /\ store.id \in Name /\ disk \in [Folder -> SideType] /\ held \subseteq Edit
  BY DEF StateTypes, StoreType, Name
<1>2. d.edits \subseteq Edit
  BY DEF Document
<1>3. CASE store.pending
  BY <1>1, <1>3 DEF Commit, StoreType
<1>4. CASE ~store.pending
  <2>1. disk' = [disk EXCEPT ![store.folder].replica[store.id] = d] /\ held' = d.edits
    BY <1>4 DEF Commit
  <2>2. SetsReplica(store.folder, store.id, d) /\ KeepsBlobs
    BY <1>1, <2>1, PutsReplica DEF StoreType
  <2> QED BY <1>1, <1>2, <1>4, <2>1, <2>2 DEF Commit, StoreType, SetsReplica
<1> QED BY <1>3, <1>4

LEMMA OpenStores ==
    ASSUME StateTypes, NEW f \in Folder, NEW id \in Id, Open(f, id)
    PROVE  /\ store' \in StoreType /\ store'.folder = f /\ store'.id = id
           /\ store'.doc = OpenDoc(f, id) /\ ~store'.pending
           /\ Reads(f, id, store'.doc) /\ SetsReplica(f, id, store'.doc) /\ KeepsBlobs
<1>1. Reads(f, id, OpenDoc(f, id)) /\ OpenDoc(f, id) \in Document
  BY OpenReads DEF Reads
<1>2. store' = [folder |-> f, id |-> id, doc |-> OpenDoc(f, id), pending |-> FALSE, stale |-> FALSE]
      /\ disk' = [disk EXCEPT ![f].replica[id] = OpenDoc(f, id)]
  BY DEF Open
<1>3. SetsReplica(f, id, OpenDoc(f, id)) /\ KeepsBlobs
  BY <1>1, <1>2, PutsReplica DEF Name
<1> QED BY <1>1, <1>2, <1>3 DEF StoreType

SavedFolder == IF saved = None THEN Chosen ELSE saved.folder

LEMMA ConfigLoads ==
    ASSUME Control, ~Running, LoadConfig
    PROVE  /\ conf' \in ConfType /\ conf'.folder = SavedFolder /\ conf'.id \in Id
           /\ conf'.folder \in Folder /\ conf'.id <= ids' /\ ids' \in 0..MaxId
           /\ saved' \in {saved, conf'} /\ (saved # None => saved' = saved /\ conf' = saved)
           /\ saved # None => ids' = ids
           /\ saved = None => ids' = ids + 1 /\ conf'.id = ids' /\ conf'.folder = Chosen
<1>1. ids \in 0..MaxId /\ saved \in ConfType \cup {None} /\ (saved # None => saved.id <= ids)
  BY DEF Control, StateTypes, ConfControl
<1>2. CASE saved # None
  BY <1>1, <1>2 DEF LoadConfig, SavedFolder, ConfType
<1>3. CASE saved = None
  <2>1. /\ ids < MaxId /\ ids' = ids + 1 /\ conf' = [folder |-> Chosen, id |-> ids']
        /\ saved' \in {saved, conf'}
    BY <1>3 DEF LoadConfig
  <2>2. ids' \in 1..MaxId
    BY <1>1, <2>1, FolderAssumption
  <2> QED BY <1>1, <1>3, <2>1, <2>2, Marks DEF SavedFolder, ConfType, Id
<1> QED BY <1>2, <1>3

LEMMA BootControl == ASSUME Control, Boot PROVE Control'
<1> USE Marks, FolderAssumption
<1>1. StateTypes /\ CmdControl /\ ConfControl /\ ~Running /\ LoadConfig
  BY DEF Control, Boot
<1>2. /\ conf' \in ConfType /\ conf'.id \in Id /\ conf'.folder \in Folder /\ ids' \in 0..MaxId
      /\ conf'.id <= ids' /\ (saved' = None => conf'.id = ids')
      /\ (saved' # None => saved'.id = conf'.id) /\ saved' \in ConfType \cup {None}
  BY <1>1, ConfigLoads DEF StateTypes
<1>3. Running' /\ cmd.at = "idle" /\ cmd = Idle /\ gc = [t \in Thread |-> NoGc] /\ gc' = gc
  BY <1>1, <1>2 DEF Boot, Running, ConfControl
<1>4. /\ UNCHANGED <<mounted, gc, edits, moves, crashes, kept, lost>>
  BY DEF Boot, counts
<1>5. CASE conf'.folder = Chosen /\ ~mounted
  <2>1. /\ store' = [folder |-> Chosen, id |-> conf'.id, doc |-> Empty, pending |-> TRUE, stale |-> FALSE]
        /\ UNCHANGED <<disk, cmd, held, slip>>
    BY <1>5 DEF Boot
  <2>2. store' \in StoreType
    BY <1>2, <2>1, EmptyIsADocument DEF StoreType
  <2>3. StateTypes'
    BY <1>1, <1>2, <1>4, <2>1, <2>2 DEF StateTypes
  <2> QED BY <1>2, <1>3, <1>4, <2>1, <2>3
          DEF Control, CmdControl, ConfControl, Mirrored, SetUp, Running, Idle
<1>6. CASE ~(conf'.folder = Chosen /\ ~mounted)
  <2>1. Open(conf'.folder, conf'.id) /\ Reopened /\ cmd' = [Idle EXCEPT !.at = "migrate"]
    BY <1>6 DEF Boot
  <2>2. /\ store' \in StoreType /\ store'.folder = conf'.folder /\ store'.id = conf'.id
        /\ ~store'.pending /\ SetsReplica(conf'.folder, conf'.id, store'.doc)
        /\ store'.doc \in Document
    BY <1>1, <1>2, <2>1, OpenStores DEF Reads
  <2>3. held' \subseteq Edit /\ slip' = FALSE /\ cmd' \in CmdType
    BY <1>1, <2>1, <2>2 DEF Reopened, StateTypes, Document, CmdType, Idle
  <2>4. StateTypes'
    BY <1>1, <1>2, <1>4, <2>2, <2>3 DEF StateTypes, SetsReplica
  <2>5. Mirrored'
    BY <1>2, <2>2 DEF Mirrored, SetsReplica, Name
  <2> QED BY <1>2, <1>3, <1>4, <1>6, <2>1, <2>2, <2>4, <2>5
          DEF Control, CmdControl, ConfControl, SetUp, Running, Idle
<1> QED BY <1>5, <1>6

LEMMA PathOnly ==
    ASSUME NEW d \in Document, NEW q \in [File -> Place \cup {Gone, None}]
    PROVE  /\ [d EXCEPT !.path = q] \in Document /\ [d EXCEPT !.path = q].path = q
           /\ [d EXCEPT !.path = q].edits = d.edits
BY DEF Document

\* What a step of a command that writes no replica needs to show.
LEMMA MigrateControl == ASSUME Control, Migrate PROVE Control'
<1> USE Marks
<1>1. StateTypes /\ CmdControl /\ ConfControl /\ Mirrored
  BY DEF Control
<1>2. /\ cmd.at = "migrate" /\ Running /\ ~store.pending /\ gc["main"] = NoGc /\ gc["poll"] = NoGc
      /\ UNCHANGED <<conf, saved, ids, store, mounted, gc, edits, moves, crashes, kept, held, slip, lost>>
  BY <1>1 DEF Migrate, CmdControl, SetUp, settings, counts, seen
<1>3. PICK moved \in SUBSET {x \in File : store.doc.path[x] = Flat /\ <<x, Flat>> \in disk[store.folder].blobs} :
        /\ disk' = [disk EXCEPT ![store.folder].blobs =
                      (@ \ (moved \X {Flat})) \cup (moved \X {store.id})]
        /\ cmd' = IF moved = {} THEN Idle ELSE [cmd EXCEPT !.at = "rewrite", !.files = moved]
  BY DEF Migrate
<1>4. store.folder \in Folder /\ store.id \in Place /\ cmd \in CmdType /\ disk \in [Folder -> SideType]
  BY <1>1 DEF StateTypes, StoreType
<1>5. disk' \in [Folder -> SideType] /\ KeepsReplicas
  <2> DEFINE B == (disk[store.folder].blobs \ (moved \X {Flat})) \cup (moved \X {store.id})
  <2>1. B \in SUBSET (File \X Place)
    BY <1>4 DEF SideType
  <2>2. disk' = [disk EXCEPT ![store.folder].blobs = B]
    BY <1>3
  <2> HIDE DEF B
  <2> QED BY <1>1, <1>4, <2>1, <2>2, PutsBlobs
<1>6. cmd' \in CmdType /\ cmd'.at \in {"idle", "rewrite"} /\ (cmd'.at = "idle" => cmd' = Idle)
  BY <1>3, <1>4 DEF CmdType, Idle
<1>7. StateTypes'
  BY <1>1, <1>2, <1>5, <1>6 DEF StateTypes
<1>8. Mirrored'
  BY <1>1, <1>2, <1>4, <1>5 DEF Mirrored, KeepsReplicas, Running
<1> QED BY <1>1, <1>2, <1>6, <1>7, <1>8 DEF Control, CmdControl, ConfControl, SetUp, Running

LEMMA RewriteControl == ASSUME Control, Rewrite PROVE Control'
<1> USE Marks
<1>1. StateTypes /\ CmdControl /\ ConfControl /\ Mirrored
  BY DEF Control
<1>2. /\ cmd.at = "rewrite" /\ Running /\ ~store.pending /\ gc["main"] = NoGc /\ gc["poll"] = NoGc
      /\ cmd' = Idle /\ Running'
      /\ UNCHANGED <<conf, saved, ids, mounted, gc, edits, moves, crashes, kept, slip>>
  BY <1>1 DEF Rewrite, CmdControl, SetUp, settings, counts, Running
<1>3. CASE UNCHANGED <<store, disk, held>> /\ lost' = lost \cup cmd.files
  <2>1. StateTypes'
    BY <1>1, <1>2, <1>3 DEF StateTypes, CmdType
  <2> QED BY <1>1, <1>2, <1>3, <2>1 DEF Control, CmdControl, ConfControl, Mirrored, SetUp
<1>4. CASE /\ Commit([store.doc EXCEPT !.path =
                        [x \in File |-> IF x \in cmd.files THEN store.id ELSE @[x]]])
           /\ UNCHANGED lost
  <2> DEFINE q == [x \in File |-> IF x \in cmd.files THEN store.id ELSE store.doc.path[x]]
             d == [store.doc EXCEPT !.path = q]
  <2>1. d \in Document
    BY <1>1, PathOnly DEF StateTypes, StoreType, Document
  <2>2. Commit(d)
    BY <1>4
  <2> HIDE DEF d
  <2>3. /\ store' \in StoreType /\ store'.doc = d /\ store'.folder = store.folder
        /\ store'.id = store.id /\ ~store'.pending
        /\ disk' \in [Folder -> SideType] /\ held' \subseteq Edit
        /\ SetsReplica(store.folder, store.id, d)
    BY <1>1, <1>2, <2>1, <2>2, CommitStores
  <2>4. StateTypes'
    BY <1>1, <1>2, <1>4, <2>3 DEF StateTypes
  <2>5. Mirrored'
    BY <1>1, <2>3 DEF Mirrored, SetsReplica, StateTypes, StoreType
  <2> QED BY <1>1, <1>2, <2>3, <2>4, <2>5 DEF Control, CmdControl, ConfControl, SetUp
<1> QED BY <1>3, <1>4 DEF Rewrite

LEMMA RetryOpenControl == ASSUME Control, RetryOpen PROVE Control'
<1> USE Marks
<1>1. StateTypes /\ CmdControl /\ ConfControl
  BY DEF Control
<1>2. /\ Running /\ store.pending /\ mounted /\ cmd.at = "idle"
      /\ Open(store.folder, store.id) /\ Reopened
      /\ UNCHANGED <<conf, saved, ids, mounted, cmd, gc, edits, moves, crashes, kept, lost>>
  BY DEF RetryOpen, MainFree, Ready, settings, counts
<1>3. store.folder \in Folder /\ store.id \in Id /\ Running'
  BY <1>1, <1>2 DEF StateTypes, StoreType, Running
<1>4. /\ store' \in StoreType /\ store'.folder = store.folder /\ store'.id = store.id
      /\ ~store'.pending /\ SetsReplica(store.folder, store.id, store'.doc) /\ store'.doc \in Document
  BY <1>1, <1>2, <1>3, OpenStores DEF Reads
<1>5. held' \subseteq Edit /\ slip' = FALSE
  BY <1>1, <1>2, <1>4 DEF Reopened, StateTypes, Document
<1>6. StateTypes'
  BY <1>1, <1>2, <1>4, <1>5 DEF StateTypes, SetsReplica
<1>7. Mirrored'
  BY <1>3, <1>4 DEF Mirrored, SetsReplica
<1> QED BY <1>1, <1>2, <1>3, <1>4, <1>6, <1>7 DEF Control, CmdControl, ConfControl, SetUp

LEMMA OpenDefaultControl == ASSUME Control, OpenDefault PROVE Control'
<1> USE Marks
<1>1. StateTypes /\ CmdControl /\ ConfControl
  BY DEF Control
<1>2. /\ Running /\ store.pending /\ cmd.at = "idle"
      /\ Open(Default, conf.id) /\ held' = store'.doc.edits /\ slip' = FALSE
      /\ cmd' = [Idle EXCEPT !.at = "save", !.folder = Default]
      /\ UNCHANGED <<conf, saved, ids, mounted, gc, edits, moves, crashes, kept, lost>>
  BY DEF OpenDefault, MainFree, Ready, settings, counts
<1>3. conf.id = store.id /\ store.id \in Id /\ Running'
  BY <1>1, <1>2 DEF StateTypes, StoreType, ConfControl, Running
<1>4. /\ store' \in StoreType /\ store'.folder = Default /\ store'.id = store.id
      /\ ~store'.pending /\ SetsReplica(Default, store.id, store'.doc) /\ store'.doc \in Document
  BY <1>1, <1>2, <1>3, OpenStores DEF Reads
<1>5. held' \subseteq Edit /\ cmd' \in CmdType /\ cmd'.at = "save" /\ cmd'.folder = Default
  BY <1>2, <1>4 DEF Document, CmdType, Idle
<1>6. StateTypes'
  BY <1>1, <1>2, <1>4, <1>5 DEF StateTypes, SetsReplica
<1>7. Mirrored'
  BY <1>3, <1>4 DEF Mirrored, SetsReplica
<1> QED BY <1>1, <1>2, <1>3, <1>4, <1>5, <1>6, <1>7 DEF Control, CmdControl, ConfControl, SetUp

LEMMA ChangeFolderControl ==
    ASSUME Control, NEW f \in Folder, NEW move \in BOOLEAN, ChangeFolder(f, move)
    PROVE  Control'
<1> USE Marks
<1>1. StateTypes /\ CmdControl /\ ConfControl /\ Mirrored
  BY DEF Control
<1>2. /\ Running /\ ~store.pending /\ cmd.at = "idle" /\ gc["main"].at = "idle"
      /\ (f = Chosen => mounted) /\ (f = store.folder => Reselect)
      /\ moves < MaxMoves /\ moves' = moves + 1
      /\ cmd' = [Idle EXCEPT !.at = "move", !.folder = f, !.from = store.folder, !.move = move,
                             !.doc = Target(f, store.id)]
      /\ UNCHANGED <<conf, saved, ids, store, disk, mounted, gc, edits, crashes, kept, held, slip, lost>>
  BY DEF ChangeFolder, MainFree, Ready, settings, seen
<1>3. store.folder \in Folder /\ store.id \in Id /\ Running' /\ gc["main"] = NoGc
  BY <1>1, <1>2 DEF StateTypes, StoreType, Running, CmdControl, GcType, NoGc
<1>4. Target(f, store.id) \in Document \cup {None}
  BY <1>1, <1>3, TargetReads DEF Reads
<1>5. cmd' \in CmdType /\ cmd'.at = "move" /\ cmd'.folder = f /\ cmd'.from = store.folder
  BY <1>2, <1>3, <1>4 DEF CmdType, Idle
<1>6. moves' \in 0..MaxMoves
  BY <1>1, <1>2, FolderAssumption DEF StateTypes
<1>7. StateTypes'
  BY <1>1, <1>2, <1>5, <1>6 DEF StateTypes
<1> QED BY <1>1, <1>2, <1>3, <1>5, <1>7 DEF Control, CmdControl, ConfControl, Mirrored, SetUp

\* What a folder change brings: our document to an empty folder, else what was read there.
Brought == IF cmd.doc = None THEN store.doc ELSE cmd.doc

LEMMA MoveDoes ==
    ASSUME Control, Move, cmd' # Idle
    PROVE  /\ cmd.at = "move" /\ Running /\ ~store.pending /\ gc["main"] = NoGc
           /\ cmd.folder \in Folder /\ cmd.from = store.folder /\ store.id \in Id
           /\ Brought \in Document
           /\ store' \in StoreType /\ store'.folder = cmd.folder /\ store'.doc = Brought
           /\ store'.id = store.id /\ ~store'.pending
           /\ held' = Brought.edits /\ SetsReplica(cmd.folder, store.id, Brought)
           /\ cmd' \in CmdType /\ cmd'.at = "clean" /\ cmd'.folder = cmd.folder
           /\ cmd'.from = cmd.from /\ cmd'.doc = cmd.doc
           /\ lost' \subseteq File
           /\ \E sent \in SUBSET ToCopy(cmd.folder, Brought) :
                /\ \A g \in Folder : disk'[g].blobs =
                     IF g = cmd.folder THEN disk[g].blobs \cup sent ELSE disk[g].blobs
                /\ lost' = lost \cup {b[1] : b \in (ToCopy(cmd.folder, Brought) \ sent)
                                                    \cup (Refs(Brought) \cap gc["poll"].doomed)}
<1> USE Marks
<1> DEFINE f == cmd.folder
           d == Brought
<1>1. StateTypes /\ CmdControl /\ cmd.at = "move"
  BY DEF Control, Move
<1>2. /\ Running /\ ~store.pending /\ gc["main"] = NoGc /\ f \in Folder
      /\ cmd.from = store.folder /\ store.id \in Id /\ d \in Document
      /\ disk \in [Folder -> SideType] /\ store \in StoreType /\ cmd \in CmdType /\ cmd.from \in Folder
  BY <1>1 DEF CmdControl, StateTypes, StoreType, CmdType, Brought
<1>3. PICK sent \in SUBSET ToCopy(f, d) :
        /\ store' = [store EXCEPT !.folder = f, !.doc = d, !.stale = FALSE]
        /\ disk' = [disk EXCEPT ![f] = [replica |-> [@.replica EXCEPT ![store.id] = d],
                                        blobs   |-> @.blobs \cup sent]]
        /\ held' = d.edits
        /\ lost' = lost \cup {b[1] : b \in (ToCopy(f, d) \ sent) \cup (Refs(d) \cap gc["poll"].doomed)}
        /\ cmd' = [cmd EXCEPT !.at = "clean", !.move = @ /\ sent = ToCopy(f, d)]
  BY DEF Move, Brought
<1>4. ToCopy(f, d) \subseteq disk[cmd.from].blobs /\ disk[cmd.from].blobs \subseteq File \X Place
  BY <1>2 DEF ToCopy, SideType
<1>5. /\ disk' \in [Folder -> SideType]
      /\ \A g \in Folder : disk'[g].blobs = IF g = f THEN disk[g].blobs \cup sent ELSE disk[g].blobs
      /\ SetsReplica(f, store.id, d)
  <2>1. disk[f].replica \in [Name -> Document \cup {None}] /\ disk[f].blobs \subseteq File \X Place
    BY <1>2 DEF SideType
  <2> DEFINE B == disk[f].blobs \cup sent
  <2>2. B \in SUBSET (File \X Place)
    BY <1>3, <1>4, <2>1
  <2> DEFINE side == [replica |-> [disk[f].replica EXCEPT ![store.id] = d], blobs |-> B]
  <2>3. disk' = [disk EXCEPT ![f] = side]
    BY <1>2, <1>3
  <2>4. SetsReplica(f, store.id, d) /\ SetsBlobs(f, B)
    <3> HIDE DEF B, f, d, side
    <3>1. f \in Folder /\ d \in Document
      BY <1>2 DEF f, d
    <3>2. side = [replica |-> [disk[f].replica EXCEPT ![store.id] = d], blobs |-> B]
      BY DEF side
    <3> QED BY <1>1, <1>2, <2>2, <2>3, <3>1, <3>2, Marks, PutsBoth
  <2> QED BY <2>4 DEF SetsReplica, SetsBlobs
<1>6. store' \in StoreType /\ store'.folder = f /\ store'.doc = d /\ store'.id = store.id /\ ~store'.pending
  BY <1>2, <1>3 DEF StoreType
<1>7. /\ cmd' \in CmdType /\ cmd'.at = "clean" /\ cmd'.folder = f /\ cmd'.from = cmd.from /\ cmd'.doc = cmd.doc
  <2>1. cmd.move \in BOOLEAN /\ (cmd.move /\ sent = ToCopy(f, d)) \in BOOLEAN
    BY <1>2 DEF CmdType
  <2> DEFINE b == cmd.move /\ sent = ToCopy(f, d)
  <2>2. cmd' = [cmd EXCEPT !.at = "clean", !.move = b]
    BY <1>3
  <2> HIDE DEF b
  <2> QED BY <1>2, <2>1, <2>2 DEF CmdType, b
<1>8. lost' \subseteq File
  <2>1. lost \subseteq File /\ gc["poll"].doomed \subseteq File \X Place
    BY <1>1 DEF StateTypes, GcType
  <2>2. (ToCopy(f, d) \ sent) \cup (Refs(d) \cap gc["poll"].doomed) \subseteq File \X Place
    BY <1>4, <2>1
  <2> QED BY <1>3, <2>1, <2>2
<1> QED BY <1>1, <1>2, <1>3, <1>5, <1>6, <1>7, <1>8

LEMMA MoveControl == ASSUME Control, Move PROVE Control'
<1> USE Marks
<1>1. StateTypes /\ CmdControl /\ ConfControl /\ Mirrored /\ cmd.at = "move" /\ Running /\ Running'
      /\ UNCHANGED <<conf, saved, ids, mounted, gc, edits, moves, crashes, kept, slip>>
  BY DEF Control, Move, CmdControl, Running, settings, counts
<1>2. CASE cmd' = Idle
  <2>1. UNCHANGED <<store, disk, held, lost>>
    BY <1>2 DEF Move, Idle
  <2>2. StateTypes'
    BY <1>1, <1>2, <2>1 DEF StateTypes
  <2> QED BY <1>1, <1>2, <2>1, <2>2 DEF Control, CmdControl, ConfControl, Mirrored, SetUp
<1>3. CASE cmd' # Idle
  <2>1. /\ ~store.pending /\ gc["main"] = NoGc /\ cmd.folder \in Folder /\ cmd.from = store.folder
        /\ store.id \in Id /\ Brought \in Document /\ store' \in StoreType
        /\ store'.folder = cmd.folder /\ store'.doc = Brought /\ store'.id = store.id /\ ~store'.pending
        /\ held' = Brought.edits /\ SetsReplica(cmd.folder, store.id, Brought)
        /\ cmd' \in CmdType /\ cmd'.at = "clean" /\ cmd'.folder = cmd.folder
        /\ cmd'.from = cmd.from /\ lost' \subseteq File
    BY <1>3, MoveDoes
  <2>2. held' \subseteq Edit
    BY <2>1 DEF Document
  <2>3. StateTypes'
    BY <1>1, <2>1, <2>2 DEF StateTypes, SetsReplica
  <2>4. Mirrored'
    BY <2>1 DEF Mirrored, SetsReplica
  <2>5. CmdControl'
    <3>1. cmd.folder = Chosen => mounted
      BY <1>1 DEF CmdControl
    <3>2. store.folder \in Folder /\ (store.folder = Chosen => mounted)
      BY <1>1, <2>1 DEF ConfControl, StateTypes, StoreType
    <3> QED BY <1>1, <2>1, <3>2 DEF CmdControl, SetUp
  <2>6. ConfControl'
    BY <1>1, <2>1 DEF ConfControl, CmdControl
  <2> QED BY <2>3, <2>4, <2>5, <2>6 DEF Control
<1> QED BY <1>2, <1>3

LEMMA CleanDoes ==
    ASSUME Control, Clean
    PROVE  /\ cmd.at = "clean" /\ Running /\ ~store.pending /\ cmd.from \in Folder
           /\ store.id \in Id /\ cmd.folder = store.folder
           /\ cmd' = [cmd EXCEPT !.at = "save"]
           /\ \/ UNCHANGED <<disk, kept, lost>>
              \/ /\ cmd.from # cmd.folder
                 /\ SetsReplica(cmd.from, store.id, None)
                 /\ \E gone \in {{}, {b \in disk[cmd.from].blobs : b[2] = store.id}} :
                      \A g \in Folder : disk'[g].blobs =
                          IF g = cmd.from THEN disk[g].blobs \ gone ELSE disk[g].blobs
                 /\ kept' = IF cmd.doc = None THEN kept
                            ELSE kept \ (disk[cmd.from].replica[store.id].edits \ store.doc.edits)
                 /\ lost' = lost \cup {x \in File : \E n \in Others(cmd.from, store.id) :
                                           disk[cmd.from].replica[n].path[x] = store.id}
<1> USE Marks
<1>1. StateTypes /\ CmdControl /\ cmd.at = "clean" /\ cmd' = [cmd EXCEPT !.at = "save"]
  BY DEF Control, Clean
<1>2. /\ Running /\ ~store.pending /\ cmd.from \in Folder /\ cmd.folder = store.folder
      /\ store.id \in Id /\ disk \in [Folder -> SideType]
  BY <1>1 DEF CmdControl, StateTypes, StoreType
<1>3. CASE ~(cmd.move /\ cmd.from # cmd.folder)
  BY <1>1, <1>2, <1>3 DEF Clean
<1>4. CASE cmd.move /\ cmd.from # cmd.folder
  <2> DEFINE f == cmd.from
             here == disk[f].blobs
             ours == {b \in here : b[2] = store.id}
  <2>1. PICK gone \in {{}, ours} :
          /\ disk' = [disk EXCEPT ![f] = [replica |-> [@.replica EXCEPT ![store.id] = None],
                                          blobs   |-> here \ gone]]
          /\ kept' = IF cmd.doc = None THEN kept
                     ELSE kept \ (disk[f].replica[store.id].edits \ store.doc.edits)
          /\ lost' = lost \cup {x \in File : \E n \in Others(f, store.id) :
                                    disk[f].replica[n].path[x] = store.id}
    BY <1>4 DEF Clean
  <2>2. disk[f].replica \in [Name -> Document \cup {None}] /\ here \subseteq File \X Place
    BY <1>2 DEF SideType
  <2> DEFINE B == here \ gone
  <2>3. B \in SUBSET (File \X Place)
    BY <2>2
  <2> DEFINE side == [replica |-> [disk[f].replica EXCEPT ![store.id] = None], blobs |-> B]
  <2>4. disk' = [disk EXCEPT ![f] = side]
    BY <1>2, <2>1
  <2>5. SetsReplica(f, store.id, None) /\ SetsBlobs(f, B)
    <3> HIDE DEF B, f, side
    <3>1. f \in Folder
      BY <1>2 DEF f
    <3>2. side = [replica |-> [disk[f].replica EXCEPT ![store.id] = None], blobs |-> B]
      BY DEF side
    <3> QED BY <1>1, <1>2, <2>3, <2>4, <3>1, <3>2, Marks, PutsBoth
  <2> QED BY <1>1, <1>2, <1>4, <2>1, <2>5 DEF SetsBlobs
<1> QED BY <1>3, <1>4

LEMMA CleanControl == ASSUME Control, Clean PROVE Control'
<1> USE Marks
<1>1. StateTypes /\ CmdControl /\ ConfControl /\ Mirrored /\ Running'
      /\ UNCHANGED <<conf, saved, ids, store, mounted, gc, edits, moves, crashes, held, slip>>
  BY CleanDoes DEF Control, Clean, Running, settings, counts
<1>2. /\ cmd.at = "clean" /\ Running /\ ~store.pending /\ cmd.from \in Folder
      /\ cmd.folder = store.folder /\ store.folder \in Folder
      /\ cmd' = [cmd EXCEPT !.at = "save"] /\ store.id \in Name
  BY <1>1, CleanDoes DEF StateTypes, StoreType
<1>3. cmd' \in CmdType /\ cmd'.at = "save" /\ cmd'.folder = store.folder
  BY <1>1, <1>2 DEF StateTypes, CmdType
<1>4. CASE UNCHANGED <<disk, kept, lost>>
  <2>1. StateTypes'
    BY <1>1, <1>3, <1>4 DEF StateTypes
  <2> QED BY <1>1, <1>2, <1>3, <1>4, <2>1 DEF Control, CmdControl, ConfControl, Mirrored, SetUp
<1>5. CASE ~UNCHANGED <<disk, kept, lost>>
  <2>1. cmd.from # cmd.folder /\ SetsReplica(cmd.from, store.id, None)
        /\ kept' \subseteq kept /\ lost' \subseteq File
    BY <1>1, <1>5, CleanDoes DEF StateTypes
  <2>2. StateTypes'
    BY <1>1, <1>3, <2>1 DEF StateTypes, SetsReplica
  <2>3. Mirrored'
    BY <1>1, <1>2, <2>1 DEF Mirrored, SetsReplica
  <2> QED BY <1>1, <1>2, <1>3, <2>2, <2>3 DEF Control, CmdControl, ConfControl, SetUp
<1> QED BY <1>4, <1>5

LEMMA SaveControl == ASSUME Control, Save PROVE Control'
<1> USE Marks
<1>1. StateTypes /\ CmdControl /\ ConfControl /\ Mirrored /\ cmd.at = "save" /\ Running
      /\ UNCHANGED <<ids, store, disk, mounted, gc, edits, moves, crashes, kept, held>>
      /\ cmd' = Idle /\ cmd.folder = store.folder /\ store.folder \in Folder
  BY DEF Control, Save, CmdControl, counts, StateTypes, StoreType
<1>2. conf' \in ConfType /\ conf'.id = conf.id /\ (saved' = saved \/ saved' = conf') /\ lost' \subseteq File
      /\ slip' \in BOOLEAN
  BY <1>1 DEF Save, StateTypes, ConfType, Running, Stray
<1>3. StateTypes'
  BY <1>1, <1>2 DEF StateTypes
<1> QED BY <1>1, <1>2, <1>3 DEF Control, CmdControl, ConfControl, Mirrored, SetUp, Running, Idle

\* The writes of a store on disk, and of the stand-in.
LEMMA WritesControl ==
    ASSUME Control, Running, NEW d \in Document, Commit(d),
           UNCHANGED <<conf, saved, ids, mounted, moves, crashes, slip>>,
           edits' \in 0..MaxEdit, kept' \subseteq Edit, lost' \subseteq File,
           gc' \in [Thread -> GcType], \A t \in Thread : gc'[t].at # "unlink" => gc'[t].doomed = {},
           store.pending => gc' = gc,
           (cmd' = cmd /\ gc'["main"] = gc["main"] /\ (SetUp => gc' = gc)) \/ cmd' = Idle
    PROVE  Control'
<1> USE Marks
<1>1. StateTypes /\ CmdControl /\ ConfControl /\ Mirrored /\ Running'
  BY DEF Control, Running
<1>2. /\ store' \in StoreType /\ store' = [store EXCEPT !.doc = d] /\ store'.doc = d
      /\ store'.folder = store.folder /\ store'.id = store.id
      /\ store'.pending = store.pending
      /\ disk' \in [Folder -> SideType] /\ held' \subseteq Edit
      /\ store.pending => disk' = disk /\ held' = held
      /\ ~store.pending => SetsReplica(store.folder, store.id, d)
  BY <1>1, CommitStores
<1>3. cmd' \in CmdType
  BY <1>1 DEF StateTypes
<1>4. StateTypes'
  BY <1>1, <1>2, <1>3 DEF StateTypes
<1>5. Mirrored'
  BY <1>1, <1>2 DEF Mirrored, SetsReplica, StateTypes, StoreType
<1>6. CmdControl'
  BY <1>1, <1>2 DEF CmdControl, SetUp
<1>7. ConfControl'
  BY <1>1, <1>2 DEF ConfControl
<1> QED BY <1>4, <1>5, <1>6, <1>7 DEF Control

LEMMA WriteControl == ASSUME Control, Write PROVE Control'
<1> DEFINE d == [store.doc EXCEPT !.edits = @ \cup {edits'}]
<1>1. /\ StateTypes /\ CmdControl /\ Running /\ edits < MaxEdit /\ edits' = edits + 1 /\ Commit(d)
      /\ UNCHANGED <<conf, saved, ids, mounted, cmd, gc, moves, crashes, slip, lost>>
      /\ kept' = IF store.pending THEN kept ELSE kept \cup {edits'}
  BY DEF Control, Write, Ready, settings
<1>2. edits' \in 0..MaxEdit /\ edits' \in Edit
  BY <1>1, FolderAssumption DEF StateTypes, Edit
<1>3. d \in Document /\ kept' \subseteq Edit /\ lost' \subseteq File /\ gc' \in [Thread -> GcType]
  BY <1>1, <1>2 DEF StateTypes, StoreType, Document
<1> HIDE DEF d
<1>4. \A t \in Thread : gc'[t].at # "unlink" => gc'[t].doomed = {}
  BY <1>1 DEF CmdControl
<1> QED BY <1>1, <1>2, <1>3, <1>4, WritesControl

LEMMA AttachControl == ASSUME Control, NEW x \in File, Attach(x) PROVE Control'
<1> USE Marks
<1>1. /\ StateTypes /\ CmdControl /\ ConfControl /\ Mirrored /\ Running /\ Running' /\ ~store.pending
      /\ cmd.at = "idle" /\ gc["main"].at = "idle"
      /\ disk' = [disk EXCEPT ![store.folder].blobs = @ \cup {<<x, store.id>>}]
      /\ cmd' = [Idle EXCEPT !.at = "attach", !.files = {x}]
      /\ UNCHANGED <<conf, saved, ids, store, mounted, gc, edits, moves, crashes, kept, held, slip, lost>>
  BY DEF Control, Attach, MainFree, Ready, Running, settings, counts, seen
<1>2. store.folder \in Folder /\ store.id \in Place /\ disk[store.folder].blobs \subseteq File \X Place
  BY <1>1 DEF StateTypes, StoreType, SideType
<1>3. disk' \in [Folder -> SideType] /\ KeepsReplicas
  <2> DEFINE B == disk[store.folder].blobs \cup {<<x, store.id>>}
  <2>1. B \in SUBSET (File \X Place)
    BY <1>2
  <2>2. disk' = [disk EXCEPT ![store.folder].blobs = B]
    BY <1>1
  <2> HIDE DEF B
  <2> QED BY <1>1, <1>2, <2>1, <2>2, PutsBlobs
<1>4. cmd' \in CmdType /\ cmd'.at = "attach"
  BY <1>1 DEF CmdType, Idle
<1>5. gc["main"] = NoGc
  BY <1>1 DEF StateTypes, CmdControl, GcType, NoGc
<1>6. StateTypes'
  BY <1>1, <1>3, <1>4 DEF StateTypes
<1>7. Mirrored'
  BY <1>1, <1>2, <1>3 DEF Mirrored, KeepsReplicas
<1> QED BY <1>1, <1>4, <1>5, <1>6, <1>7 DEF Control, CmdControl, ConfControl, SetUp

LEMMA AttachEndControl == ASSUME Control, AttachEnd PROVE Control'
<1> USE Marks
<1>1. /\ StateTypes /\ CmdControl /\ ConfControl /\ Mirrored /\ Running /\ ~store.pending
      /\ cmd.at = "attach" /\ cmd' = Idle
      /\ UNCHANGED <<conf, saved, ids, mounted, gc, edits, moves, crashes, kept, slip>>
  BY DEF Control, AttachEnd, CmdControl, settings, counts
<1>2. CASE UNCHANGED <<store, disk, held, lost>>
  <2>1. StateTypes'
    BY <1>1, <1>2 DEF StateTypes
  <2> QED BY <1>1, <1>2, <2>1 DEF Control, CmdControl, ConfControl, Mirrored, SetUp, Running, Idle
<1>3. CASE ~UNCHANGED <<store, disk, held, lost>>
  <2> DEFINE q == [x \in File |-> IF x \in cmd.files THEN store.id ELSE store.doc.path[x]]
             d == [store.doc EXCEPT !.path = q]
  <2>1. d \in Document
    BY <1>1, PathOnly DEF StateTypes, StoreType, Document
  <2>2. Commit(d) /\ lost' \in {lost, lost \cup cmd.files}
    BY <1>3 DEF AttachEnd
  <2> HIDE DEF d
  <2>3. lost' \subseteq File /\ edits' \in 0..MaxEdit /\ kept' \subseteq Edit /\ gc' \in [Thread -> GcType]
        /\ \A t \in Thread : gc'[t].at # "unlink" => gc'[t].doomed = {}
    BY <1>1, <2>2 DEF StateTypes, CmdType, CmdControl
  <2> QED BY <1>1, <2>1, <2>2, <2>3, WritesControl
<1> QED BY <1>2, <1>3

LEMMA RemoveControl == ASSUME Control, NEW x \in File, Remove(x) PROVE Control'
<1> USE Marks
<1> DEFINE d == [store.doc EXCEPT !.path[x] = Gone]
<1>1. /\ StateTypes /\ CmdControl /\ Running /\ ~store.pending /\ cmd.at = "idle"
      /\ gc["main"].at = "idle" /\ Commit(d) /\ gc' = [gc EXCEPT !["main"].at = "scan"]
      /\ UNCHANGED <<conf, saved, ids, mounted, cmd, edits, moves, crashes, kept, slip, lost>>
  BY DEF Control, Remove, MainFree, Ready, settings, counts
<1>2. d \in Document
  BY <1>1 DEF StateTypes, StoreType, Document
<1> HIDE DEF d
<1>3. gc' \in [Thread -> GcType] /\ \A t \in Thread : gc'[t].at # "unlink" => gc'[t].doomed = {}
  BY <1>1 DEF StateTypes, GcType, CmdControl
<1>5. StateTypes /\ CmdControl /\ ConfControl /\ Mirrored /\ Running'
  BY <1>1 DEF Control, Running
<1>6. /\ store' \in StoreType /\ store'.doc = d
      /\ store'.folder = store.folder /\ store'.id = store.id /\ ~store'.pending
      /\ disk' \in [Folder -> SideType] /\ held' \subseteq Edit
      /\ SetsReplica(store.folder, store.id, d)
  BY <1>1, <1>2, CommitStores
<1>7. StateTypes'
  BY <1>1, <1>3, <1>6 DEF StateTypes
<1>8. Mirrored'
  BY <1>5, <1>6 DEF Mirrored, SetsReplica, StateTypes, StoreType
<1>9. CmdControl'
  BY <1>1, <1>3 DEF CmdControl, SetUp
<1>10. ConfControl'
  BY <1>1, <1>5, <1>6 DEF ConfControl
<1> QED BY <1>7, <1>8, <1>9, <1>10 DEF Control

LEMMA ReloadDoes ==
    ASSUME Control, Reload
    PROVE  /\ Running /\ cmd.at \notin {"migrate", "rewrite", "clean"} /\ ~store.pending
           /\ gc["poll"].at = "idle" /\ gc' = [gc EXCEPT !["poll"].at = "scan"]
           /\ store.folder \in Folder /\ store.id \in Id
           /\ store' = [store EXCEPT !.doc = store'.doc, !.stale = FALSE]
           /\ Reads(store.folder, store.id, store'.doc)
           /\ SetsReplica(store.folder, store.id, store'.doc) /\ KeepsBlobs
           /\ held' = store'.doc.edits
<1> USE Marks
<1> DEFINE d == Merged(Replicas(store.folder, Peers(store.folder, store.id)), {store.doc})
<1>1. /\ StateTypes /\ Mirrored /\ Running /\ ~store.pending /\ gc["poll"].at = "idle"
      /\ cmd.at \notin {"migrate", "rewrite", "clean"}
      /\ store' = [store EXCEPT !.doc = d, !.stale = FALSE]
      /\ disk' = [disk EXCEPT ![store.folder].replica[store.id] = d]
      /\ held' = d.edits /\ gc' = [gc EXCEPT !["poll"].at = "scan"]
  BY DEF Control, Reload, Ready, Free, SetUp
<1>2. /\ store.folder \in Folder /\ store.id \in Id /\ store.doc \in Document /\ store \in StoreType
      /\ disk[store.folder].replica[store.id] = store.doc /\ Has(store.folder, store.id)
  BY <1>1 DEF Mirrored, StateTypes, StoreType, Has
<1>3. Reads(store.folder, store.id, d)
  BY <1>1, <1>2, PeersRead
<1>4. d \in Document
  BY <1>3 DEF Reads
<1> HIDE DEF d
<1>5. store'.doc = d
  BY <1>1, <1>2 DEF StoreType
<1>6. SetsReplica(store.folder, store.id, d) /\ KeepsBlobs
  BY <1>1, <1>2, <1>4, PutsReplica
<1> QED BY <1>1, <1>2, <1>3, <1>5, <1>6

LEMMA ReloadControl == ASSUME Control, Reload PROVE Control'
<1> USE Marks
<1>1. /\ StateTypes /\ CmdControl /\ ConfControl /\ Running'
      /\ UNCHANGED <<conf, saved, ids, mounted, cmd, edits, moves, crashes, kept, slip, lost>>
  BY ReloadDoes DEF Control, Reload, Running, settings, counts
<1>2. /\ Running /\ cmd.at \notin {"migrate", "rewrite", "clean"} /\ ~store.pending
      /\ gc["poll"].at = "idle" /\ gc' = [gc EXCEPT !["poll"].at = "scan"]
      /\ store.folder \in Folder /\ store.id \in Id /\ store'.doc \in Document
      /\ store' = [store EXCEPT !.doc = store'.doc, !.stale = FALSE]
      /\ SetsReplica(store.folder, store.id, store'.doc)
      /\ held' = store'.doc.edits
  BY ReloadDoes DEF Reads
<1>3. /\ store' \in StoreType /\ store'.folder = store.folder /\ store'.id = store.id /\ ~store'.pending
  BY <1>1, <1>2 DEF StateTypes, StoreType
<1>4. /\ gc' \in [Thread -> GcType] /\ gc'["main"] = gc["main"]
      /\ \A t \in Thread : gc'[t].at # "unlink" => gc'[t].doomed = {}
  BY <1>1, <1>2 DEF StateTypes, GcType, CmdControl
<1>5. StateTypes'
  BY <1>1, <1>2, <1>3, <1>4 DEF StateTypes, SetsReplica, Document
<1>6. Mirrored'
  BY <1>2, <1>3 DEF Mirrored, SetsReplica
<1>7. CmdControl'
  BY <1>1, <1>2, <1>3, <1>4 DEF CmdControl, SetUp
<1>8. ConfControl'
  BY <1>1, <1>2, <1>3 DEF ConfControl
<1> QED BY <1>5, <1>6, <1>7, <1>8 DEF Control

LEMMA ScanControl == ASSUME Control, NEW t \in Thread, Scan(t) PROVE Control'
<1> USE Marks
<1>1. /\ StateTypes /\ CmdControl /\ ConfControl /\ Mirrored /\ gc[t].at = "scan"
      /\ UNCHANGED <<conf, saved, ids, store, disk, mounted, cmd, edits, moves, crashes, kept, held, slip, lost>>
  BY DEF Control, Scan, settings, counts, seen
<1>2. /\ gc' \in [Thread -> GcType] /\ \A u \in Thread \ {t} : gc'[u] = gc[u]
      /\ \A u \in Thread : gc'[u].at # "unlink" => gc'[u].doomed = {}
  <2>1. gc \in [Thread -> GcType] /\ \A u \in Thread : gc[u].at # "unlink" => gc[u].doomed = {}
    BY <1>1 DEF StateTypes, CmdControl
  <2>2. CASE gc' = [gc EXCEPT ![t] = NoGc]
    BY <2>1, <2>2 DEF NoGc
  <2>3. CASE \E b \in Garbage(store.folder, store.doc) :
               gc' = [gc EXCEPT ![t] = [at |-> "unlink", doomed |-> {b}]]
    <3>1. Garbage(store.folder, store.doc) \subseteq File \X Place
      BY <1>1 DEF Garbage, StateTypes, StoreType, SideType
    <3> QED BY <2>1, <2>3, <3>1 DEF GcType
  <2> QED BY <2>2, <2>3 DEF Scan
<1>3. gc[t] # NoGc
  BY <1>1 DEF NoGc
<1>4. /\ cmd.at # "idle" => gc'["main"] = NoGc
      /\ SetUp => gc'["poll"] = NoGc
      /\ Running /\ (store.pending => gc' = gc)
  <2>1. Running /\ (cmd.at # "idle" => t # "main") /\ (SetUp => t # "poll") /\ ~store.pending
    BY <1>1, <1>3 DEF CmdControl, ConfControl
  <2> QED BY <1>1, <1>2, <2>1 DEF CmdControl
<1>5. StateTypes'
  BY <1>1, <1>2 DEF StateTypes
<1>6. Mirrored'
  BY <1>1 DEF Mirrored, Running
<1>7. CmdControl'
  BY <1>1, <1>2, <1>4 DEF CmdControl, SetUp, Running
<1>8. ConfControl'
  BY <1>1, <1>4 DEF ConfControl, Running
<1> QED BY <1>5, <1>6, <1>7, <1>8 DEF Control

LEMMA UnlinkDoes ==
    ASSUME Control, NEW t \in Thread, Unlink(t)
    PROVE  /\ Running /\ ~store.pending /\ gc[t].at = "unlink" /\ store.folder \in Folder
           /\ (cmd.at # "idle" => t # "main") /\ (SetUp => t # "poll")
           /\ disk' \in [Folder -> SideType] /\ KeepsReplicas
           /\ SetsBlobs(store.folder, disk[store.folder].blobs \ gc[t].doomed)
<1> USE Marks
<1>1. /\ StateTypes /\ CmdControl /\ ConfControl /\ gc[t].at = "unlink" /\ gc[t] # NoGc
      /\ disk' = [disk EXCEPT ![store.folder].blobs = @ \ gc[t].doomed]
  BY DEF Control, Unlink, NoGc
<1>2. Running /\ ~store.pending /\ (cmd.at # "idle" => t # "main") /\ (SetUp => t # "poll")
  BY <1>1 DEF CmdControl, ConfControl
<1>3. store.folder \in Folder /\ disk[store.folder].blobs \subseteq File \X Place
  BY <1>1 DEF StateTypes, StoreType, SideType
<1> DEFINE B == disk[store.folder].blobs \ gc[t].doomed
<1>4. B \in SUBSET (File \X Place) /\ disk' = [disk EXCEPT ![store.folder].blobs = B]
  BY <1>1, <1>3
<1>5. disk' \in [Folder -> SideType] /\ KeepsReplicas /\ SetsBlobs(store.folder, B)
  <2> HIDE DEF B
  <2> QED BY <1>1, <1>3, <1>4, PutsBlobs
<1> QED BY <1>1, <1>2, <1>3, <1>5

LEMMA UnlinkControl == ASSUME Control, NEW t \in Thread, Unlink(t) PROVE Control'
<1> USE Marks
<1>1. /\ StateTypes /\ CmdControl /\ ConfControl /\ Mirrored
      /\ UNCHANGED <<conf, saved, ids, store, mounted, cmd, edits, moves, crashes, kept, held, slip, lost>>
      /\ gc' = [gc EXCEPT ![t] = [at |-> "scan", doomed |-> {}]]
  BY DEF Control, Unlink, settings, counts, seen
<1>2. /\ Running /\ ~store.pending /\ (cmd.at # "idle" => t # "main") /\ (SetUp => t # "poll")
      /\ disk' \in [Folder -> SideType] /\ KeepsReplicas /\ store.folder \in Folder
  BY UnlinkDoes
<1>3. /\ gc' \in [Thread -> GcType] /\ \A u \in Thread \ {t} : gc'[u] = gc[u]
      /\ \A u \in Thread : gc'[u].at # "unlink" => gc'[u].doomed = {}
  BY <1>1 DEF StateTypes, GcType, CmdControl
<1>4. StateTypes'
  BY <1>1, <1>2, <1>3 DEF StateTypes
<1>5. Mirrored'
  BY <1>1, <1>2 DEF Mirrored, Running, KeepsReplicas
<1>6. CmdControl'
  BY <1>1, <1>2, <1>3 DEF CmdControl, SetUp, Running
<1>7. ConfControl'
  BY <1>1, <1>2 DEF ConfControl, Running
<1> QED BY <1>4, <1>5, <1>6, <1>7 DEF Control

\* The peer writes a document d of what it had or has merged, with one new edit, and with
\* one attachment removed or added.
LEMMA PeerWritesDoes ==
    ASSUME Control, PeerWrites
    PROVE  /\ edits' = edits + 1 /\ edits' \in Edit
           /\ \E d \in Document, x \in File, p \in {Gone, Peer, None}, w \in Document :
                /\ \/ d = IF Has(Chosen, Peer) THEN disk[Chosen].replica[Peer] ELSE Empty
                   \/ Reads(Chosen, Peer, d)
                /\ Has(Chosen, Peer) => disk[Chosen].replica[Peer].edits \subseteq d.edits
                /\ ~PeerHasOld => \A y \in File : d.path[y] # Flat
                /\ p = Gone => d.path[x] \in Place
                /\ p = Peer => d.path[x] = None /\ Unused(x) /\ x \notin Old
                /\ w = [edits |-> d.edits \cup {edits'},
                        path |-> [d.path EXCEPT ![x] = IF p = None THEN @ ELSE p]]
                /\ SetsReplica(Chosen, Peer, w)
                /\ SetsBlobs(Chosen, IF p = Peer THEN disk[Chosen].blobs \cup {<<x, Peer>>}
                                     ELSE disk[Chosen].blobs)
<1> USE Marks
<1>1. StateTypes
  BY DEF Control
<1> DEFINE base == IF disk[Chosen].replica[Peer] = None THEN Empty ELSE disk[Chosen].replica[Peer]
           read == Merged(Replicas(Chosen, Peers(Chosen, Peer)), {base})
           Doc(all) == IF all THEN read ELSE base
           New(d, x, p) == [edits |-> d.edits \cup {edits'},
                            path  |-> [d.path EXCEPT ![x] = IF p = None THEN d.path[x] ELSE p]]
           Blobs(x, p) == IF p = Peer THEN disk[Chosen].blobs \cup {<<x, Peer>>} ELSE disk[Chosen].blobs
           Side(d, x, p) == [replica |-> [disk[Chosen].replica EXCEPT ![Peer] = New(d, x, p)],
                             blobs   |-> Blobs(x, p)]
<1>2. edits' = edits + 1 /\ edits' \in Edit
  BY <1>1, FolderAssumption DEF PeerWrites, StateTypes, Edit
<1>3. base \in Document /\ base = IF Has(Chosen, Peer) THEN disk[Chosen].replica[Peer] ELSE Empty
  BY <1>1, EmptyIsADocument DEF StateTypes, SideType, Has
<1>4. Reads(Chosen, Peer, read)
  <2> HIDE DEF base
  <2> QED BY <1>1, <1>3, PeersRead
<1>5. PICK all \in BOOLEAN, x \in File, p \in {Gone, Peer, None} :
        /\ ~PeerHasOld => \A y \in File : Doc(all).path[y] # Flat
        /\ p = Gone => Doc(all).path[x] \in Place
        /\ p = Peer => Doc(all).path[x] = None /\ Unused(x) /\ x \notin Old
        /\ disk' = [disk EXCEPT ![Chosen] = Side(Doc(all), x, p)]
  BY DEF PeerWrites
<1>6. PICK d : d = Doc(all)
  OBVIOUS
<1>7. d \in Document /\ (Has(Chosen, Peer) => disk[Chosen].replica[Peer].edits \subseteq d.edits)
  <2>1. read \in Document /\ (Has(Chosen, Peer) => disk[Chosen].replica[Peer].edits \subseteq read.edits)
    BY <1>4 DEF Reads
  <2> QED BY <1>3, <1>6, <2>1
<1>8. d = base \/ d = read
  BY <1>6
<1>9. /\ ~PeerHasOld => \A y \in File : d.path[y] # Flat
      /\ p = Gone => d.path[x] \in Place
      /\ p = Peer => d.path[x] = None /\ Unused(x) /\ x \notin Old
      /\ disk' = [disk EXCEPT ![Chosen] = Side(d, x, p)]
  BY <1>5, <1>6
<1> HIDE DEF base, read, Doc
<1>10. New(d, x, p) \in Document
  BY <1>2, <1>7 DEF Document
<1>11. Blobs(x, p) \in SUBSET (File \X Place)
  BY <1>1 DEF StateTypes, SideType
<1>12. SetsReplica(Chosen, Peer, New(d, x, p)) /\ SetsBlobs(Chosen, Blobs(x, p))
  <2>1. Side(d, x, p) = [replica |-> [disk[Chosen].replica EXCEPT ![Peer] = New(d, x, p)],
                         blobs   |-> Blobs(x, p)]
    OBVIOUS
  <2> HIDE DEF Side, New, Blobs
  <2> QED BY <1>1, <1>9, <1>10, <1>11, <2>1, PutsBoth
<1>13. New(d, x, p) = [edits |-> d.edits \cup {edits'},
                       path |-> [d.path EXCEPT ![x] = IF p = None THEN @ ELSE p]]
  OBVIOUS
<1>14. SetsBlobs(Chosen, IF p = Peer THEN disk[Chosen].blobs \cup {<<x, Peer>>} ELSE disk[Chosen].blobs)
  BY <1>12
<1> QED
  <2> HIDE DEF New, Blobs, Side
  <2> QED BY <1>2, <1>3, <1>4, <1>7, <1>8, <1>9, <1>10, <1>12, <1>13, <1>14

LEMMA PeerWritesControl == ASSUME Control, PeerWrites PROVE Control'
<1> USE Marks
<1>1. /\ StateTypes /\ CmdControl /\ ConfControl /\ Mirrored
      /\ UNCHANGED <<conf, saved, ids, mounted, cmd, gc, moves, crashes, kept, held, slip, lost>>
      /\ store' = [store EXCEPT !.stale = @ \/ (store.folder = Chosen /\ ~store.pending)]
  BY DEF Control, PeerWrites, settings, seen
<1>2. /\ store' \in StoreType /\ store'.folder = store.folder /\ store'.id = store.id
      /\ store'.doc = store.doc /\ store'.pending = store.pending
  BY <1>1 DEF StateTypes, StoreType
<1>3. edits' \in Edit /\ \E w : SetsReplica(Chosen, Peer, w)
  BY PeerWritesDoes
<1>4. disk' \in [Folder -> SideType] /\ edits' \in 0..MaxEdit
  BY <1>3, FolderAssumption DEF SetsReplica, Edit
<1>5. StateTypes'
  BY <1>1, <1>2, <1>4 DEF StateTypes
<1>6. Mirrored'
  BY <1>1, <1>2, <1>3 DEF Mirrored, SetsReplica, StateTypes, StoreType, Running
<1>7. CmdControl'
  BY <1>1, <1>2 DEF CmdControl, SetUp, Running
<1>8. ConfControl'
  BY <1>1, <1>2 DEF ConfControl, Running
<1> QED BY <1>5, <1>6, <1>7, <1>8 DEF Control

LEMMA PeerCollectsDoes ==
    ASSUME Control, PeerCollects
    PROVE  /\ disk' \in [Folder -> SideType] /\ KeepsReplicas
           /\ \E dead \in SUBSET disk[Chosen].blobs :
                /\ SetsBlobs(Chosen, disk[Chosen].blobs \ dead)
                /\ lost' = lost \cup {b[1] : b \in dead}
<1> USE Marks
<1> DEFINE dead == Garbage(Chosen, disk[Chosen].replica[Peer])
           B    == disk[Chosen].blobs \ dead
<1>1. /\ StateTypes /\ lost' = lost \cup {b[1] : b \in dead}
      /\ disk' = [disk EXCEPT ![Chosen].blobs = @ \ dead]
  BY DEF Control, PeerCollects
<1>2. dead \in SUBSET disk[Chosen].blobs /\ disk[Chosen].blobs \subseteq File \X Place
  BY <1>1 DEF Garbage, StateTypes, SideType
<1>3. B \in SUBSET (File \X Place) /\ disk' = [disk EXCEPT ![Chosen].blobs = B]
  BY <1>1, <1>2
<1>4. disk' \in [Folder -> SideType] /\ KeepsReplicas /\ SetsBlobs(Chosen, B)
  <2> HIDE DEF B
  <2> QED BY <1>1, <1>3, PutsBlobs
<1> HIDE DEF dead
<1> QED BY <1>1, <1>2, <1>4

LEMMA PeerCollectsControl == ASSUME Control, PeerCollects PROVE Control'
<1> USE Marks
<1>1. /\ StateTypes /\ CmdControl /\ ConfControl /\ Mirrored
      /\ UNCHANGED <<conf, saved, ids, store, mounted, cmd, gc, edits, moves, crashes, kept, held, slip>>
  BY DEF Control, PeerCollects, settings, counts
<1>2. disk' \in [Folder -> SideType] /\ KeepsReplicas
  BY PeerCollectsDoes
<1>3. lost' \subseteq File
  <2>1. PICK dead \in SUBSET disk[Chosen].blobs : lost' = lost \cup {b[1] : b \in dead}
    BY PeerCollectsDoes
  <2>2. lost \subseteq File /\ dead \subseteq File \X Place
    BY <1>1 DEF StateTypes, SideType
  <2> QED BY <2>1, <2>2
<1>4. StateTypes'
  BY <1>1, <1>2, <1>3 DEF StateTypes
<1>5. Mirrored'
  BY <1>1, <1>2 DEF Mirrored, Running, KeepsReplicas, StateTypes, StoreType
<1> QED BY <1>1, <1>4, <1>5 DEF Control, CmdControl, ConfControl, SetUp, Running

LEMMA MountControl == ASSUME Control, Mount PROVE Control'
<1>1. mounted' = TRUE /\ UNCHANGED <<conf, saved, ids, store, disk, cmd, gc, edits, moves, crashes, kept, held, slip, lost>>
  BY DEF Mount, settings, counts, seen
<1>2. StateTypes'
  BY <1>1 DEF Control, StateTypes
<1>3. CmdControl'
  BY <1>1 DEF Control, CmdControl, SetUp, Running
<1>4. ConfControl'
  BY <1>1 DEF Control, ConfControl, Running
<1>5. Mirrored'
  BY <1>1 DEF Control, Mirrored, Running
<1> QED BY <1>2, <1>3, <1>4, <1>5 DEF Control

LEMMA CrashControl == ASSUME Control, Crash PROVE Control'
<1> USE Marks
<1>1. /\ StateTypes /\ ConfControl /\ crashes < MaxCrashes /\ crashes' = crashes + 1
      /\ conf' = None /\ mounted' \in BOOLEAN /\ cmd' = Idle /\ gc' = [t \in Thread |-> NoGc]
      /\ slip' = (slip \/ cmd.at \in {"clean", "save"})
      /\ lost' = lost \cup Stray \cup IF cmd.at = "rewrite" THEN cmd.files ELSE {}
      /\ UNCHANGED <<saved, ids, store, disk, edits, moves, kept, held>>
  BY DEF Control, Crash
<1>2. crashes' \in 0..MaxCrashes /\ slip' \in BOOLEAN /\ ~Running'
  BY <1>1, FolderAssumption DEF StateTypes, Running
<1>3. lost' \subseteq File
  BY <1>1 DEF StateTypes, CmdType, Stray
<1>4. StateTypes'
  BY <1>1, <1>2, <1>3 DEF StateTypes
<1>5. CmdControl'
  BY <1>1 DEF CmdControl, SetUp, Idle, NoGc
<1>6. ConfControl'
  BY <1>1, <1>2 DEF ConfControl
<1>7. Mirrored'
  BY <1>2 DEF Mirrored
<1> QED BY <1>4, <1>5, <1>6, <1>7 DEF Control

LEMMA NextControl == ASSUME Control, [Next]_vars PROVE Control'
<1>1. CASE UNCHANGED vars
  <2>1. UNCHANGED <<conf, saved, store, disk, mounted, cmd, gc, edits, moves, crashes, ids, kept, held, slip, lost>>
    BY <1>1 DEF vars
  <2>2. StateTypes'
    BY <2>1 DEF Control, StateTypes
  <2>3. CmdControl'
    BY <2>1 DEF Control, CmdControl, SetUp, Running
  <2>4. ConfControl' /\ Mirrored'
    BY <2>1 DEF Control, ConfControl, Mirrored, Running
  <2> QED BY <2>2, <2>3, <2>4 DEF Control
<1>2. CASE Next
  <2>1. CASE Boot \/ Migrate \/ Rewrite \/ RetryOpen \/ OpenDefault
    BY <2>1, BootControl, MigrateControl, RewriteControl, RetryOpenControl, OpenDefaultControl
  <2>2. CASE \E f \in Folder, move \in BOOLEAN : ChangeFolder(f, move)
    BY <2>2, ChangeFolderControl
  <2>3. CASE Move \/ Clean \/ Save
    BY <2>3, MoveControl, CleanControl, SaveControl
  <2>4. CASE Write \/ Reload \/ AttachEnd
    BY <2>4, WriteControl, ReloadControl, AttachEndControl
  <2>5. CASE \E x \in File : Attach(x) \/ Remove(x)
    BY <2>5, AttachControl, RemoveControl
  <2>6. CASE \E t \in Thread : Scan(t) \/ Unlink(t)
    BY <2>6, ScanControl, UnlinkControl
  <2>7. CASE PeerWrites \/ PeerCollects \/ Mount \/ Crash
    BY <2>7, PeerWritesControl, PeerCollectsControl, MountControl, CrashControl
  <2> QED BY <1>2, <2>1, <2>2, <2>3, <2>4, <2>5, <2>6, <2>7 DEF Next
<1> QED BY <1>1, <1>2

\* Every part of the state has its type, whatever folders, crashes and device ids there
\* are: a device takes a new id for every setting it could not save (config.rs,
\* load_or_migrate), and the document of a store is always one that was read or written.
THEOREM FolderTypes == Spec => []TypeOK
<1>1. Init => Control
  BY FolderStarts
<1>2. Control /\ [Next]_vars => Control'
  BY NextControl
<1>3. Control => TypeOK
  BY PartsHaveTypes DEF Control
<1> QED BY <1>1, <1>2, <1>3, PTL DEF Spec

\* The writes of the document, by commands and tools.
LEMMA CommitsADocument ==
    ASSUME Control, Rewrite \/ Write \/ AttachEnd \/ \E x \in File : Remove(x)
    PROVE  /\ Running /\ UNCHANGED <<conf, saved, ids, mounted, slip>>
           /\ cmd' = cmd \/ (cmd' = Idle /\ cmd.at \in {"rewrite", "attach"})
           /\ Write => cmd.at # "clean"
           /\ \/ UNCHANGED <<store, disk, held>>
              \/ \E d \in Document : Commit(d) /\ store.doc.edits \subseteq d.edits
<1>1. StateTypes /\ CmdControl /\ store.doc \in Document /\ store.id \in Place /\ store.doc.path \in [File -> Place \cup {Gone, None}]
  BY Marks DEF Control, StateTypes, StoreType, Document
<1>2. ASSUME NEW S
      PROVE  LET d == [store.doc EXCEPT !.path = [x \in File |-> IF x \in S THEN store.id ELSE @[x]]]
             IN  d \in Document /\ store.doc.edits \subseteq d.edits
  <2> DEFINE q == [x \in File |-> IF x \in S THEN store.id ELSE store.doc.path[x]]
  <2>1. q \in [File -> Place \cup {Gone, None}]
    BY <1>1
  <2> HIDE DEF q
  <2>2. [store.doc EXCEPT !.path = q] \in Document /\ [store.doc EXCEPT !.path = q].edits = store.doc.edits
    BY <1>1, <2>1, PathOnly
  <2> QED BY <2>2 DEF q
<1>3. CASE Rewrite
  BY <1>1, <1>2, <1>3 DEF Rewrite, CmdControl, settings
<1>4. CASE AttachEnd
  BY <1>1, <1>2, <1>4 DEF AttachEnd, CmdControl, settings
<1>5. CASE Write
  <2>1. edits' \in Edit
    BY <1>1, <1>5, FolderAssumption DEF Write, StateTypes, Edit
  <2> DEFINE d == [store.doc EXCEPT !.edits = @ \cup {edits'}]
  <2>2. d \in Document /\ store.doc.edits \subseteq d.edits
    BY <1>1, <2>1 DEF Document
  <2>3. Commit(d) /\ cmd' = cmd /\ cmd.at # "clean" /\ Running /\ UNCHANGED <<conf, saved, ids, mounted, slip>>
    BY <1>5 DEF Write, Ready, Free, settings
  <2> HIDE DEF d
  <2> QED BY <2>2, <2>3
<1>6. CASE \E x \in File : Remove(x)
  <2>1. PICK x \in File : Remove(x)
    BY <1>6
  <2> DEFINE d == [store.doc EXCEPT !.path[x] = Gone]
  <2>2. d \in Document /\ store.doc.edits \subseteq d.edits
    BY <1>1 DEF Document
  <2>3. Commit(d) /\ cmd' = cmd /\ cmd.at # "clean" /\ Running /\ UNCHANGED <<conf, saved, ids, mounted, slip>>
    BY <2>1 DEF Remove, MainFree, Ready, settings
  <2> HIDE DEF d
  <2> QED BY <2>2, <2>3
<1> QED BY <1>3, <1>4, <1>5, <1>6

\* A step writes a replica of this device in the chosen folder only while it is mounted.
LEMMA NextLeavesMissing ==
    ASSUME Control, [Next]_vars, ~mounted, NEW n \in Id
    PROVE  disk'[Chosen].replica[n] = disk[Chosen].replica[n]
<1> USE Marks
<1>1. StateTypes /\ CmdControl /\ ConfControl /\ store.folder \in Folder /\ store.id \in Id /\ n \in Name
  BY DEF Control, StateTypes, StoreType
<1>2. ASSUME NEW d \in Document, Running, Commit(d)
      PROVE  disk'[Chosen].replica[n] = disk[Chosen].replica[n]
  <2>1. store.pending \/ store.folder # Chosen
    BY <1>1, <1>2 DEF ConfControl
  <2>2. store.pending => disk' = disk
    BY <1>1, <1>2, CommitStores
  <2>3. ~store.pending => SetsReplica(store.folder, store.id, d)
    BY <1>1, <1>2, CommitStores
  <2> QED BY <1>1, <2>1, <2>2, <2>3 DEF SetsReplica
<1>3. CASE disk' = disk
  BY <1>3
<1>4. CASE Boot
  <2>1. LoadConfig /\ ~Running
    BY <1>4 DEF Boot
  <2>2. conf'.folder \in Folder /\ conf'.id \in Id
    BY <2>1, ConfigLoads
  <2>3. CASE conf'.folder = Chosen
    BY <1>4, <2>3 DEF Boot
  <2>4. CASE conf'.folder # Chosen
    <3>1. Open(conf'.folder, conf'.id)
      BY <1>4, <2>4 DEF Boot
    <3>2. SetsReplica(conf'.folder, conf'.id, store'.doc)
      BY <1>1, <2>2, <3>1, OpenStores
    <3> QED BY <1>1, <2>4, <3>2 DEF SetsReplica
  <2> QED BY <2>3, <2>4
<1>5. CASE OpenDefault
  <2>1. Open(Default, conf.id) /\ conf.id \in Id
    BY <1>1, <1>5 DEF OpenDefault, MainFree, Ready, ConfControl
  <2>2. SetsReplica(Default, conf.id, store'.doc)
    BY <1>1, <2>1, OpenStores
  <2> QED BY <1>1, <2>2 DEF SetsReplica
<1>6. CASE Migrate
  <2>1. cmd.at = "migrate" /\ Running /\ ~store.pending
    BY <1>1, <1>6 DEF Migrate, CmdControl
  <2>2. \E B : disk' = [disk EXCEPT ![store.folder].blobs = B]
    BY <1>6 DEF Migrate
  <2> QED BY <1>1, <2>2 DEF StateTypes, SideType
<1>7. CASE Move
  <2>1. CASE cmd' = Idle
    BY <1>7, <2>1 DEF Move, Idle
  <2>2. CASE cmd' # Idle
    <3>1. SetsReplica(cmd.folder, store.id, Brought) /\ cmd.at = "move"
      BY <1>7, <2>2, MoveDoes
    <3>2. cmd.folder # Chosen
      BY <1>1, <3>1 DEF CmdControl
    <3> QED BY <1>1, <3>1, <3>2 DEF SetsReplica
  <2> QED BY <2>1, <2>2
<1>8. CASE Clean
  <2>1. cmd.at = "clean" /\ (disk' = disk \/ SetsReplica(cmd.from, store.id, None))
    BY <1>8, CleanDoes
  <2>2. cmd.from # Chosen
    BY <1>1, <2>1 DEF CmdControl
  <2> QED BY <1>1, <2>1, <2>2 DEF SetsReplica
<1>9. CASE Reload
  <2>1. SetsReplica(store.folder, store.id, store'.doc) /\ Running /\ ~store.pending
    BY <1>9, ReloadDoes
  <2>2. store.folder # Chosen
    BY <1>1, <2>1 DEF ConfControl
  <2> QED BY <1>1, <2>1, <2>2 DEF SetsReplica
<1>10. CASE \E x \in File : Attach(x)
  <2>1. PICK x \in File : Attach(x)
    BY <1>10
  <2>2. \E B : disk' = [disk EXCEPT ![store.folder].blobs = B]
    BY <2>1 DEF Attach
  <2> QED BY <1>1, <2>2 DEF StateTypes, SideType
<1>11. CASE \E t \in Thread : Unlink(t)
  <2>1. KeepsReplicas
    BY <1>11, UnlinkDoes
  <2> QED BY <1>1, <2>1 DEF KeepsReplicas
<1>12. CASE PeerWrites
  <2>1. \E w : SetsReplica(Chosen, Peer, w)
    BY <1>12, PeerWritesDoes
  <2> QED BY <1>1, <2>1 DEF SetsReplica
<1>13. CASE PeerCollects
  <2>1. KeepsReplicas
    BY <1>13, PeerCollectsDoes
  <2> QED BY <1>1, <2>1 DEF KeepsReplicas
<1>14. CASE Rewrite \/ Write \/ AttachEnd \/ \E x \in File : Remove(x)
  BY <1>2, <1>3, <1>14, CommitsADocument
<1>15. CASE UNCHANGED vars \/ Save \/ Mount \/ Crash
            \/ (\E f \in Folder, move \in BOOLEAN : ChangeFolder(f, move))
            \/ (\E t \in Thread : Scan(t))
  BY <1>15 DEF vars, Save, Mount, Crash, ChangeFolder, Scan
<1>16. ~RetryOpen
  BY DEF RetryOpen
<1> QED BY <1>4, <1>5, <1>6, <1>7, <1>8, <1>9, <1>10, <1>11, <1>12, <1>13, <1>14, <1>15, <1>16
        DEF Next

\* A chosen folder that is not mounted is left alone by every step of this device: the
\* start, the retry, a folder change and what follows it, and any write (lib.rs, setup;
\* store.rs, retry_open and repoint).
THEOREM MissingStaysUntouched == Spec => MissingFolderUntouched
<1>1. Init => Control
  BY FolderStarts
<1>2. Control /\ [Next]_vars => Control'
  BY NextControl
<1>3. Control /\ [Next]_vars =>
        [~mounted => \A n \in Id : disk'[Chosen].replica[n] = disk[Chosen].replica[n]]_vars
  BY NextLeavesMissing
<1> QED BY <1>1, <1>2, <1>3, PTL DEF Spec, MissingFolderUntouched

-----------------------------------------------------------------------------
(* Where edits are *)

InFolder(f, e) == \E n \in Name \ {Legacy} : Has(f, n) /\ e \in disk[f].replica[n].edits

\* No replica loses an edit in a step.
EditsStay ==
    \A g \in Folder, m \in Name :
        Has(g, m) => /\ disk'[g].replica[m] # None
                     /\ disk[g].replica[m].edits \subseteq disk'[g].replica[m].edits

LEMMA Grows ==
    ASSUME NEW f \in Folder, NEW n \in Name, NEW d \in Document, SetsReplica(f, n, d),
           Has(f, n) => disk[f].replica[n].edits \subseteq d.edits
    PROVE  EditsStay
BY Marks DEF SetsReplica, EditsStay, Has

\* Only a folder change replaces or removes a replica; all other steps add to what it says.
LEMMA NextKeepsEdits ==
    ASSUME Control, [Next]_vars
    PROVE  \/ EditsStay
           \/ Move /\ cmd' # Idle
           \/ Clean /\ disk' # disk
<1> USE Marks
<1>1. /\ StateTypes /\ Mirrored /\ store.folder \in Folder /\ store.id \in Id /\ store.id \in Name
  BY DEF Control, StateTypes, StoreType
<1>2. ASSUME KeepsReplicas PROVE EditsStay
  BY <1>2 DEF KeepsReplicas, EditsStay, Has
<1>3. ASSUME disk' = disk PROVE EditsStay
  BY <1>3 DEF EditsStay, Has
<1>4. ASSUME NEW f \in Folder, NEW id \in Id, Open(f, id) PROVE EditsStay
  <2>1. Reads(f, id, store'.doc) /\ SetsReplica(f, id, store'.doc)
    BY <1>1, <1>4, OpenStores
  <2>2. store'.doc \in Document /\ (Has(f, id) => disk[f].replica[id].edits \subseteq store'.doc.edits)
    BY <2>1 DEF Reads
  <2> QED BY <1>1, <2>1, <2>2, Grows
<1>5. CASE Boot
  <2>1. CASE conf'.folder = Chosen /\ ~mounted
    BY <1>3, <1>5, <2>1 DEF Boot
  <2>2. CASE ~(conf'.folder = Chosen /\ ~mounted)
    <3>1. conf'.folder \in Folder /\ conf'.id \in Id
      BY <1>5, ConfigLoads DEF Boot
    <3> QED BY <1>4, <1>5, <2>2, <3>1 DEF Boot
  <2> QED BY <2>1, <2>2
<1>6. CASE RetryOpen
  BY <1>1, <1>4, <1>6 DEF RetryOpen
<1>7. CASE OpenDefault
  <2>1. conf.id \in Id
    BY <1>1, <1>7 DEF OpenDefault, MainFree, Ready, Control, ConfControl
  <2> QED BY <1>4, <1>7, <2>1 DEF OpenDefault
<1>8. CASE Migrate \/ \E x \in File : Attach(x)
  <2>1. \E B : disk' = [disk EXCEPT ![store.folder].blobs = B]
    BY <1>8 DEF Migrate, Attach
  <2> QED BY <1>1, <1>2, <2>1 DEF StateTypes, SideType, KeepsReplicas
<1>9. CASE Rewrite \/ Write \/ AttachEnd \/ \E x \in File : Remove(x)
  <2>1. CASE disk' = disk
    BY <1>3, <2>1
  <2>2. CASE disk' # disk
    <3>1. PICK d \in Document : Commit(d) /\ store.doc.edits \subseteq d.edits /\ Running
      BY <1>9, <2>2, CommitsADocument
    <3>2. ~store.pending /\ SetsReplica(store.folder, store.id, d)
      BY <1>1, <2>2, <3>1, CommitStores
    <3> QED BY <1>1, <3>1, <3>2, Grows DEF Mirrored
  <2> QED BY <2>1, <2>2
<1>10. CASE Reload
  <2>1. Reads(store.folder, store.id, store'.doc) /\ SetsReplica(store.folder, store.id, store'.doc)
    BY <1>10, ReloadDoes
  <2>2. /\ store'.doc \in Document
        /\ Has(store.folder, store.id) => disk[store.folder].replica[store.id].edits \subseteq store'.doc.edits
    BY <1>1, <2>1 DEF Reads
  <2> QED BY <1>1, <2>1, <2>2, Grows
<1>11. CASE \E t \in Thread : Unlink(t)
  BY <1>2, <1>11, UnlinkDoes
<1>12. CASE PeerWrites
  <2>1. PICK d \in Document, w \in Document :
          /\ Has(Chosen, Peer) => disk[Chosen].replica[Peer].edits \subseteq d.edits
          /\ w.edits = d.edits \cup {edits'} /\ SetsReplica(Chosen, Peer, w)
    BY <1>12, PeerWritesDoes
  <2> QED BY <2>1, Grows
<1>13. CASE PeerCollects
  BY <1>2, <1>13, PeerCollectsDoes
<1>14. CASE UNCHANGED vars \/ Save \/ Mount \/ Crash
            \/ (\E f \in Folder, move \in BOOLEAN : ChangeFolder(f, move))
            \/ (\E t \in Thread : Scan(t))
  BY <1>3, <1>14 DEF vars, Save, Mount, Crash, ChangeFolder, Scan
<1>15. CASE Move
  BY <1>3, <1>15 DEF Move, Idle
<1>16. CASE Clean
  BY <1>3, <1>16
<1> QED BY <1>5, <1>6, <1>7, <1>8, <1>9, <1>10, <1>11, <1>12, <1>13, <1>14, <1>15, <1>16
        DEF Next

\* What a store showed last is on disk in the folder that the setting names, except while
\* a folder change is about to change the setting or after it failed to.
HeldSaved  == ~slip /\ cmd.at \notin {"clean", "save"} => \A e \in held : InFolder(SavedFolder, e)
AtSaved    == Running /\ ~slip /\ cmd.at \notin {"clean", "save"} => store.folder = SavedFolder
WaitsThere == Running /\ store.pending => store.folder = SavedFolder

HeldInv == ReopenedStoreHolds /\ HeldSaved /\ AtSaved /\ WaitsThere

\* What a start, a retry and the choice of the default folder end with.
LEMMA OpenHolds ==
    ASSUME Control, NEW f \in Folder, NEW id \in Id, Open(f, id),
           held' \subseteq store'.doc.edits \/ (held' = held /\ \A e \in held : InFolder(f, e))
    PROVE  /\ ~store'.pending /\ store'.folder = f /\ held' \subseteq store'.doc.edits
           /\ \A e \in held' : InFolder(f, e)'
<1> USE Marks
<1>1. /\ ~store'.pending /\ store'.folder = f /\ Reads(f, id, store'.doc)
      /\ SetsReplica(f, id, store'.doc)
  BY OpenStores DEF Control
<1>2. store'.doc \in Document
  BY <1>1 DEF Reads
<1>3. held' \subseteq store'.doc.edits
  <2>1. CASE \A e \in held : InFolder(f, e)
    <3>1. held \subseteq store'.doc.edits
      BY <1>1, <2>1 DEF Reads, InFolder
    <3> QED BY <3>1
  <2> QED BY <2>1
<1>4. id \in Name \ {Legacy} /\ disk'[f].replica[id] = store'.doc /\ store'.doc # None
  BY <1>1, <1>2 DEF SetsReplica
<1> QED BY <1>1, <1>3, <1>4 DEF InFolder, Has

LEMMA ShownIsThere ==
    ASSUME Control, Running, ~store.pending
    PROVE  \A e \in store.doc.edits : InFolder(store.folder, e)
<1>1. store.id \in Name \ {Legacy} /\ store.doc # None /\ disk[store.folder].replica[store.id] = store.doc
  BY Marks DEF Control, StateTypes, StoreType, Mirrored
<1> QED BY <1>1 DEF InFolder, Has

LEMMA FolderEditsStay ==
    ASSUME EditsStay, NEW f \in Folder, NEW e, InFolder(f, e)
    PROVE  InFolder(f, e)'
BY DEF EditsStay, InFolder, Has

\* The steps that change no setting and grow the replicas.
LEMMA HeldStays ==
    ASSUME Control, HeldInv, EditsStay, Control',
           UNCHANGED <<conf, saved, slip>>, store'.pending = store.pending,
           store'.folder = store.folder,
           cmd'.at \notin {"clean", "save"} => cmd.at \notin {"clean", "save"},
           \/ held' = held /\ store.doc.edits \subseteq store'.doc.edits
           \/ Running /\ ~store.pending /\ held' = store'.doc.edits
    PROVE  HeldInv'
<1>1. SavedFolder \in Folder /\ SavedFolder' = SavedFolder /\ Running' = Running
  BY Marks DEF SavedFolder, Control, StateTypes, ConfType, Running
<1>2. AtSaved' /\ WaitsThere'
  BY <1>1 DEF HeldInv, AtSaved, WaitsThere
<1>3. ReopenedStoreHolds'
  BY <1>1 DEF HeldInv, ReopenedStoreHolds
<1>4. HeldSaved'
  <2> SUFFICES ASSUME ~slip', cmd'.at \notin {"clean", "save"}, NEW e \in held'
               PROVE  InFolder(SavedFolder, e)'
    BY DEF HeldSaved
  <2>1. CASE held' = held
    <3>1. InFolder(SavedFolder, e)
      BY <2>1 DEF HeldInv, HeldSaved
    <3>2. InFolder(SavedFolder, e)'
      <4>1. PICK f \in Folder : f = SavedFolder
        BY <1>1
      <4>2. InFolder(f, e)'
        BY <3>1, <4>1, FolderEditsStay
      <4> QED BY <1>1, <4>1, <4>2 DEF InFolder
    <3> QED BY <3>2
  <2>2. CASE Running /\ ~store.pending /\ held' = store'.doc.edits
    <3>1. store'.folder = SavedFolder'
      BY <1>1, <2>2 DEF HeldInv, AtSaved
    <3>2. Running' /\ ~store'.pending
      BY <1>1, <2>2
    <3>3. \A a \in store'.doc.edits : InFolder(store.folder, a)'
      <4>1. store'.id \in Name \ {Legacy} /\ store'.doc # None
            /\ disk'[store'.folder].replica[store'.id] = store'.doc
        BY <3>2, Marks DEF Control, StateTypes, StoreType, Mirrored
      <4> QED BY <4>1 DEF InFolder, Has
    <3> QED BY <2>2, <3>1, <3>3 DEF InFolder
  <2> QED BY <2>1, <2>2
<1> QED BY <1>2, <1>3, <1>4 DEF HeldInv

LEMMA NextHeld == ASSUME Control, HeldInv, [Next]_vars, Control' PROVE HeldInv'
<1> USE Marks
<1>1. /\ StateTypes /\ ConfControl /\ store.folder \in Folder /\ store.id \in Id
      /\ (~Running => cmd = Idle) /\ SavedFolder \in Folder
  BY DEF Control, StateTypes, StoreType, ConfControl, SavedFolder, ConfType
<1>2. CASE Boot
  <2>1. /\ LoadConfig /\ ~Running /\ cmd.at = "idle" /\ conf'.folder = SavedFolder
        /\ conf'.folder \in Folder /\ conf'.id \in Id
    BY <1>1, <1>2, ConfigLoads DEF Boot
  <2>2. SavedFolder' = SavedFolder
    BY <1>1, <1>2, <2>1, ConfigLoads DEF Boot, SavedFolder
  <2>3. CASE conf'.folder = Chosen /\ ~mounted
    <3>1. /\ store'.pending /\ store'.folder = Chosen /\ UNCHANGED <<disk, cmd, held, slip>>
      BY <1>2, <2>3 DEF Boot
    <3>2. ReopenedStoreHolds' /\ WaitsThere' /\ AtSaved'
      BY <2>1, <2>2, <2>3, <3>1 DEF ReopenedStoreHolds, WaitsThere, AtSaved
    <3>3. HeldSaved'
      BY <2>2, <3>1 DEF HeldInv, HeldSaved, InFolder, Has
    <3> QED BY <3>2, <3>3 DEF HeldInv
  <2>4. CASE ~(conf'.folder = Chosen /\ ~mounted)
    <3>1. Open(conf'.folder, conf'.id) /\ Reopened /\ cmd'.at = "migrate"
      BY <1>2, <2>4 DEF Boot, Idle
    <3>2. held' \subseteq store'.doc.edits \/ (held' = held /\ \A e \in held : InFolder(SavedFolder, e))
      BY <2>1, <3>1 DEF Reopened, HeldInv, HeldSaved
    <3>3. PICK f \in Folder : f = SavedFolder
      BY <1>1
    <3>4. /\ ~store'.pending /\ store'.folder = f /\ held' \subseteq store'.doc.edits
          /\ \A e \in held' : InFolder(f, e)'
      BY <2>1, <3>1, <3>2, <3>3, OpenHolds DEF InFolder
    <3> QED BY <2>2, <3>3, <3>4 DEF HeldInv, ReopenedStoreHolds, HeldSaved, AtSaved, WaitsThere, InFolder
  <2> QED BY <2>3, <2>4
<1>3. CASE RetryOpen
  <2>1. /\ Running /\ store.pending /\ cmd.at = "idle" /\ Open(store.folder, store.id) /\ Reopened
        /\ UNCHANGED <<conf, saved, cmd>> /\ store.folder = SavedFolder
    BY <1>3 DEF RetryOpen, MainFree, Ready, settings, HeldInv, WaitsThere
  <2>2. held' \subseteq store'.doc.edits \/ (held' = held /\ \A e \in held : InFolder(SavedFolder, e))
    BY <2>1 DEF Reopened, HeldInv, HeldSaved
  <2>3. PICK f \in Folder : f = SavedFolder
    BY <1>1
  <2>4. /\ ~store'.pending /\ store'.folder = f /\ held' \subseteq store'.doc.edits
        /\ \A e \in held' : InFolder(f, e)'
    BY <1>1, <2>1, <2>2, <2>3, OpenHolds DEF InFolder
  <2>5. SavedFolder' = SavedFolder
    BY <2>1 DEF SavedFolder
  <2> QED BY <2>3, <2>4, <2>5 DEF HeldInv, ReopenedStoreHolds, HeldSaved, AtSaved, WaitsThere, InFolder
<1>4. CASE OpenDefault
  <2>1. /\ Open(Default, conf.id) /\ held' = store'.doc.edits /\ cmd'.at = "save" /\ conf.id \in Id
    BY <1>1, <1>4 DEF OpenDefault, MainFree, Ready, ConfControl, Idle
  <2>2. ~store'.pending
    BY <2>1 DEF Open
  <2> QED BY <2>1, <2>2 DEF HeldInv, ReopenedStoreHolds, HeldSaved, AtSaved, WaitsThere
<1>5. CASE Move /\ cmd' # Idle
  <2>1. ~store'.pending /\ held' = store'.doc.edits /\ cmd'.at = "clean"
    BY <1>5, MoveDoes
  <2> QED BY <2>1 DEF HeldInv, ReopenedStoreHolds, HeldSaved, AtSaved, WaitsThere
<1>6. CASE Clean
  <2>1. UNCHANGED <<conf, store, held>> /\ Running /\ ~store.pending /\ cmd'.at = "save"
    BY <1>1, <1>6, CleanDoes DEF Clean, settings, StateTypes, CmdType
  <2> QED BY <2>1 DEF HeldInv, ReopenedStoreHolds, HeldSaved, AtSaved, WaitsThere, Running
<1>7. CASE Save
  <2>1. /\ Running /\ ~store.pending /\ cmd.folder = store.folder /\ UNCHANGED <<store, disk, held>>
    BY <1>7 DEF Save, Control, CmdControl
  <2>2. CASE saved' = [conf EXCEPT !.folder = cmd.folder] /\ conf' = saved'
    <3>1. saved'.folder = store.folder /\ saved' # None /\ SavedFolder' = store.folder
      BY <1>1, <2>1, <2>2 DEF StateTypes, ConfType, SavedFolder, Running
    <3>2. \A e \in held' : InFolder(SavedFolder, e)'
      BY <2>1, <3>1, ShownIsThere DEF HeldInv, ReopenedStoreHolds, InFolder, Has
    <3> QED BY <2>1, <3>1, <3>2 DEF HeldInv, ReopenedStoreHolds, HeldSaved, AtSaved, WaitsThere
  <2>3. CASE slip' = TRUE /\ conf' = conf
    BY <2>1, <2>3 DEF HeldInv, ReopenedStoreHolds, HeldSaved, AtSaved, WaitsThere
  <2> QED BY <1>7, <2>2, <2>3 DEF Save
<1>8. CASE Crash
  <2>1. /\ ~Running' /\ UNCHANGED <<saved, store, disk, held>> /\ SavedFolder' = SavedFolder
        /\ slip' = (slip \/ cmd.at \in {"clean", "save"})
    BY <1>8 DEF Crash, Running, SavedFolder
  <2> QED BY <2>1 DEF HeldInv, ReopenedStoreHolds, HeldSaved, AtSaved, WaitsThere, InFolder, Has
<1>9. CASE ~(Boot \/ RetryOpen \/ OpenDefault \/ (Move /\ cmd' # Idle) \/ Clean \/ Save \/ Crash)
  <2>1. EditsStay
    BY <1>9, NextKeepsEdits
  <2>2. CASE Rewrite \/ Write \/ AttachEnd \/ \E x \in File : Remove(x)
    <3>1. /\ Running /\ UNCHANGED <<conf, saved, ids, mounted, slip>>
          /\ cmd' = cmd \/ (cmd' = Idle /\ cmd.at \in {"rewrite", "attach"})
          /\ \/ UNCHANGED <<store, disk, held>>
             \/ \E d \in Document : Commit(d) /\ store.doc.edits \subseteq d.edits
      BY <2>2, CommitsADocument
    <3>2. CASE UNCHANGED <<store, disk, held>>
      BY <2>1, <3>1, <3>2, HeldStays
    <3>3. CASE \E d \in Document : Commit(d) /\ store.doc.edits \subseteq d.edits
      <4>1. PICK d \in Document : Commit(d) /\ store.doc.edits \subseteq d.edits
        BY <3>3
      <4>2. /\ store'.pending = store.pending /\ store'.folder = store.folder /\ store'.doc = d
            /\ IF store.pending THEN held' = held ELSE held' = d.edits
        BY <1>1, <4>1, CommitStores
      <4> QED BY <2>1, <3>1, <4>1, <4>2, HeldStays
    <3> QED BY <3>1, <3>2, <3>3
  <2>3. CASE Reload
    <3>1. /\ UNCHANGED <<conf, saved, slip, cmd>> /\ Running /\ ~store.pending
          /\ store' = [store EXCEPT !.doc = store'.doc, !.stale = FALSE] /\ held' = store'.doc.edits
      BY <2>3, ReloadDoes DEF Reload, settings
    <3>2. store'.pending = store.pending /\ store'.folder = store.folder
      BY <1>1, <3>1 DEF StateTypes, StoreType
    <3> QED BY <2>1, <3>1, <3>2, HeldStays
  <2>4. CASE PeerWrites
    <3>1. /\ UNCHANGED <<conf, saved, slip, cmd, held>>
          /\ store' = [store EXCEPT !.stale = @ \/ (store.folder = Chosen /\ ~store.pending)]
      BY <2>4 DEF PeerWrites, settings, seen
    <3>2. store'.pending = store.pending /\ store'.folder = store.folder /\ store'.doc = store.doc
      BY <1>1, <3>1 DEF StateTypes, StoreType
    <3> QED BY <2>1, <3>1, <3>2, HeldStays
  <2>5. CASE \/ UNCHANGED vars \/ Migrate \/ PeerCollects \/ Mount \/ Move
             \/ (\E f \in Folder, move \in BOOLEAN : ChangeFolder(f, move))
             \/ (\E x \in File : Attach(x)) \/ (\E t \in Thread : Scan(t) \/ Unlink(t))
    <3>1. UNCHANGED <<conf, saved, slip, store, held>>
      BY <1>9, <2>5 DEF vars, Migrate, PeerCollects, Mount, Move, ChangeFolder, Attach, Scan, Unlink,
                        settings, counts, seen, Idle
    <3>2. cmd'.at \notin {"clean", "save"} => cmd.at \notin {"clean", "save"}
      BY <1>9, <2>5 DEF vars, Migrate, PeerCollects, Mount, Move, ChangeFolder, Attach, Scan, Unlink,
                        MainFree
    <3> QED BY <2>1, <3>1, <3>2, HeldStays
  <2> QED BY <1>9, <2>2, <2>3, <2>4, <2>5 DEF Next
<1> QED BY <1>2, <1>3, <1>4, <1>5, <1>6, <1>7, <1>8, <1>9

\* The store that a start, a retry or the choice of the default folder ends with shows
\* every edit that was shown before, whatever peers and crashes did in between, unless a
\* folder change was cut off before its setting was saved (lib.rs, setup; store.rs,
\* retry_open and repoint; config.rs, set_folder).
THEOREM ReopeningHolds == Spec => []ReopenedStoreHolds
<1>1. Init => Control /\ HeldInv
  <2>1. Init => HeldInv
    BY DEF Init, HeldInv, ReopenedStoreHolds, HeldSaved, AtSaved, WaitsThere, Running
  <2> QED BY <2>1, FolderStarts
<1>2. (Control /\ HeldInv) /\ [Next]_vars => (Control /\ HeldInv)'
  BY NextControl, NextHeld
<1>3. Control /\ HeldInv => ReopenedStoreHolds
  BY DEF HeldInv
<1> QED BY <1>1, <1>2, <1>3, PTL DEF Spec

\* What a folder change reads is what its target holds, and it leaves behind what its store
\* had; so neither the replica it replaces nor, after the move, the one it removes has
\* edits of its own, if the folder changes.
TargetWasRead ==
    cmd.at = "move" /\ Has(cmd.folder, store.id) =>
        disk[cmd.folder].replica[store.id].edits \subseteq IF cmd.doc = None THEN {} ELSE cmd.doc.edits
SourceWasBrought ==
    cmd.at = "clean" /\ cmd.doc = None /\ cmd.from # cmd.folder /\ Has(cmd.from, store.id) =>
        disk[cmd.from].replica[store.id].edits \subseteq store.doc.edits

KeptInv == TargetWasRead /\ SourceWasBrought /\ NothingVanishes

\* No other step touches what a folder change has read.
LEMMA OthersLeaveTheMove ==
    ASSUME Control, ~Reselect, [Next]_vars, cmd'.at \in {"move", "clean"}, cmd' = cmd
    PROVE  /\ store'.id = store.id
           /\ cmd.at = "move" => disk'[cmd.folder].replica[store.id] = disk[cmd.folder].replica[store.id]
           /\ cmd.at = "clean" => /\ store'.doc = store.doc
                                  /\ disk'[cmd.from].replica[store.id] = disk[cmd.from].replica[store.id]
<1> USE Marks
<1>1. /\ StateTypes /\ CmdControl /\ store.folder \in Folder /\ store.id \in Id /\ store.id \in Name
      /\ ~store.pending /\ Running /\ cmd.at \in {"move", "clean"} /\ store \in StoreType
      /\ cmd.at = "move" => cmd.folder \in Folder /\ cmd.folder # store.folder
      /\ cmd.at = "clean" => cmd.from \in Folder
  BY DEF Control, StateTypes, StoreType, CmdControl
<1> DEFINE F == IF cmd.at = "move" THEN cmd.folder ELSE cmd.from
<1>2. F \in Folder
  BY <1>1
<1> SUFFICES /\ store'.id = store.id /\ (cmd.at = "clean" => store'.doc = store.doc)
             /\ disk'[F].replica[store.id] = disk[F].replica[store.id]
  BY <1>1
<1> HIDE DEF F
<1>3. CASE UNCHANGED <<store, disk>>
  BY <1>3
<1>4. CASE Write
  <2>1. PICK d \in Document : UNCHANGED <<store, disk>> \/ Commit(d)
    BY <1>1, <1>4, CommitsADocument DEF StateTypes, StoreType
  <2>2. CASE Commit(d)
    <3>1. store'.id = store.id /\ SetsReplica(store.folder, store.id, d) /\ cmd.at = "move"
      BY <1>1, <1>4, <2>2, CommitStores DEF Write, Free
    <3>2. F # store.folder
      BY <1>1, <3>1 DEF F
    <3> QED BY <1>1, <1>2, <3>1, <3>2 DEF SetsReplica
  <2> QED BY <1>3, <2>1, <2>2
<1>5. CASE Reload
  <2>1. /\ store' = [store EXCEPT !.doc = store'.doc, !.stale = FALSE] /\ cmd.at = "move"
        /\ SetsReplica(store.folder, store.id, store'.doc)
    BY <1>1, <1>5, ReloadDoes
  <2>2. F # store.folder /\ store'.id = store.id
    BY <1>1, <2>1 DEF F, StoreType
  <2> QED BY <1>1, <1>2, <2>1, <2>2 DEF SetsReplica
<1>6. CASE \E t \in Thread : Unlink(t)
  <2>1. KeepsReplicas /\ store' = store
    BY <1>6, UnlinkDoes DEF Unlink
  <2> QED BY <1>2, <2>1 DEF KeepsReplicas
<1>7. CASE PeerWrites
  <2>1. /\ store' = [store EXCEPT !.stale = @ \/ (store.folder = Chosen /\ ~store.pending)]
        /\ \E w : SetsReplica(Chosen, Peer, w)
    BY <1>7, PeerWritesDoes DEF PeerWrites
  <2>2. store'.id = store.id /\ store'.doc = store.doc
    BY <1>1, <2>1 DEF StoreType
  <2> QED BY <1>1, <1>2, <2>1, <2>2 DEF SetsReplica
<1>8. CASE PeerCollects
  <2>1. KeepsReplicas /\ store' = store
    BY <1>8, PeerCollectsDoes DEF PeerCollects
  <2> QED BY <1>2, <2>1 DEF KeepsReplicas
<1>9. CASE UNCHANGED vars \/ (\E t \in Thread : Scan(t)) \/ Mount
  BY <1>3, <1>9 DEF vars, Scan, Mount
<1>10. ~(Boot \/ Migrate \/ Rewrite \/ RetryOpen \/ OpenDefault \/ Save \/ AttachEnd \/ Crash)
  BY <1>1 DEF Boot, Migrate, Rewrite, RetryOpen, OpenDefault, Save, AttachEnd, Crash, MainFree, Idle
<1>11. ~(\/ \E f \in Folder, move \in BOOLEAN : ChangeFolder(f, move)
         \/ \E x \in File : Attach(x) \/ Remove(x))
  BY <1>1 DEF ChangeFolder, Attach, Remove, MainFree
<1>12. ~Move
  BY <1>1, MoveDoes DEF Idle
<1>13. ~Clean
  BY <1>1, CleanDoes DEF StateTypes, CmdType
<1> QED BY <1>4, <1>5, <1>6, <1>7, <1>8, <1>9, <1>10, <1>11, <1>12, <1>13 DEF Next

LEMMA ShownIsKept ==
    ASSUME Control, Running, ~store.pending, NEW e \in store.doc.edits
    PROVE  \E f \in Folder, n \in Name : Has(f, n) /\ e \in disk[f].replica[n].edits
<1>1. store.folder \in Folder
  BY DEF Control, StateTypes, StoreType
<1> QED BY <1>1, ShownIsThere DEF InFolder

LEMMA NextKept ==
    ASSUME Control, KeptInv, ~Reselect, [Next]_vars, Control'
    PROVE  KeptInv'
<1> USE Marks
<1>1. /\ StateTypes /\ CmdControl /\ Mirrored /\ store.folder \in Folder /\ store.id \in Id
      /\ store.id \in Name \ {Legacy}
  BY DEF Control, StateTypes, StoreType
<1>2. \/ cmd'.at \notin {"move", "clean"}
      \/ cmd' = cmd
      \/ \E f \in Folder, move \in BOOLEAN : ChangeFolder(f, move)
      \/ Move /\ cmd' # Idle
  <2>1. CASE Boot \/ Migrate \/ Rewrite \/ RetryOpen \/ OpenDefault
    <3>1. CASE Boot
      <4>1. cmd' = cmd \/ cmd' = [Idle EXCEPT !.at = "migrate"]
        BY <3>1, Zenon DEF Boot
      <4> QED BY <4>1 DEF Idle
    <3>2. CASE Migrate
      BY <1>1, <3>2 DEF Migrate, Idle, StateTypes, CmdType
    <3>3. CASE Rewrite \/ RetryOpen
      BY <3>3 DEF Rewrite, RetryOpen, Idle
    <3>4. CASE OpenDefault
      BY <3>4 DEF OpenDefault, Idle
    <3> QED BY <2>1, <3>1, <3>2, <3>3, <3>4
  <2>2. CASE Clean
    BY <1>1, <2>2, CleanDoes DEF StateTypes, CmdType
  <2>3. CASE Save \/ Write \/ Reload \/ AttachEnd \/ (\E x \in File : Attach(x) \/ Remove(x))
    BY <2>3 DEF Save, Write, Reload, AttachEnd, Attach, Remove, Idle
  <2>4. CASE (\E t \in Thread : Scan(t) \/ Unlink(t)) \/ PeerWrites \/ PeerCollects \/ Mount \/ Crash
    BY <2>4 DEF Scan, Unlink, PeerWrites, PeerCollects, Mount, Crash
  <2>5. CASE UNCHANGED vars
    BY <2>5 DEF vars
  <2>6. CASE Move
    BY <2>6
  <2> QED BY <2>1, <2>2, <2>3, <2>4, <2>5, <2>6 DEF Next
<1>3. TargetWasRead'
  <2>1. CASE cmd' = cmd /\ cmd'.at = "move"
    BY <2>1, OthersLeaveTheMove DEF KeptInv, TargetWasRead, Has
  <2>2. CASE \E f \in Folder, move \in BOOLEAN : ChangeFolder(f, move)
    <3>1. PICK f \in Folder, move \in BOOLEAN : ChangeFolder(f, move)
      BY <2>2
    <3>2. /\ cmd'.folder = f /\ cmd'.doc = Target(f, store.id) /\ UNCHANGED <<store, disk>>
      BY <3>1 DEF ChangeFolder, Idle
    <3>3. PICK d : d = Target(f, store.id)
      OBVIOUS
    <3>4. Has(f, store.id) => disk[f].replica[store.id].edits \subseteq IF d = None THEN {} ELSE d.edits
      <4>1. d # None => Reads(f, store.id, d)
        BY <1>1, <3>3, TargetReads
      <4>2. d = None => (Has(f, store.id) => ~HasData(disk[f].replica[store.id]))
        BY <1>1, <3>3, TargetReads
      <4> QED BY <1>1, <4>1, <4>2 DEF Reads, HasData
    <3> QED BY <3>2, <3>3, <3>4 DEF TargetWasRead, Has
  <2>3. CASE Move /\ cmd' # Idle
    BY <2>3, MoveDoes DEF TargetWasRead
  <2> QED BY <1>2, <2>1, <2>2, <2>3 DEF TargetWasRead
<1>4. SourceWasBrought'
  <2>1. CASE cmd' = cmd /\ cmd'.at = "clean"
    BY <2>1, OthersLeaveTheMove DEF KeptInv, SourceWasBrought, Has
  <2>2. CASE \E f \in Folder, move \in BOOLEAN : ChangeFolder(f, move)
    BY <2>2 DEF ChangeFolder, SourceWasBrought, Idle
  <2>3. CASE Move /\ cmd' # Idle
    <3>1. /\ cmd.at = "move" /\ Running /\ ~store.pending /\ cmd.folder \in Folder /\ cmd.from = store.folder
          /\ store'.id = store.id /\ store'.doc = Brought /\ cmd'.doc = cmd.doc
          /\ cmd'.from = cmd.from /\ SetsReplica(cmd.folder, store.id, Brought) /\ cmd'.folder = cmd.folder
      BY <2>3, MoveDoes
    <3>2. cmd.from # cmd.folder
      BY <1>1, <3>1 DEF CmdControl
    <3>3. disk[cmd.from].replica[store.id] = store.doc
      BY <1>1, <3>1 DEF Mirrored
    <3>4. disk'[cmd.from].replica[store.id] = disk[cmd.from].replica[store.id]
      <4>1. cmd.from \in Folder /\ store.id \in Name
        BY <1>1, <3>1
      <4> QED BY <3>1, <3>2, <4>1 DEF SetsReplica
    <3> QED BY <3>1, <3>3, <3>4 DEF SourceWasBrought, Brought
  <2> QED BY <1>2, <2>1, <2>2, <2>3 DEF SourceWasBrought
<1>5. NothingVanishes'
  <2> SUFFICES ASSUME NEW e \in kept'
               PROVE  \E f \in Folder, n \in Name : Has(f, n)' /\ e \in disk'[f].replica[n].edits
    BY DEF NothingVanishes, Has
  <2>1. ASSUME Running', ~store'.pending, e \in store'.doc.edits
        PROVE  \E f \in Folder, n \in Name : Has(f, n)' /\ e \in disk'[f].replica[n].edits
    <3>1. store'.folder \in Folder /\ store'.id \in Name /\ store'.doc # None
          /\ disk'[store'.folder].replica[store'.id] = store'.doc
      BY <2>1 DEF Control, StateTypes, StoreType, Mirrored
    <3> QED BY <2>1, <3>1 DEF Has
  <2>2. CASE Clean /\ disk' # disk
    <3>1. /\ cmd.at = "clean" /\ Running /\ ~store.pending /\ cmd.from \in Folder
          /\ cmd.from # cmd.folder /\ SetsReplica(cmd.from, store.id, None)
          /\ kept' = IF cmd.doc = None THEN kept
                     ELSE kept \ (disk[cmd.from].replica[store.id].edits \ store.doc.edits)
      BY <2>2, CleanDoes
    <3>2. UNCHANGED <<conf, store>>
      BY <2>2 DEF Clean, settings
    <3>3. PICK f \in Folder, n \in Name : Has(f, n) /\ e \in disk[f].replica[n].edits
      BY <3>1 DEF KeptInv, NothingVanishes, Has
    <3>4. CASE f = cmd.from /\ n = store.id
      <4>1. e \in store.doc.edits
        BY <3>1, <3>3, <3>4 DEF KeptInv, SourceWasBrought
      <4> QED BY <2>1, <3>1, <3>2, <4>1 DEF Running
    <3>5. CASE ~(f = cmd.from /\ n = store.id)
      BY <1>1, <3>1, <3>3, <3>5 DEF SetsReplica, Has
    <3> QED BY <3>4, <3>5
  <2>3. CASE ~(Clean /\ disk' # disk)
    <3>1. EditsStay
      <4>1. CASE Move /\ cmd' # Idle
        <5>1. /\ cmd.at = "move" /\ cmd.folder \in Folder /\ SetsReplica(cmd.folder, store.id, Brought)
              /\ Brought \in Document
          BY <4>1, MoveDoes
        <5>2. Has(cmd.folder, store.id) => disk[cmd.folder].replica[store.id].edits \subseteq Brought.edits
          BY <5>1 DEF KeptInv, TargetWasRead, Brought
        <5> QED BY <1>1, <5>1, <5>2, Grows
      <4> QED BY <2>3, <4>1, NextKeepsEdits
    <3>2. CASE e \in kept
      <4>1. PICK f \in Folder, n \in Name : Has(f, n) /\ e \in disk[f].replica[n].edits
        BY <3>2 DEF KeptInv, NothingVanishes, Has
      <4> QED BY <3>1, <4>1 DEF EditsStay, Has
    <3>3. CASE e \notin kept
      <4>1. Write
        BY <2>3, <3>3, CleanDoes
           DEF Next, vars, Boot, Migrate, Rewrite, RetryOpen, OpenDefault, ChangeFolder, Move, Save, Reload,
               AttachEnd, Attach, Remove, Scan, Unlink, PeerWrites, PeerCollects, Mount, Crash, seen
      <4> DEFINE d == [store.doc EXCEPT !.edits = @ \cup {edits'}]
      <4>2. /\ ~store.pending /\ e = edits' /\ Running /\ conf' = conf /\ Commit(d)
            /\ edits < MaxEdit /\ edits' = edits + 1
        BY <3>3, <4>1 DEF Write, Ready, settings
      <4>3. d \in Document /\ e \in d.edits
        BY <1>1, <4>2, FolderAssumption DEF StateTypes, StoreType, Document, Edit
      <4> HIDE DEF d
      <4>4. store'.doc = d /\ ~store'.pending /\ Running'
        BY <1>1, <4>2, <4>3, CommitStores DEF Running
      <4> QED BY <2>1, <4>3, <4>4
    <3> QED BY <3>2, <3>3
  <2> QED BY <2>2, <2>3
<1> QED BY <1>3, <1>4, <1>5 DEF KeptInv

\* Changing folders, waiting for one, giving up on it and restarting never take an edit
\* that a store on disk acknowledged out of every folder, however edits, peers and crashes
\* interleave with a change, unless the user moved to a folder that had data; the user
\* chooses a folder other than the one in use (store.rs, repoint; commands.rs,
\* set_data_folder and clear_data_folder).
THEOREM NothingIsLost == ~Reselect => (Spec => []NothingVanishes)
<1> SUFFICES ASSUME ~Reselect PROVE Spec => []NothingVanishes
  OBVIOUS
<1>1. Init => Control /\ KeptInv
  <2>1. Init => KeptInv
    BY Marks DEF Init, KeptInv, TargetWasRead, SourceWasBrought, NothingVanishes, Idle
  <2> QED BY <2>1, FolderStarts
<1>2. (Control /\ KeptInv) /\ [Next]_vars => (Control /\ KeptInv)'
  BY NextControl, NextKept
<1>3. Control /\ KeptInv => NothingVanishes
  BY DEF KeptInv
<1> QED BY <1>1, <1>2, <1>3, PTL DEF Spec

-----------------------------------------------------------------------------
(* Where the paths of attachments come from *)

\* The device's id: the one it runs with, the saved one, or the one it takes next.
Me == IF Running THEN conf.id ELSE IF saved # None THEN saved.id ELSE ids + 1

Safe == File \ lost

\* Ids are taken in order.
Fresh ==
    /\ \A d \in InUse, x \in File : d.path[x] \in Id => d.path[x] <= ids
    /\ \A f \in Folder, n \in Id : Has(f, n) => n <= ids

\* Only the blobs of old builds are flat; this device keeps them or moves them to its own
\* subfolder; without a setting there was no old build.
FlatIsOld == \A d \in InUse, x \in File : d.path[x] = Flat => x \in Old
OldPaths  == Me \in Id => \A d \in InUse, x \in Old : d.path[x] \in {None, Gone, Flat, Me}
NoOld     == saved = None => \A d \in InUse, x \in Old : d.path[x] = None

\* An attachment of this device is not another's, too.
Unique ==
    Me \in Id => \A d \in InUse, e \in InUse, x \in Safe :
        d.path[x] = Me /\ e.path[x] \in Place => e.path[x] \in {Me, Flat}

PathInv == Fresh /\ FlatIsOld /\ OldPaths /\ NoOld /\ Unique

\* In a folder, only this device's replica refers to flat blobs, and others refer to its
\* attachments as it does, or when it has removed them.
OnlyOwnFlat ==
    Me \in Id => \A f \in Folder, n \in Name \ {Me}, x \in File :
        Has(f, n) => disk[f].replica[n].path[x] # Flat
PeersFollow ==
    Me \in Id => \A f \in Folder, n \in Name \ {Me}, x \in Safe :
        Has(f, n) /\ disk[f].replica[n].path[x] = Me =>
            Has(f, Me) /\ disk[f].replica[Me].path[x] \in {Me, Gone}

\* What this device's replicas refer to is there.
BlobsThere ==
    Me \in Id => \A f \in Folder, x \in Safe :
        Has(f, Me) /\ disk[f].replica[Me].path[x] = Me => <<x, Me>> \in disk[f].blobs

\* The commands and collections under way.
NotDoomed ==
    \A t \in Thread, x \in Safe :
        <<x, store.id>> \in gc[t].doomed => store.doc.path[x] # store.id
Rewriting ==
    cmd.at = "rewrite" => \A x \in cmd.files :
        /\ store.doc.path[x] = Flat
        /\ x \in Safe => <<x, store.id>> \in disk[store.folder].blobs
Attaching ==
    cmd.at = "attach" => \A x \in cmd.files :
        /\ x \notin Old
        /\ <<x, store.id>> \in disk[store.folder].blobs => \A d \in InUse : d.path[x] = None
Targeting ==
    cmd.at = "move" => \A x \in Safe :
        /\ Has(cmd.folder, store.id) =>
             LET own == disk[cmd.folder].replica[store.id].path[x]
             IN  IF cmd.doc = None THEN own = None
                 ELSE /\ own = store.id => cmd.doc.path[x] \in {store.id, Gone}
                      /\ own = Gone => cmd.doc.path[x] = Gone
        /\ cmd.doc # None /\ cmd.doc.path[x] = store.id =>
             Has(cmd.folder, store.id) /\ disk[cmd.folder].replica[store.id].path[x] = store.id

ReplicaInv == OnlyOwnFlat /\ PeersFollow /\ BlobsThere
TaskInv    == NotDoomed /\ Rewriting /\ Attaching /\ Targeting

LEMMA RunsAsMe == ASSUME Control, Running PROVE Me = store.id /\ Me \in Id /\ Me <= ids /\ conf.id = Me
BY DEF Control, ConfControl, Me, StateTypes, StoreType

\* The id changes only when the app dies before it could save its setting.
LEMMA NextMe ==
    ASSUME Control, [Next]_vars
    PROVE  /\ Me' = Me \/ (Crash /\ saved = None /\ Me' = ids + 1)
           /\ ids \in Nat /\ ids' \in Nat /\ ids <= ids' /\ (saved' = None => saved = None)
<1> USE Marks
<1>1. StateTypes /\ ConfControl /\ ids \in Nat
  BY DEF Control, StateTypes
<1>2. CASE Boot
  <2>1. ~Running /\ LoadConfig
    BY <1>2 DEF Boot
  <2> QED BY <1>1, <2>1, ConfigLoads DEF Me, Running
<1>3. CASE Save
  <2>1. Running /\ ids' = ids /\ cmd.folder \in Folder
    BY <1>1, <1>3 DEF Save, Control, CmdControl, StateTypes, StoreType
  <2>2. conf' \in ConfType /\ conf'.id = conf.id /\ (saved' = saved \/ saved' = conf')
    BY <1>1, <1>3, <2>1 DEF Save, StateTypes, ConfType, Running
  <2>3. conf # None /\ conf' # None
    BY <2>1, <2>2 DEF Running
  <2>4. Me' = Me
    BY <2>2, <2>3 DEF Me, Running
  <2>5. saved' = None => saved = None
    BY <2>2, <2>3
  <2> QED BY <1>1, <2>1, <2>4, <2>5
<1>4. CASE Crash
  <2>1. Running /\ ~Running' /\ saved' = saved /\ ids' = ids
    BY <1>4 DEF Crash, Running
  <2> QED BY <1>1, <1>4, <2>1 DEF Me, ConfControl
<1>5. CASE UNCHANGED <<conf, saved, ids>>
  BY <1>1, <1>5 DEF Me, Running
<1>6. CASE Migrate \/ Rewrite \/ RetryOpen \/ OpenDefault \/ Move \/ Clean \/ Write \/ Reload \/ AttachEnd
  BY <1>5, <1>6 DEF Migrate, Rewrite, RetryOpen, OpenDefault, Move, Clean, Write, Reload, AttachEnd, settings
<1>7. CASE PeerWrites \/ PeerCollects \/ Mount \/ UNCHANGED vars
  BY <1>5, <1>7 DEF PeerWrites, PeerCollects, Mount, settings, vars
<1>8. CASE \E t \in Thread : Scan(t) \/ Unlink(t)
  BY <1>5, <1>8 DEF Scan, Unlink, settings
<1>9. CASE \E x \in File : Attach(x) \/ Remove(x)
  BY <1>5, <1>9 DEF Attach, Remove, settings
<1>10. CASE \E f \in Folder, move \in BOOLEAN : ChangeFolder(f, move)
  BY <1>5, <1>10 DEF ChangeFolder, settings
<1> QED BY <1>2, <1>3, <1>4, <1>6, <1>7, <1>8, <1>9, <1>10 DEF Next

LEMMA InUseMembers ==
    ASSUME StateTypes
    PROVE  /\ InUse \subseteq Document /\ store.doc \in InUse
           /\ cmd.doc # None => cmd.doc \in InUse
           /\ \A f \in Folder, n \in Name : Has(f, n) => disk[f].replica[n] \in InUse
BY Marks DEF StateTypes, StoreType, CmdType, SideType, InUse, Has

\* What this device reads of its own attachments in a folder is what its replica there says,
\* or that they are removed.
LEMMA ReadsMine ==
    ASSUME StateTypes, PathInv, ReplicaInv, Me \in Id, NEW f \in Folder, NEW m, Reads(f, Me, m),
           NEW x \in Safe
    PROVE  /\ m.path[x] = Me => Has(f, Me) /\ disk[f].replica[Me].path[x] = Me
           /\ Has(f, Me) /\ disk[f].replica[Me].path[x] = Me => m.path[x] \in {Me, Gone}
           /\ Has(f, Me) /\ disk[f].replica[Me].path[x] = Gone => m.path[x] = Gone
<1> USE Marks
<1>1. x \in File /\ Me \in Place /\ Me \in Name
  BY DEF Safe
<1>2. Has(f, Me) /\ disk[f].replica[Me].path[x] = Gone => m.path[x] = Gone
  BY <1>1 DEF Reads
<1>3. ASSUME m.path[x] = Me PROVE Has(f, Me) /\ disk[f].replica[Me].path[x] = Me
  <2>1. PICK n \in Name : Has(f, n) /\ m.path[x] = disk[f].replica[n].path[x]
    BY <1>1, <1>3 DEF Reads
  <2>2. CASE n = Me
    BY <1>3, <2>1, <2>2
  <2>3. CASE n # Me
    <3>1. Has(f, Me) /\ disk[f].replica[Me].path[x] \in {Me, Gone}
      BY <1>3, <2>1, <2>3 DEF ReplicaInv, PeersFollow
    <3> QED BY <1>1, <1>2, <1>3, <3>1
  <2> QED BY <2>2, <2>3
<1>4. ASSUME Has(f, Me), disk[f].replica[Me].path[x] = Me PROVE m.path[x] \in {Me, Gone}
  <2>1. m.path[x] # None
    BY <1>1, <1>4 DEF Reads
  <2>2. PICK n \in Name : Has(f, n) /\ m.path[x] = disk[f].replica[n].path[x]
    BY <1>1, <2>1 DEF Reads
  <2>3. CASE n # Me
    <3>1. disk[f].replica[n] \in InUse /\ disk[f].replica[Me] \in InUse /\ disk[f].replica[n] \in Document
      BY <1>1, <1>4, <2>2, InUseMembers
    <3>2. disk[f].replica[n].path[x] # Flat
      BY <1>1, <2>2, <2>3 DEF ReplicaInv, OnlyOwnFlat
    <3>3. m.path[x] \in Place \cup {Gone, None}
      BY <1>1, <2>2, <3>1 DEF Document
    <3>4. m.path[x] \in Place => m.path[x] \in {Me, Flat}
      BY <1>4, <2>2, <3>1 DEF PathInv, Unique
    <3> QED BY <2>1, <2>2, <3>2, <3>3, <3>4
  <2> QED BY <1>4, <2>2, <2>3
<1> QED BY <1>2, <1>3, <1>4

\* A document that refers to attachments as the ones in use do, or has removed one.
Drawn(d) ==
    \A x \in File :
        \/ d.path[x] = None
        \/ \E e \in InUse : \/ d.path[x] = e.path[x]
                            \/ d.path[x] = Gone /\ e.path[x] \in Place

DrawnStep == \A d \in InUse' : Drawn(d)

LEMMA ReadsDraws == ASSUME StateTypes, NEW f \in Folder, NEW id, NEW m, Reads(f, id, m) PROVE Drawn(m)
BY InUseMembers DEF Reads, Drawn

LEMMA Draws ==
    ASSUME store'.doc \in InUse \/ Drawn(store'.doc),
           cmd'.doc \in InUse \cup {None},
           \A f \in Folder, n \in Name :
               LET d == disk'[f].replica[n] IN d \in InUse \cup {None} \/ Drawn(d)
    PROVE  DrawnStep
<1>1. \A d \in InUse : Drawn(d)
  BY DEF Drawn
<1> SUFFICES ASSUME NEW d \in InUse' PROVE Drawn(d)
  BY DEF DrawnStep
<1>2. d # None /\ (d = store'.doc \/ d = cmd'.doc \/ \E f \in Folder, n \in Name : d = disk'[f].replica[n])
  BY DEF InUse
<1> QED BY <1>1, <1>2

\* The steps that write one replica with the document of the store.
LEMMA WriteDraws ==
    ASSUME StateTypes, NEW f \in Folder, NEW n \in Name, NEW d,
           Drawn(d) \/ d \in InUse \/ d = None, SetsReplica(f, n, d),
           store'.doc \in InUse \/ (store'.doc = d /\ d # None), cmd'.doc \in {cmd.doc, None}
    PROVE  DrawnStep
<1>1. cmd'.doc \in InUse \cup {None}
  BY InUseMembers
<1>2. \A g \in Folder, m \in Name :
        disk'[g].replica[m] \in InUse \cup {None} \/ Drawn(disk'[g].replica[m])
  BY InUseMembers DEF SetsReplica, Has
<1> QED BY <1>1, <1>2, Draws

LEMMA KeepDraws ==
    ASSUME StateTypes, KeepsReplicas, store'.doc \in InUse \/ Drawn(store'.doc), cmd'.doc \in {cmd.doc, None}
    PROVE  DrawnStep
<1>1. cmd'.doc \in InUse \cup {None}
  BY InUseMembers
<1>2. \A g \in Folder, m \in Name : disk'[g].replica[m] \in InUse \cup {None}
  BY InUseMembers DEF KeepsReplicas, Has
<1> QED BY <1>1, <1>2, Draws

\* The writes that refer to a new blob: the end of a migration and of an attachment.
Adds == (Rewrite \/ AttachEnd) /\ ~UNCHANGED <<store, disk>>

LEMMA AddsMine ==
    ASSUME Control, Adds
    PROVE  /\ Running /\ ~store.pending /\ cmd.at \in {"rewrite", "attach"} /\ cmd' = Idle
           /\ gc' = gc /\ Running' /\ store.doc \in Document
           /\ \E d \in Document :
                /\ \A x \in File : d.path[x] = IF x \in cmd.files THEN store.id ELSE store.doc.path[x]
                /\ store' = [store EXCEPT !.doc = d] /\ store'.doc = d /\ store'.id = store.id
                /\ store'.folder = store.folder /\ ~store'.pending
                /\ SetsReplica(store.folder, store.id, d) /\ KeepsBlobs
           /\ cmd.at = "rewrite" => lost' = lost
           /\ cmd.at = "attach" =>
                lost' = IF cmd.files \X {store.id} \subseteq
                             disk[store.folder].blobs \ UNION {gc[t].doomed : t \in Thread}
                        THEN lost ELSE lost \cup cmd.files
<1> USE Marks
<1> DEFINE q == [x \in File |-> IF x \in cmd.files THEN store.id ELSE store.doc.path[x]]
           d == [store.doc EXCEPT !.path = q]
<1>1. /\ StateTypes /\ Running /\ ~store.pending /\ cmd.at \in {"rewrite", "attach"} /\ cmd' = Idle
      /\ gc' = gc /\ Running' /\ store.doc \in Document /\ store.id \in Place
  BY DEF Control, CmdControl, StateTypes, StoreType, Adds, Rewrite, AttachEnd, Running, settings
<1>2. Commit(d)
  BY DEF Adds, Rewrite, AttachEnd
<1>3. q \in [File -> Place \cup {Gone, None}]
  BY <1>1 DEF Document
<1>4. d \in Document /\ d.path = q
  <2> HIDE DEF q
  <2> QED BY <1>1, <1>3, PathOnly
<1>5. \A x \in File : d.path[x] = IF x \in cmd.files THEN store.id ELSE store.doc.path[x]
  BY <1>4
<1> HIDE DEF d
<1>6. /\ store' = [store EXCEPT !.doc = d] /\ store'.doc = d /\ store'.id = store.id
      /\ store'.folder = store.folder /\ ~store'.pending
      /\ SetsReplica(store.folder, store.id, d) /\ KeepsBlobs
  BY <1>1, <1>2, <1>4, CommitStores
<1>7. cmd.at = "rewrite" => lost' = lost
  BY DEF Adds, Rewrite, AttachEnd
<1>8. cmd.at = "attach" =>
        lost' = IF cmd.files \X {store.id} \subseteq
                     disk[store.folder].blobs \ UNION {gc[t].doomed : t \in Thread}
                THEN lost ELSE lost \cup cmd.files
  BY DEF Adds, Rewrite, AttachEnd
<1> QED BY <1>1, <1>4, <1>5, <1>6, <1>7, <1>8

\* All other steps of this device, and a collection, draw on the documents in use.
LEMMA NextDraws ==
    ASSUME Control, [Next]_vars
    PROVE  DrawnStep \/ Adds \/ PeerWrites
<1> USE Marks
<1>1. /\ StateTypes /\ Mirrored /\ store.folder \in Folder /\ store.id \in Id /\ store.id \in Name
      /\ store.doc \in InUse /\ store.doc \in Document
  BY InUseMembers DEF Control, StateTypes, StoreType
<1>2. ASSUME NEW f \in Folder, NEW id \in Id, Open(f, id), cmd'.doc \in {cmd.doc, None}
      PROVE  DrawnStep
  <2>1. Reads(f, id, store'.doc) /\ SetsReplica(f, id, store'.doc)
    BY <1>1, <1>2, OpenStores
  <2>2. Drawn(store'.doc) /\ store'.doc # None
    BY <1>1, <2>1, ReadsDraws DEF Reads
  <2> QED BY <1>1, <1>2, <2>1, <2>2, WriteDraws
<1>3. ASSUME store' = store, disk' = disk, cmd'.doc \in {cmd.doc, None} PROVE DrawnStep
  BY <1>1, <1>3, KeepDraws DEF KeepsReplicas
<1>4. CASE Boot
  <2>1. CASE conf'.folder = Chosen /\ ~mounted
    <3>1. store'.doc = Empty /\ UNCHANGED <<disk, cmd>>
      BY <1>4, <2>1 DEF Boot
    <3>2. Drawn(store'.doc)
      BY <3>1 DEF Drawn, Empty
    <3> QED BY <1>1, <3>1, <3>2, KeepDraws DEF KeepsReplicas
  <2>2. CASE ~(conf'.folder = Chosen /\ ~mounted)
    <3>1. conf'.folder \in Folder /\ conf'.id \in Id
      BY <1>4, ConfigLoads DEF Boot
    <3>2. Open(conf'.folder, conf'.id) /\ cmd'.doc = None
      BY <1>4, <2>2 DEF Boot, Idle
    <3> QED BY <1>2, <3>1, <3>2
  <2> QED BY <2>1, <2>2
<1>5. CASE RetryOpen
  BY <1>1, <1>2, <1>5 DEF RetryOpen
<1>6. CASE OpenDefault
  <2>1. conf.id \in Id /\ cmd'.doc = None
    BY <1>1, <1>6 DEF OpenDefault, MainFree, Ready, Control, ConfControl, Idle
  <2> QED BY <1>2, <1>6, <2>1 DEF OpenDefault
<1>7. CASE Migrate \/ \E x \in File : Attach(x)
  <2>1. \E B : disk' = [disk EXCEPT ![store.folder].blobs = B]
    BY <1>7 DEF Migrate, Attach
  <2>2. KeepsReplicas
    BY <1>1, <2>1 DEF StateTypes, SideType, KeepsReplicas
  <2>3. store' = store
    BY <1>7 DEF Migrate, Attach
  <2>4. cmd'.doc \in {cmd.doc, None}
    <3>1. CASE Migrate
      BY <1>1, <3>1 DEF Migrate, Idle, StateTypes, CmdType
    <3>2. CASE \E x \in File : Attach(x)
      BY <3>2 DEF Attach, Idle
    <3> QED BY <1>7, <3>1, <3>2
  <2> QED BY <1>1, <2>2, <2>3, <2>4, KeepDraws
<1>8. CASE (Rewrite \/ AttachEnd) /\ ~Adds
  BY <1>3, <1>8 DEF Adds, Rewrite, AttachEnd, Idle
<1>9. ASSUME NEW d \in Document, Commit(d), Drawn(d), cmd' = cmd, Running
      PROVE  DrawnStep
  <2>1. store'.doc = d
    BY <1>1, <1>9, CommitStores
  <2>2. CASE store.pending
    <3>1. disk' = disk
      BY <1>1, <1>9, <2>2, CommitStores
    <3> QED BY <1>1, <1>9, <2>1, <3>1, KeepDraws DEF KeepsReplicas
  <2>3. CASE ~store.pending
    <3>1. SetsReplica(store.folder, store.id, d)
      BY <1>1, <1>9, <2>3, CommitStores
    <3> QED BY <1>1, <1>9, <2>1, <3>1, WriteDraws
  <2> QED BY <2>2, <2>3
<1>10. CASE Write
  <2> DEFINE d == [store.doc EXCEPT !.edits = @ \cup {edits'}]
  <2>1. edits' \in Edit
    BY <1>1, <1>10, FolderAssumption DEF Write, StateTypes, Edit
  <2>2. d \in Document /\ d.path = store.doc.path
    BY <1>1, <2>1 DEF Document
  <2>3. Commit(d) /\ cmd' = cmd /\ Running
    BY <1>10 DEF Write, Ready
  <2> HIDE DEF d
  <2>4. Drawn(d)
    BY <1>1, <2>2 DEF Drawn
  <2> QED BY <1>9, <2>2, <2>3, <2>4
<1>11. CASE \E x \in File : Remove(x)
  <2>1. PICK x \in File : Remove(x)
    BY <1>11
  <2> DEFINE d == [store.doc EXCEPT !.path[x] = Gone]
  <2>2. d \in Document /\ \A y \in File : d.path[y] = IF y = x THEN Gone ELSE store.doc.path[y]
    BY <1>1 DEF Document
  <2>3. Commit(d) /\ cmd' = cmd /\ Running /\ store.doc.path[x] \in Place
    BY <2>1 DEF Remove, MainFree, Ready
  <2> HIDE DEF d
  <2>4. Drawn(d)
    BY <1>1, <2>2, <2>3 DEF Drawn
  <2> QED BY <1>9, <2>2, <2>3, <2>4
<1>12. CASE Reload
  <2>1. /\ Reads(store.folder, store.id, store'.doc) /\ SetsReplica(store.folder, store.id, store'.doc)
        /\ cmd' = cmd
    BY <1>12, ReloadDoes DEF Reload
  <2>2. Drawn(store'.doc) /\ store'.doc # None
    BY <1>1, <2>1, ReadsDraws DEF Reads
  <2> QED BY <1>1, <2>1, <2>2, WriteDraws
<1>13. CASE \E t \in Thread : Unlink(t)
  <2>1. KeepsReplicas /\ store' = store /\ cmd' = cmd
    BY <1>13, UnlinkDoes DEF Unlink
  <2> QED BY <1>1, <2>1, KeepDraws
<1>14. CASE PeerCollects
  <2>1. KeepsReplicas /\ store' = store /\ cmd' = cmd
    BY <1>14, PeerCollectsDoes DEF PeerCollects
  <2> QED BY <1>1, <2>1, KeepDraws
<1>15. CASE UNCHANGED vars \/ Save \/ Mount \/ Crash \/ (\E t \in Thread : Scan(t))
  BY <1>3, <1>15 DEF vars, Save, Mount, Crash, Scan, Idle
<1>16. CASE \E f \in Folder, move \in BOOLEAN : ChangeFolder(f, move)
  <2>1. PICK f \in Folder, move \in BOOLEAN : ChangeFolder(f, move)
    BY <1>16
  <2>2. cmd'.doc = Target(f, store.id) /\ UNCHANGED <<store, disk>>
    BY <2>1 DEF ChangeFolder, Idle
  <2>3. PICK m : m = Target(f, store.id)
    OBVIOUS
  <2>4. m # None => Drawn(m)
    BY <1>1, <2>3, TargetReads, ReadsDraws
  <2> SUFFICES ASSUME NEW d \in InUse' PROVE Drawn(d)
    BY DEF DrawnStep
  <2>5. d \in InUse \/ (d = m /\ m # None)
    BY <2>2, <2>3 DEF InUse
  <2> QED BY <2>4, <2>5 DEF Drawn
<1>17. CASE Move
  <2>1. CASE cmd' = Idle
    BY <1>3, <1>17, <2>1 DEF Move, Idle
  <2>2. CASE cmd' # Idle
    <3>1. SetsReplica(cmd.folder, store.id, Brought) /\ store'.doc = Brought /\ cmd'.doc = cmd.doc
          /\ cmd.folder \in Folder /\ Brought \in Document
      BY <1>17, <2>2, MoveDoes
    <3>2. Brought \in InUse
      BY <1>1, InUseMembers DEF Brought
    <3> QED BY <1>1, <3>1, <3>2, WriteDraws
  <2> QED BY <2>1, <2>2
<1>18. CASE Clean
  <2>1. /\ cmd'.doc = cmd.doc /\ store' = store /\ cmd.from \in Folder
        /\ disk' = disk \/ SetsReplica(cmd.from, store.id, None)
    BY <1>1, <1>18, CleanDoes DEF Clean, StateTypes, CmdType
  <2>2. CASE SetsReplica(cmd.from, store.id, None)
    BY <1>1, <2>1, <2>2, WriteDraws
  <2> QED BY <1>3, <2>1, <2>2
<1> QED BY <1>4, <1>5, <1>6, <1>7, <1>8, <1>10, <1>11, <1>12, <1>13, <1>14, <1>15, <1>16, <1>17, <1>18
        DEF Next

\* A replica is written under an id that was taken.
LEMMA NextNames ==
    ASSUME Control, [Next]_vars, Control', NEW f \in Folder, NEW n \in Id, Has(f, n)'
    PROVE  Has(f, n) \/ n <= ids'
<1> USE Marks
<1>1. /\ StateTypes /\ store.folder \in Folder /\ store.id \in Id /\ ids <= ids'
  BY NextMe DEF Control, StateTypes, StoreType
<1>2. ASSUME Running PROVE store.id <= ids'
  <2>1. store.id \in Nat /\ store.id <= ids
    BY <1>1, <1>2, RunsAsMe
  <2>2. ids \in Nat /\ ids' \in Nat
    BY NextMe
  <2> QED BY <1>1, <2>1, <2>2
<1>3. ASSUME NEW g \in Folder, NEW i \in Name, NEW d, SetsReplica(g, i, d), i \in Id => i <= ids'
      PROVE  Has(f, n) \/ n <= ids'
  BY <1>1, <1>3 DEF SetsReplica, Has
<1>4. ASSUME KeepsReplicas PROVE Has(f, n)
  BY <1>4 DEF KeepsReplicas, Has
<1>5. CASE Boot
  <2>1. conf'.folder \in Folder /\ conf'.id \in Id /\ conf'.id <= ids'
    BY <1>5, ConfigLoads DEF Boot
  <2>2. disk' = disk \/ Open(conf'.folder, conf'.id)
    BY <1>5 DEF Boot
  <2>3. CASE Open(conf'.folder, conf'.id)
    <3>1. SetsReplica(conf'.folder, conf'.id, store'.doc)
      BY <1>1, <2>1, <2>3, OpenStores
    <3> QED BY <1>3, <2>1, <3>1
  <2> QED BY <2>2, <2>3 DEF Has
<1>6. CASE RetryOpen \/ OpenDefault
  <2>1. PICK g \in Folder : Open(g, store.id) /\ Running
    BY <1>1, <1>6, RunsAsMe DEF RetryOpen, OpenDefault, MainFree, Ready, Control, ConfControl
  <2>2. SetsReplica(g, store.id, store'.doc)
    BY <1>1, <2>1, OpenStores
  <2> QED BY <1>1, <1>2, <1>3, <2>1, <2>2
<1>7. CASE Migrate \/ \E x \in File : Attach(x)
  <2>1. \E B : disk' = [disk EXCEPT ![store.folder].blobs = B]
    BY <1>7 DEF Migrate, Attach
  <2> QED BY <1>1, <1>4, <2>1 DEF StateTypes, SideType, KeepsReplicas
<1>8. CASE Rewrite \/ Write \/ AttachEnd \/ \E x \in File : Remove(x)
  <2>1. CASE disk' = disk
    BY <2>1 DEF Has
  <2>2. CASE disk' # disk
    <3>1. PICK d \in Document : Commit(d) /\ Running
      BY <1>8, <2>2, CommitsADocument
    <3>2. SetsReplica(store.folder, store.id, d)
      BY <1>1, <2>2, <3>1, CommitStores
    <3> QED BY <1>1, <1>2, <1>3, <3>1, <3>2
  <2> QED BY <2>1, <2>2
<1>9. CASE Reload
  BY <1>1, <1>2, <1>3, <1>9, ReloadDoes
<1>10. CASE (\E t \in Thread : Unlink(t)) \/ PeerCollects
  BY <1>4, <1>10, UnlinkDoes, PeerCollectsDoes
<1>11. CASE PeerWrites
  <2>1. PICK w : SetsReplica(Chosen, Peer, w)
    BY <1>11, PeerWritesDoes
  <2> QED BY <1>3, <2>1
<1>12. CASE Move
  <2>1. CASE cmd' = Idle
    BY <1>12, <2>1 DEF Move, Idle, Has
  <2>2. CASE cmd' # Idle
    BY <1>1, <1>2, <1>3, <1>12, <2>2, MoveDoes
  <2> QED BY <2>1, <2>2
<1>13. CASE Clean
  <2>1. /\ Running /\ cmd.from \in Folder
        /\ disk' = disk \/ SetsReplica(cmd.from, store.id, None)
    BY <1>13, CleanDoes
  <2> QED BY <1>1, <1>2, <1>3, <2>1 DEF Has
<1>14. CASE UNCHANGED vars \/ Save \/ Mount \/ Crash \/ (\E t \in Thread : Scan(t))
            \/ \E g \in Folder, move \in BOOLEAN : ChangeFolder(g, move)
  BY <1>14 DEF vars, Save, Mount, Crash, Scan, ChangeFolder, Has
<1> QED BY <1>5, <1>6, <1>7, <1>8, <1>9, <1>10, <1>11, <1>12, <1>13, <1>14 DEF Next

LEMMA LostGrows == ASSUME Control, [Next]_vars PROVE lost \subseteq lost' /\ Safe' \subseteq Safe
<1> SUFFICES lost \subseteq lost'
  BY DEF Safe
<1>1. CASE Boot \/ Migrate \/ Rewrite \/ RetryOpen \/ OpenDefault \/ UNCHANGED vars
  BY <1>1 DEF Boot, Migrate, Rewrite, RetryOpen, OpenDefault, vars, seen
<1>2. CASE \E f \in Folder, move \in BOOLEAN : ChangeFolder(f, move)
  BY <1>2 DEF ChangeFolder, seen
<1>3. CASE Move
  BY <1>3 DEF Move
<1>4. CASE Clean
  BY <1>4 DEF Clean
<1>5. CASE Save \/ Write \/ Reload
  BY <1>5 DEF Save, Write, Reload
<1>6. CASE AttachEnd
  BY <1>6 DEF AttachEnd
<1>7. CASE \E x \in File : Attach(x) \/ Remove(x)
  BY <1>7 DEF Attach, Remove, seen
<1>8. CASE \E t \in Thread : Scan(t) \/ Unlink(t)
  BY <1>8 DEF Scan, Unlink, seen
<1>9. CASE PeerWrites \/ PeerCollects \/ Mount \/ Crash
  BY <1>9 DEF PeerWrites, PeerCollects, Mount, Crash, seen
<1> QED BY <1>1, <1>2, <1>3, <1>4, <1>5, <1>6, <1>7, <1>8, <1>9 DEF Next

LEMMA FreshNames ==
    ASSUME Control, PathInv, [Next]_vars, Control'
    PROVE  \A f \in Folder, n \in Id : Has(f, n)' => n <= ids'
<1> TAKE f \in Folder, n \in Id
<1> HAVE Has(f, n)'
<1>1. Has(f, n) \/ n <= ids'
  BY NextNames
<1>2. ids \in Nat /\ ids' \in Nat /\ ids <= ids' /\ n \in Nat
  BY NextMe, Marks
<1> QED BY <1>1, <1>2 DEF PathInv, Fresh

\* Steps that only draw on what there is, a crash that changes the device's id among them.
LEMMA DrawnKeepsPaths ==
    ASSUME Control, PathInv, [Next]_vars, Control', DrawnStep
    PROVE  PathInv'
<1> USE Marks
<1>1. /\ ids \in Nat /\ ids' \in Nat /\ ids <= ids' /\ (saved' = None => saved = None)
      /\ Me' = Me \/ (Crash /\ saved = None /\ Me' = ids + 1)
      /\ Safe' \subseteq Safe
  BY NextMe, LostGrows
<1>2. ASSUME NEW d \in InUse', NEW x \in File, d.path[x] \in Place
      PROVE  \E e \in InUse : e.path[x] = d.path[x]
  BY <1>2 DEF DrawnStep, Drawn
<1>3. Fresh'
  <2>1. ASSUME NEW d \in InUse', NEW x \in File, d.path[x] \in Id PROVE d.path[x] <= ids'
    <3>1. PICK e \in InUse : e.path[x] = d.path[x]
      BY <1>2, <2>1
    <3>2. d.path[x] <= ids
      BY <2>1, <3>1 DEF PathInv, Fresh
    <3>3. d.path[x] \in Nat
      BY <2>1
    <3> QED BY <1>1, <3>2, <3>3
  <2> QED BY <2>1, FreshNames DEF Fresh, Has
<1>4. FlatIsOld'
  BY <1>2 DEF PathInv, FlatIsOld
<1>5. NoOld'
  <2> SUFFICES ASSUME saved' = None, NEW d \in InUse', NEW x \in Old PROVE d.path[x] = None
    BY DEF NoOld
  <2>1. x \in File /\ \A e \in InUse : e.path[x] = None
    BY <1>1, FolderAssumption DEF PathInv, NoOld
  <2> QED BY <2>1 DEF DrawnStep, Drawn
<1>6. CASE Me' = Me
  <2>1. OldPaths'
    <3> SUFFICES ASSUME Me \in Id, NEW d \in InUse', NEW x \in Old
                 PROVE  d.path[x] \in {None, Gone, Flat, Me}
      BY <1>6 DEF OldPaths
    <3>1. x \in File /\ \A e \in InUse : e.path[x] \in {None, Gone, Flat, Me}
      BY FolderAssumption DEF PathInv, OldPaths
    <3> QED BY <3>1 DEF DrawnStep, Drawn
  <2>2. Unique'
    <3> SUFFICES ASSUME Me \in Id, NEW d \in InUse', NEW e \in InUse', NEW x \in Safe',
                        d.path[x] = Me, e.path[x] \in Place
                 PROVE  e.path[x] \in {Me, Flat}
      BY <1>6 DEF Unique
    <3>1. x \in Safe /\ x \in File /\ d.path[x] \in Place
      BY <1>1 DEF Safe
    <3>2. PICK a \in InUse : a.path[x] = Me
      BY <1>2, <3>1
    <3>3. PICK b \in InUse : b.path[x] = e.path[x]
      BY <1>2, <3>1
    <3> QED BY <3>1, <3>2, <3>3 DEF PathInv, Unique
  <2> QED BY <1>3, <1>4, <1>5, <2>1, <2>2 DEF PathInv
<1>7. CASE Crash /\ saved = None /\ Me' = ids + 1
  <2>1. saved' = None /\ ids' = ids
    BY <1>7 DEF Crash
  <2>2. OldPaths'
    BY <1>5, <2>1 DEF OldPaths, NoOld
  <2>3. Unique'
    <3> SUFFICES ASSUME Me' \in Id, NEW d \in InUse', NEW x \in Safe', d.path[x] = Me' PROVE FALSE
      BY DEF Unique
    <3>1. x \in File
      BY DEF Safe
    <3>2. d.path[x] <= ids
      BY <1>3, <2>1, <3>1 DEF Fresh
    <3> QED BY <1>1, <1>7, <3>2
  <2> QED BY <1>3, <1>4, <1>5, <2>2, <2>3 DEF PathInv
<1> QED BY <1>1, <1>6, <1>7

\* A reference to a new blob: the device's first to an attachment that is in its own hands.
LEMMA AddsKeepPaths ==
    ASSUME Control, PathInv, TaskInv, [Next]_vars, Control', Adds
    PROVE  PathInv'
<1> USE Marks
<1>1. /\ ids \in Nat /\ ids' \in Nat /\ ids <= ids' /\ (saved' = None => saved = None)
      /\ Safe' \subseteq Safe /\ Running /\ Running' /\ StateTypes
  BY NextMe, LostGrows, AddsMine DEF Control
<1>2. Me = store.id /\ Me \in Id /\ Me <= ids /\ Me' = Me
  <2>1. Me = store.id /\ Me \in Id /\ Me <= ids
    BY <1>1, RunsAsMe
  <2>2. conf' = conf /\ conf # None
    BY <1>1 DEF Adds, Rewrite, AttachEnd, settings, Running
  <2> QED BY <1>1, <2>1, <2>2 DEF Me
<1>3. PICK w \in Document :
        /\ \A x \in File : w.path[x] = IF x \in cmd.files THEN Me ELSE store.doc.path[x]
        /\ store'.doc = w /\ SetsReplica(store.folder, store.id, w) /\ cmd'.doc = None
  BY <1>2, AddsMine DEF Idle
<1>4. store.doc \in InUse /\ store.folder \in Folder /\ store.id \in Name /\ cmd.files \subseteq File
  BY <1>1, <1>2, InUseMembers DEF StateTypes, StoreType, CmdType
<1>5. ASSUME NEW d \in InUse' PROVE d = w \/ d \in InUse
  <2>1. d # None /\ (d = store'.doc \/ d = cmd'.doc \/ \E f \in Folder, n \in Name : d = disk'[f].replica[n])
    BY DEF InUse
  <2> QED BY <1>1, <1>3, <1>4, <2>1, InUseMembers DEF SetsReplica, Has
<1>6. ASSUME NEW d \in InUse', NEW x \in File
      PROVE  (\E e \in InUse : e.path[x] = d.path[x]) \/ (x \in cmd.files /\ d.path[x] = Me)
  BY <1>3, <1>4, <1>5
<1>7. ASSUME NEW x \in cmd.files
      PROVE  /\ saved = None => x \notin Old
             /\ x \in Old => cmd.at = "rewrite"
             /\ x \notin Old /\ x \in Safe' => \A d \in InUse : d.path[x] = None
  <2>1. CASE cmd.at = "rewrite"
    <3>1. store.doc.path[x] = Flat
      BY <2>1 DEF TaskInv, Rewriting
    <3> QED BY <1>4, <2>1, <3>1 DEF PathInv, NoOld, FlatIsOld
  <2>2. CASE cmd.at = "attach"
    <3>1. x \notin Old
      BY <2>2 DEF TaskInv, Attaching
    <3>2. ASSUME x \in Safe' PROVE <<x, store.id>> \in disk[store.folder].blobs
      <4>1. x \notin lost'
        BY <3>2 DEF Safe
      <4>2. cmd.files \X {store.id} \subseteq disk[store.folder].blobs
        BY <2>2, <4>1, AddsMine
      <4> QED BY <4>2
    <3> QED BY <2>2, <3>1, <3>2 DEF TaskInv, Attaching
  <2> QED BY <2>1, <2>2, AddsMine
<1>8. Fresh'
  <2>1. ASSUME NEW d \in InUse', NEW x \in File, d.path[x] \in Id PROVE d.path[x] <= ids'
    <3>1. d.path[x] <= ids
      BY <1>2, <1>6, <2>1 DEF PathInv, Fresh
    <3>2. d.path[x] \in Nat
      BY <2>1
    <3> QED BY <1>1, <3>1, <3>2
  <2> QED BY <2>1, FreshNames DEF Fresh, Has
<1>9. FlatIsOld'
  BY <1>2, <1>6 DEF PathInv, FlatIsOld
<1>10. OldPaths'
  <2> SUFFICES ASSUME NEW d \in InUse', NEW x \in Old PROVE d.path[x] \in {None, Gone, Flat, Me}
    BY <1>2 DEF OldPaths
  <2> QED BY <1>2, <1>6, FolderAssumption DEF PathInv, OldPaths
<1>11. NoOld'
  <2> SUFFICES ASSUME saved' = None, NEW d \in InUse', NEW x \in Old PROVE d.path[x] = None
    BY DEF NoOld
  <2> QED BY <1>1, <1>6, <1>7, FolderAssumption DEF PathInv, NoOld
<1>12. Unique'
  <2> SUFFICES ASSUME NEW d \in InUse', NEW e \in InUse', NEW x \in Safe',
                      d.path[x] = Me, e.path[x] \in Place
               PROVE  e.path[x] \in {Me, Flat}
    BY <1>2 DEF Unique
  <2>1. x \in Safe /\ x \in File
    BY <1>1 DEF Safe
  <2>2. (\E b \in InUse : b.path[x] = e.path[x]) \/ e.path[x] = Me
    BY <1>6, <2>1
  <2>3. CASE \E a \in InUse : a.path[x] = Me
    BY <1>2, <2>1, <2>2, <2>3 DEF PathInv, Unique
  <2>4. CASE x \in cmd.files
    <3>1. CASE x \in Old
      BY <1>2, <2>1, <2>2, <3>1 DEF PathInv, OldPaths
    <3>2. CASE x \notin Old
      BY <1>7, <2>2, <2>4, <3>2
    <3> QED BY <3>1, <3>2
  <2>5. (\E a \in InUse : a.path[x] = Me) \/ x \in cmd.files
    BY <1>6, <2>1
  <2> QED BY <2>3, <2>4, <2>5
<1> QED BY <1>8, <1>9, <1>10, <1>11, <1>12 DEF PathInv

\* What the peer writes: of attachments in use, or a new one.
LEMMA PeerPaths ==
    ASSUME Control, PeerWrites
    PROVE  \E w \in Document, y \in File :
             /\ SetsReplica(Chosen, Peer, w)
             /\ \A x \in File \ {y} : w.path[x] = None \/ \E e \in InUse : e.path[x] = w.path[x]
             /\ \/ w.path[y] = None \/ \E e \in InUse : e.path[y] = w.path[y]
                \/ w.path[y] = Gone /\ \E e \in InUse : e.path[y] \in Place
                \/ w.path[y] = Peer /\ Unused(y) /\ y \notin Old
             /\ ~PeerHasOld => \A x \in File : w.path[x] # Flat
             /\ \A x \in File : w.path[x] \in Id =>
                   \E n \in Name : Has(Chosen, n) /\ disk[Chosen].replica[n].path[x] = w.path[x]
             /\ UNCHANGED <<conf, saved, ids, cmd, gc, lost>> /\ store'.doc = store.doc
             /\ store'.folder = store.folder /\ store'.id = store.id
             /\ \/ SetsBlobs(Chosen, disk[Chosen].blobs)
                \/ SetsBlobs(Chosen, disk[Chosen].blobs \cup {<<y, Peer>>}) /\ Unused(y)
<1> USE Marks
<1>1. /\ StateTypes /\ UNCHANGED <<conf, saved, ids, cmd, gc, lost>> /\ store \in StoreType
      /\ store' = [store EXCEPT !.stale = @ \/ (store.folder = Chosen /\ ~store.pending)]
  BY DEF Control, PeerWrites, StateTypes, settings, seen
<1>2. store'.doc = store.doc /\ store'.folder = store.folder /\ store'.id = store.id
  BY <1>1 DEF StoreType
<1>3. PICK d \in Document, y \in File, p \in {Gone, Peer, None}, w \in Document :
        /\ \/ d = IF Has(Chosen, Peer) THEN disk[Chosen].replica[Peer] ELSE Empty
           \/ Reads(Chosen, Peer, d)
        /\ Has(Chosen, Peer) => disk[Chosen].replica[Peer].edits \subseteq d.edits
        /\ ~PeerHasOld => \A x \in File : d.path[x] # Flat
        /\ p = Gone => d.path[y] \in Place
        /\ p = Peer => d.path[y] = None /\ Unused(y) /\ y \notin Old
        /\ w = [edits |-> d.edits \cup {edits'},
                path |-> [d.path EXCEPT ![y] = IF p = None THEN @ ELSE p]]
        /\ SetsReplica(Chosen, Peer, w)
        /\ SetsBlobs(Chosen, IF p = Peer THEN disk[Chosen].blobs \cup {<<y, Peer>>}
                             ELSE disk[Chosen].blobs)
  BY PeerWritesDoes
<1>4. \A x \in File : w.path[x] = IF x = y /\ p # None THEN p ELSE d.path[x]
  BY <1>3 DEF Document
<1>5. ASSUME NEW x \in File
      PROVE  d.path[x] = None \/ \E n \in Name : Has(Chosen, n) /\ disk[Chosen].replica[n].path[x] = d.path[x]
  BY <1>3 DEF Reads, Empty
<1>6. \A x \in File : d.path[x] = None \/ \E e \in InUse : e.path[x] = d.path[x]
  BY <1>1, <1>5, InUseMembers
<1>7. \A x \in File \ {y} : w.path[x] = None \/ \E e \in InUse : e.path[x] = w.path[x]
  BY <1>4, <1>6
<1>8. \/ w.path[y] = None \/ \E e \in InUse : e.path[y] = w.path[y]
      \/ w.path[y] = Gone /\ \E e \in InUse : e.path[y] \in Place
      \/ w.path[y] = Peer /\ Unused(y) /\ y \notin Old
  <2>1. CASE p = None
    BY <1>4, <1>6, <2>1
  <2>2. CASE p = Gone
    BY <1>3, <1>4, <1>6, <2>2
  <2>3. CASE p = Peer
    BY <1>3, <1>4, <2>3
  <2> QED BY <2>1, <2>2, <2>3
<1>9. ~PeerHasOld => \A x \in File : w.path[x] # Flat
  <2>1. p # Flat
    BY MarkAssumption
  <2> QED BY <1>3, <1>4, <2>1
<1>10. ASSUME NEW x \in File, w.path[x] \in Id
       PROVE  \E n \in Name : Has(Chosen, n) /\ disk[Chosen].replica[n].path[x] = w.path[x]
  <2>1. p \notin Id /\ None \notin Id
    OBVIOUS
  <2>2. w.path[x] = d.path[x]
    BY <1>4, <1>10, <2>1
  <2> QED BY <1>5, <1>10, <2>1, <2>2
<1>11. \/ SetsBlobs(Chosen, disk[Chosen].blobs)
       \/ SetsBlobs(Chosen, disk[Chosen].blobs \cup {<<y, Peer>>}) /\ Unused(y)
  <2>1. CASE p = Peer
    BY <1>3, <2>1
  <2>2. CASE p # Peer
    BY <1>3, <2>2
  <2> QED BY <2>1, <2>2
<1> QED BY <1>1, <1>2, <1>3, <1>7, <1>8, <1>9, <1>10, <1>11

LEMMA PeerKeepsPaths ==
    ASSUME Control, PathInv, [Next]_vars, Control', PeerWrites
    PROVE  PathInv'
<1> USE Marks
<1>1. PICK w \in Document, y \in File :
        /\ SetsReplica(Chosen, Peer, w)
        /\ \A x \in File \ {y} : w.path[x] = None \/ \E e \in InUse : e.path[x] = w.path[x]
        /\ \/ w.path[y] = None \/ \E e \in InUse : e.path[y] = w.path[y]
           \/ w.path[y] = Gone /\ \E e \in InUse : e.path[y] \in Place
           \/ w.path[y] = Peer /\ Unused(y) /\ y \notin Old
        /\ UNCHANGED <<conf, saved, ids, cmd, gc, lost>> /\ store'.doc = store.doc
  BY PeerPaths
<1>2. CASE DrawnStep
  BY <1>2, DrawnKeepsPaths
<1>3. CASE w.path[y] = Peer /\ Unused(y) /\ y \notin Old
  <2>1. StateTypes /\ Me' = Me /\ Safe' = Safe
    BY <1>1 DEF Control, Me, Running, Safe
  <2>2. ASSUME NEW d \in InUse' PROVE d = w \/ d \in InUse
    <3>1. d # None /\ (d = store'.doc \/ d = cmd'.doc \/ \E f \in Folder, n \in Name : d = disk'[f].replica[n])
      BY DEF InUse
    <3> QED BY <1>1, <2>1, <3>1, InUseMembers DEF SetsReplica, Has
  <2>3. ASSUME NEW d \in InUse', NEW x \in File
        PROVE  \/ d.path[x] = None \/ \E e \in InUse : e.path[x] = d.path[x]
               \/ x = y /\ d.path[x] = Peer
    BY <1>1, <1>3, <2>2
  <2>4. \A d \in InUse : d.path[y] = None
    BY <1>3 DEF Unused
  <2>5. Fresh'
    <3>1. ASSUME NEW d \in InUse', NEW x \in File, d.path[x] \in Id PROVE d.path[x] <= ids'
      BY <1>1, <2>3, <3>1 DEF PathInv, Fresh
    <3> QED BY <3>1, FreshNames DEF Fresh, Has
  <2>6. FlatIsOld'
    BY <2>3 DEF PathInv, FlatIsOld
  <2>7. OldPaths'
    <3> SUFFICES ASSUME Me \in Id, NEW d \in InUse', NEW x \in Old
                 PROVE  d.path[x] \in {None, Gone, Flat, Me}
      BY <2>1 DEF OldPaths
    <3> QED BY <1>3, <2>3, FolderAssumption DEF PathInv, OldPaths
  <2>8. NoOld'
    <3> SUFFICES ASSUME saved' = None, NEW d \in InUse', NEW x \in Old PROVE d.path[x] = None
      BY DEF NoOld
    <3> QED BY <1>1, <1>3, <2>3, FolderAssumption DEF PathInv, NoOld
  <2>9. Unique'
    <3> SUFFICES ASSUME Me \in Id, NEW d \in InUse', NEW e \in InUse', NEW x \in Safe,
                        d.path[x] = Me, e.path[x] \in Place
                 PROVE  e.path[x] \in {Me, Flat}
      BY <2>1 DEF Unique
    <3>1. x \in File
      BY DEF Safe
    <3>2. x # y
      <4>1. d.path[x] # None /\ d.path[x] # Peer
        OBVIOUS
      <4> QED BY <2>3, <2>4, <3>1, <4>1
    <3>3. PICK a \in InUse : a.path[x] = Me
      BY <2>3, <3>1, <3>2
    <3>4. PICK b \in InUse : b.path[x] = e.path[x]
      BY <2>3, <3>1, <3>2
    <3> QED BY <3>3, <3>4 DEF PathInv, Unique
  <2> QED BY <2>5, <2>6, <2>7, <2>8, <2>9 DEF PathInv
<1>4. CASE ~(w.path[y] = Peer /\ Unused(y) /\ y \notin Old)
  <2>1. Drawn(w)
    BY <1>1, <1>4 DEF Drawn
  <2>2. store'.doc \in InUse /\ cmd'.doc \in {cmd.doc, None} /\ StateTypes
    BY <1>1, InUseMembers DEF Control
  <2> QED BY <1>1, <1>2, <2>1, <2>2, WriteDraws
<1> QED BY <1>3, <1>4

LEMMA NextPaths == ASSUME Control, PathInv, TaskInv, [Next]_vars, Control' PROVE PathInv'
BY NextDraws, DrawnKeepsPaths, AddsKeepPaths, PeerKeepsPaths
-----------------------------------------------------------------------------
(* What replicas say of this device's attachments, and their blobs *)

\* The steps that write this device's replica.
LEMMA OwnKeeps ==
    ASSUME Control, PathInv, ReplicaInv, Me \in Id, Me' = Me, Safe' \subseteq Safe,
           NEW f \in Folder, NEW d \in Document, SetsReplica(f, Me, d),
           \A x \in Safe' :
             /\ Has(f, Me) /\ disk[f].replica[Me].path[x] \in {Me, Gone} => d.path[x] \in {Me, Gone}
             /\ d.path[x] = Me => <<x, Me>> \in disk'[f].blobs,
           \A g \in Folder, x \in Safe' : g # f /\ <<x, Me>> \in disk[g].blobs => <<x, Me>> \in disk'[g].blobs
    PROVE  ReplicaInv'
<1> USE Marks
<1>1. OnlyOwnFlat'
  BY DEF ReplicaInv, OnlyOwnFlat, SetsReplica, Has
<1>2. PeersFollow'
  <2> SUFFICES ASSUME NEW g \in Folder, NEW n \in Name \ {Me}, NEW x \in Safe',
                      Has(g, n)', disk'[g].replica[n].path[x] = Me
               PROVE  Has(g, Me)' /\ disk'[g].replica[Me].path[x] \in {Me, Gone}
    BY DEF PeersFollow, Has
  <2>1. Has(g, Me) /\ disk[g].replica[Me].path[x] \in {Me, Gone}
    BY DEF ReplicaInv, PeersFollow, SetsReplica, Has
  <2>2. disk'[g].replica[Me] = IF g = f THEN d ELSE disk[g].replica[Me]
    BY DEF SetsReplica
  <2>3. CASE g = f
    <3>1. d.path[x] \in {Me, Gone}
      BY <2>1, <2>3
    <3> QED BY <2>2, <2>3, <3>1 DEF Has
  <2>4. CASE g # f
    BY <2>1, <2>2, <2>4 DEF Has
  <2> QED BY <2>3, <2>4
<1>3. BlobsThere'
  BY DEF ReplicaInv, BlobsThere, SetsReplica, Has
<1> QED BY <1>1, <1>2, <1>3 DEF ReplicaInv

\* The steps that leave the replicas alone.
LEMMA KeptReplicas ==
    ASSUME Control, ReplicaInv, Me' = Me, Safe' \subseteq Safe, KeepsReplicas,
           Me \in Id => \A g \in Folder, x \in Safe' :
               /\ Has(g, Me) /\ disk[g].replica[Me].path[x] = Me /\ <<x, Me>> \in disk[g].blobs
               => <<x, Me>> \in disk'[g].blobs
    PROVE  ReplicaInv'
<1> USE Marks
<1>1. OnlyOwnFlat'
  BY DEF ReplicaInv, OnlyOwnFlat, KeepsReplicas, Has
<1>2. PeersFollow'
  BY DEF ReplicaInv, PeersFollow, KeepsReplicas, Has
<1>3. BlobsThere'
  BY DEF ReplicaInv, BlobsThere, KeepsReplicas, Has
<1> QED BY <1>1, <1>2, <1>3 DEF ReplicaInv

\* A start, a retry and a reload write what the folder says.
LEMMA ReadKeeps ==
    ASSUME Control, PathInv, ReplicaInv, Me \in Id, Me' = Me, Safe' \subseteq Safe,
           NEW f \in Folder, NEW d, Reads(f, Me, d), SetsReplica(f, Me, d), KeepsBlobs
    PROVE  ReplicaInv'
<1>1. StateTypes /\ d \in Document
  BY DEF Control, Reads
<1>2. ASSUME NEW x \in Safe'
      PROVE  /\ Has(f, Me) /\ disk[f].replica[Me].path[x] \in {Me, Gone} => d.path[x] \in {Me, Gone}
             /\ d.path[x] = Me => <<x, Me>> \in disk'[f].blobs
  <2>1. x \in Safe
    OBVIOUS
  <2>2. /\ d.path[x] = Me => Has(f, Me) /\ disk[f].replica[Me].path[x] = Me
        /\ Has(f, Me) /\ disk[f].replica[Me].path[x] = Me => d.path[x] \in {Me, Gone}
        /\ Has(f, Me) /\ disk[f].replica[Me].path[x] = Gone => d.path[x] = Gone
    BY <1>1, <2>1, ReadsMine
  <2> QED BY <2>1, <2>2 DEF KeepsBlobs, ReplicaInv, BlobsThere
<1> QED BY <1>1, <1>2, OwnKeeps DEF KeepsBlobs

\* Opening and reloading.
LEMMA OpensKeepReplicas ==
    ASSUME Control, PathInv, ReplicaInv, [Next]_vars,
           Boot \/ RetryOpen \/ OpenDefault \/ Reload
    PROVE  ReplicaInv'
<1> USE Marks
<1>1. StateTypes /\ Safe' \subseteq Safe /\ store.folder \in Folder /\ store.id \in Id
  BY LostGrows DEF Control, StateTypes, StoreType
<1>2. CASE disk' = disk /\ Boot
  <2>1. Me' = Me
    BY <1>2, NextMe DEF Boot, Crash, Running
  <2> QED BY <1>1, <1>2, <2>1, KeptReplicas DEF KeepsReplicas
<1>3. ASSUME Me \in Id, Me' = Me, NEW f \in Folder, Open(f, Me)
      PROVE  ReplicaInv'
  <2>1. Reads(f, Me, store'.doc) /\ SetsReplica(f, Me, store'.doc) /\ KeepsBlobs
    BY <1>1, <1>3, OpenStores
  <2> QED BY <1>1, <1>3, <2>1, ReadKeeps
<1>4. CASE Boot /\ disk' # disk
  <2>1. ~Running /\ LoadConfig /\ Open(conf'.folder, conf'.id)
    BY <1>4 DEF Boot
  <2>2. /\ conf'.folder \in Folder /\ conf'.id \in Id /\ conf' \in ConfType
        /\ saved # None => conf' = saved
        /\ saved = None => ids' = ids + 1 /\ conf'.id = ids'
    BY <2>1, ConfigLoads
  <2>3. Me = conf'.id
    BY <2>1, <2>2 DEF Me
  <2>4. Me' = conf'.id
    BY <2>2 DEF Me, Running
  <2> QED BY <1>3, <2>1, <2>2, <2>3, <2>4
<1>5. CASE RetryOpen \/ OpenDefault
  <2>1. Running /\ Running' /\ UNCHANGED <<conf, saved, ids>>
    BY <1>5 DEF RetryOpen, OpenDefault, MainFree, Ready, settings, Running
  <2>2. Me = store.id /\ conf.id = store.id /\ Me' = Me /\ Me \in Id
    BY <2>1, RunsAsMe DEF Me
  <2>3. \E f \in Folder : Open(f, store.id)
    BY <1>1, <1>5, <2>2 DEF RetryOpen, OpenDefault
  <2> QED BY <1>3, <2>2, <2>3
<1>6. CASE Reload
  <2>1. /\ Reads(store.folder, store.id, store'.doc) /\ SetsReplica(store.folder, store.id, store'.doc)
        /\ KeepsBlobs /\ Running
    BY <1>6, ReloadDoes
  <2>2. Me = store.id /\ Me' = Me
    BY <1>6, <2>1, RunsAsMe DEF Reload, settings, Me, Running
  <2> QED BY <1>1, <2>1, <2>2, ReadKeeps
<1> QED BY <1>2, <1>4, <1>5, <1>6

\* Steps that write no replica.
LEMMA BlobsKeepReplicas ==
    ASSUME Control, ReplicaInv, TaskInv, [Next]_vars,
           \/ Migrate \/ \E x \in File : Attach(x)
           \/ \E t \in Thread : Unlink(t)
           \/ PeerCollects
    PROVE  ReplicaInv'
<1> USE Marks
<1>1. /\ StateTypes /\ Mirrored /\ Safe' \subseteq Safe /\ store.folder \in Folder /\ store.id \in Id
      /\ disk \in [Folder -> SideType]
  BY LostGrows DEF Control, StateTypes, StoreType
<1>2. Me' = Me
  BY NextMe DEF Migrate, Attach, Unlink, PeerCollects, settings, Me, Running
<1>3. CASE Migrate \/ \E x \in File : Attach(x)
  <2>1. PICK B : disk' = [disk EXCEPT ![store.folder].blobs = B]
    BY <1>3 DEF Migrate, Attach
  <2>2. KeepsReplicas /\ disk'[store.folder].blobs = B
        /\ \A g \in Folder \ {store.folder} : disk'[g] = disk[g]
    BY <1>1, <2>1 DEF SideType, KeepsReplicas
  <2>3. \A x \in File, i \in Id : <<x, i>> \in disk[store.folder].blobs => <<x, i>> \in disk'[store.folder].blobs
    <3>1. CASE Migrate
      <4>1. PICK moved : disk' = [disk EXCEPT ![store.folder].blobs =
                                    (@ \ (moved \X {Flat})) \cup (moved \X {store.id})]
        BY <3>1 DEF Migrate
      <4>2. disk'[store.folder].blobs = (disk[store.folder].blobs \ (moved \X {Flat})) \cup (moved \X {store.id})
        BY <1>1, <4>1 DEF SideType
      <4> QED BY <4>2
    <3>2. CASE \E x \in File : Attach(x)
      <4>1. PICK y : disk' = [disk EXCEPT ![store.folder].blobs = @ \cup {<<y, store.id>>}]
        BY <3>2 DEF Attach
      <4>2. disk'[store.folder].blobs = disk[store.folder].blobs \cup {<<y, store.id>>}
        BY <1>1, <4>1 DEF SideType
      <4> QED BY <4>2
    <3> QED BY <1>3, <3>1, <3>2
  <2>4. \A g \in Folder, x \in File, i \in Id : <<x, i>> \in disk[g].blobs => <<x, i>> \in disk'[g].blobs
    BY <2>2, <2>3
  <2> QED BY <1>1, <1>2, <2>2, <2>4, KeptReplicas DEF Safe
<1>4. CASE \E t \in Thread : Unlink(t)
  <2>1. PICK t \in Thread : Unlink(t)
    BY <1>4
  <2>2. Running /\ ~store.pending /\ KeepsReplicas
        /\ SetsBlobs(store.folder, disk[store.folder].blobs \ gc[t].doomed)
    BY <2>1, UnlinkDoes
  <2>3. Me = store.id
    BY <2>2, RunsAsMe
  <2>4. ASSUME NEW g \in Folder, NEW x \in Safe', Has(g, Me), disk[g].replica[Me].path[x] = Me,
               <<x, Me>> \in disk[g].blobs
        PROVE  <<x, Me>> \in disk'[g].blobs
    <3>1. CASE g = store.folder
      <4>1. store.doc.path[x] = store.id
        BY <1>1, <2>2, <2>3, <2>4, <3>1 DEF Mirrored
      <4>2. <<x, Me>> \notin gc[t].doomed
        BY <1>1, <2>3, <4>1 DEF TaskInv, NotDoomed
      <4> QED BY <2>2, <2>4, <3>1, <4>2 DEF SetsBlobs
    <3>2. CASE g # store.folder
      BY <2>2, <2>4, <3>2 DEF SetsBlobs
    <3> QED BY <3>1, <3>2
  <2> QED BY <1>1, <1>2, <2>2, <2>4, KeptReplicas
<1>5. CASE PeerCollects
  <2>1. KeepsReplicas
    BY <1>5, PeerCollectsDoes
  <2>2. PICK dead \in SUBSET disk[Chosen].blobs :
          /\ SetsBlobs(Chosen, disk[Chosen].blobs \ dead)
          /\ lost' = lost \cup {b[1] : b \in dead}
    BY <1>5, PeerCollectsDoes
  <2>3. \A x \in Safe', i \in Id : <<x, i>> \notin dead
    <3> SUFFICES ASSUME NEW x \in Safe', NEW i \in Id, <<x, i>> \in dead PROVE FALSE
      OBVIOUS
    <3>1. x \in {b[1] : b \in dead}
      OBVIOUS
    <3> QED BY <2>2, <3>1 DEF Safe
  <2> QED BY <1>1, <1>2, <2>1, <2>2, <2>3, KeptReplicas DEF SetsBlobs
<1> QED BY <1>3, <1>4, <1>5

\* Edits and removals.
LEMMA EditsKeepReplicas ==
    ASSUME Control, PathInv, ReplicaInv, [Next]_vars, Write \/ \E x \in File : Remove(x)
    PROVE  ReplicaInv'
<1> USE Marks
<1>1. /\ StateTypes /\ Mirrored /\ Safe' \subseteq Safe /\ store.folder \in Folder /\ store.id \in Id
      /\ store.doc \in Document
  BY LostGrows DEF Control, StateTypes, StoreType
<1>2. Running /\ Me = store.id /\ Me' = Me /\ Me \in Id
  <2>1. Running /\ UNCHANGED <<conf, saved, ids>>
    BY DEF Write, Remove, MainFree, Ready, settings
  <2> QED BY <2>1, RunsAsMe DEF Me, Running
<1>3. PICK d \in Document : Commit(d) /\ \A x \in File : d.path[x] \in {store.doc.path[x], Gone}
  <2>1. CASE Write
    <3>1. edits' \in Edit
      BY <1>1, <2>1, FolderAssumption DEF Write, StateTypes, Edit
    <3> DEFINE d == [store.doc EXCEPT !.edits = @ \cup {edits'}]
    <3>2. d \in Document /\ d.path = store.doc.path
      BY <1>1, <3>1 DEF Document
    <3>3. Commit(d)
      BY <2>1 DEF Write
    <3> HIDE DEF d
    <3> QED BY <3>2, <3>3
  <2>2. CASE \E x \in File : Remove(x)
    <3>1. PICK x \in File : Remove(x)
      BY <2>2
    <3> DEFINE d == [store.doc EXCEPT !.path[x] = Gone]
    <3>2. d \in Document /\ \A y \in File : d.path[y] = IF y = x THEN Gone ELSE store.doc.path[y]
      BY <1>1 DEF Document
    <3>3. Commit(d)
      BY <3>1 DEF Remove
    <3> HIDE DEF d
    <3> QED BY <3>2, <3>3
  <2> QED BY <2>1, <2>2
<1>4. CASE store.pending
  <2>1. disk' = disk
    BY <1>1, <1>3, <1>4, CommitStores
  <2> QED BY <1>1, <1>2, <2>1, KeptReplicas DEF KeepsReplicas
<1>5. CASE ~store.pending
  <2>1. SetsReplica(store.folder, Me, d) /\ KeepsBlobs
    BY <1>1, <1>2, <1>3, <1>5, CommitStores
  <2>2. Has(store.folder, Me) /\ disk[store.folder].replica[Me] = store.doc
    BY <1>1, <1>2, <1>5 DEF Mirrored, Has
  <2>3. ASSUME NEW x \in Safe'
        PROVE  /\ Has(store.folder, Me) /\ disk[store.folder].replica[Me].path[x] \in {Me, Gone}
                  => d.path[x] \in {Me, Gone}
               /\ d.path[x] = Me => <<x, Me>> \in disk'[store.folder].blobs
    <3>1. d.path[x] \in {store.doc.path[x], Gone} /\ x \in Safe
      BY <1>1, <1>3 DEF Safe
    <3>2. d.path[x] = Me => <<x, Me>> \in disk[store.folder].blobs
      BY <1>1, <1>2, <2>2, <3>1 DEF ReplicaInv, BlobsThere
    <3> QED BY <1>1, <2>1, <2>2, <3>1, <3>2 DEF KeepsBlobs
  <2> QED BY <1>1, <1>2, <2>1, <2>3, OwnKeeps DEF KeepsBlobs
<1> QED BY <1>4, <1>5

\* The first references to new blobs.
LEMMA AddsKeepReplicas ==
    ASSUME Control, PathInv, ReplicaInv, TaskInv, [Next]_vars, Rewrite \/ AttachEnd
    PROVE  ReplicaInv'
<1> USE Marks
<1>1. /\ StateTypes /\ Mirrored /\ Safe' \subseteq Safe /\ store.folder \in Folder /\ store.id \in Id
      /\ cmd.files \subseteq File
  BY LostGrows DEF Control, StateTypes, StoreType, CmdType
<1>2. Running /\ Me = store.id /\ Me' = Me /\ Me \in Id
  <2>1. Running /\ UNCHANGED <<conf, saved, ids>>
    BY DEF Rewrite, AttachEnd, settings, Control, CmdControl
  <2> QED BY <2>1, RunsAsMe DEF Me, Running
<1>3. CASE disk' = disk
  BY <1>1, <1>2, <1>3, KeptReplicas DEF KeepsReplicas
<1>4. CASE disk' # disk
  <2>1. Adds
    BY <1>4 DEF Adds
  <2>2. /\ ~store.pending /\ cmd.at \in {"rewrite", "attach"}
        /\ cmd.at = "attach" =>
             lost' = IF cmd.files \X {store.id} \subseteq
                          disk[store.folder].blobs \ UNION {gc[t].doomed : t \in Thread}
                     THEN lost ELSE lost \cup cmd.files
    BY <2>1, AddsMine
  <2>3. PICK d \in Document :
          /\ \A x \in File : d.path[x] = IF x \in cmd.files THEN store.id ELSE store.doc.path[x]
          /\ SetsReplica(store.folder, store.id, d) /\ KeepsBlobs
    BY <2>1, AddsMine
  <2>4. Has(store.folder, Me) /\ disk[store.folder].replica[Me] = store.doc
    BY <1>1, <1>2, <2>2 DEF Mirrored, Has, StateTypes, StoreType
  <2>5. ASSUME NEW x \in Safe', x \in cmd.files
        PROVE  <<x, Me>> \in disk[store.folder].blobs
    <3>1. x \in Safe /\ x \notin lost'
      BY <1>1 DEF Safe
    <3>2. CASE cmd.at = "rewrite"
      BY <1>2, <2>5, <3>1, <3>2 DEF TaskInv, Rewriting
    <3>3. CASE cmd.at = "attach"
      <4>1. cmd.files \X {store.id} \subseteq disk[store.folder].blobs
        BY <2>2, <2>5, <3>1, <3>3
      <4> QED BY <1>2, <2>5, <4>1
    <3> QED BY <2>2, <3>2, <3>3
  <2>6. ASSUME NEW x \in Safe'
        PROVE  /\ Has(store.folder, Me) /\ disk[store.folder].replica[Me].path[x] \in {Me, Gone}
                  => d.path[x] \in {Me, Gone}
               /\ d.path[x] = Me => <<x, Me>> \in disk'[store.folder].blobs
    <3>1. x \in File /\ x \in Safe
      BY <1>1 DEF Safe
    <3>2. CASE x \in cmd.files
      <4>1. d.path[x] = Me
        BY <1>2, <2>3, <3>1, <3>2
      <4>2. <<x, Me>> \in disk[store.folder].blobs
        BY <2>5, <3>2
      <4> QED BY <1>1, <2>3, <4>1, <4>2 DEF KeepsBlobs
    <3>3. CASE x \notin cmd.files
      <4>1. d.path[x] = store.doc.path[x]
        BY <2>3, <3>1, <3>3
      <4>2. d.path[x] = Me => <<x, Me>> \in disk[store.folder].blobs
        BY <1>1, <1>2, <2>4, <3>1, <4>1 DEF ReplicaInv, BlobsThere
      <4> QED BY <1>1, <2>3, <2>4, <4>1, <4>2 DEF KeepsBlobs
    <3> QED BY <3>2, <3>3
  <2> QED BY <1>1, <1>2, <2>3, <2>6, OwnKeeps DEF KeepsBlobs
<1> QED BY <1>3, <1>4

\* A folder change brings the blobs that it refers to, or finds them there.
LEMMA MoveKeepsReplicas ==
    ASSUME Control, PathInv, ReplicaInv, TaskInv, ~Reselect, [Next]_vars, Move
    PROVE  ReplicaInv'
<1> USE Marks
<1>1. /\ StateTypes /\ Mirrored /\ CmdControl /\ Safe' \subseteq Safe /\ store.folder \in Folder /\ store.id \in Id
      /\ cmd.at = "move" /\ disk \in [Folder -> SideType]
  BY LostGrows DEF Control, StateTypes, StoreType, Move
<1>2. Running /\ Me = store.id /\ Me' = Me /\ Me \in Id
  <2>1. Running /\ UNCHANGED <<conf, saved, ids>>
    BY <1>1 DEF Move, settings, CmdControl
  <2> QED BY <2>1, RunsAsMe DEF Me, Running
<1>3. CASE cmd' = Idle
  <2>1. disk' = disk
    BY <1>3 DEF Move, Idle
  <2> QED BY <1>1, <1>2, <2>1, KeptReplicas DEF KeepsReplicas
<1>4. CASE cmd' # Idle
  <2>1. /\ cmd.folder \in Folder /\ cmd.from = store.folder /\ cmd.from # cmd.folder /\ ~store.pending
        /\ Brought \in Document /\ SetsReplica(cmd.folder, Me, Brought)
    BY <1>1, <1>2, <1>4, MoveDoes DEF CmdControl
  <2>2. PICK sent \in SUBSET ToCopy(cmd.folder, Brought) :
          /\ \A g \in Folder : disk'[g].blobs =
               IF g = cmd.folder THEN disk[g].blobs \cup sent ELSE disk[g].blobs
          /\ lost' = lost \cup {b[1] : b \in (ToCopy(cmd.folder, Brought) \ sent)
                                              \cup (Refs(Brought) \cap gc["poll"].doomed)}
    BY <1>4, MoveDoes
  <2>3. ASSUME NEW x \in Safe'
        PROVE  /\ Has(cmd.folder, Me) /\ disk[cmd.folder].replica[Me].path[x] \in {Me, Gone}
                  => Brought.path[x] \in {Me, Gone}
               /\ Brought.path[x] = Me => <<x, Me>> \in disk'[cmd.folder].blobs
    <3>1. x \in Safe /\ x \in File /\ x \notin lost'
      BY <1>1 DEF Safe
    <3>2. CASE cmd.doc = None
      <4>1. Has(cmd.folder, Me) => disk[cmd.folder].replica[Me].path[x] = None
        BY <1>1, <1>2, <3>1, <3>2 DEF TaskInv, Targeting
      <4>2. ASSUME Brought.path[x] = Me PROVE <<x, Me>> \in disk'[cmd.folder].blobs
        <5>1. disk[store.folder].replica[Me] = store.doc /\ store.doc.path[x] = Me /\ store.doc # None
          BY <1>1, <1>2, <2>1, <3>2, <4>2 DEF Mirrored, Brought, StateTypes, StoreType
        <5>2. <<x, Me>> \in disk[cmd.from].blobs
          BY <1>1, <1>2, <2>1, <3>1, <5>1 DEF ReplicaInv, BlobsThere, Has
        <5>3. <<x, Me>> \in ToCopy(cmd.folder, Brought) \/ <<x, Me>> \in disk[cmd.folder].blobs
          BY <1>2, <3>2, <5>2 DEF ToCopy
        <5>4. <<x, Me>> \notin ToCopy(cmd.folder, Brought) \ sent
          <6> SUFFICES ASSUME <<x, Me>> \in ToCopy(cmd.folder, Brought) \ sent PROVE FALSE
            OBVIOUS
          <6>1. x \in {b[1] : b \in (ToCopy(cmd.folder, Brought) \ sent)
                                     \cup (Refs(Brought) \cap gc["poll"].doomed)}
            OBVIOUS
          <6> QED BY <2>2, <3>1, <6>1
        <5> QED BY <2>1, <2>2, <5>3, <5>4
      <4> QED BY <1>2, <4>1, <4>2
    <3>3. CASE cmd.doc # None
      <4>1. Brought = cmd.doc
        BY <3>3 DEF Brought
      <4>2. /\ Has(cmd.folder, Me) =>
                 LET own == disk[cmd.folder].replica[Me].path[x]
                 IN  /\ own = Me => cmd.doc.path[x] \in {Me, Gone}
                     /\ own = Gone => cmd.doc.path[x] = Gone
            /\ cmd.doc.path[x] = Me =>
                 Has(cmd.folder, Me) /\ disk[cmd.folder].replica[Me].path[x] = Me
        BY <1>1, <1>2, <3>1, <3>3 DEF TaskInv, Targeting
      <4>3. Brought.path[x] = Me => <<x, Me>> \in disk[cmd.folder].blobs
        BY <1>2, <2>1, <3>1, <4>1, <4>2 DEF ReplicaInv, BlobsThere
      <4> QED BY <2>1, <2>2, <4>1, <4>2, <4>3
    <3> QED BY <3>2, <3>3
  <2>4. \A g \in Folder, x \in Safe' :
          g # cmd.folder /\ <<x, Me>> \in disk[g].blobs => <<x, Me>> \in disk'[g].blobs
    BY <2>2
  <2> QED BY <1>1, <1>2, <2>1, <2>3, <2>4, OwnKeeps
<1> QED BY <1>3, <1>4

\* Removing our payload from the folder that was left.
LEMMA CleanKeepsReplicas ==
    ASSUME Control, ReplicaInv, [Next]_vars, Clean
    PROVE  ReplicaInv'
<1> USE Marks
<1>1. /\ StateTypes /\ Safe' \subseteq Safe /\ store.folder \in Folder /\ store.id \in Id
      /\ cmd.from \in Folder /\ Running
  BY LostGrows, CleanDoes DEF Control, StateTypes, StoreType
<1>2. Me = store.id /\ Me' = Me /\ Me \in Id /\ Me \in Name /\ Me # Legacy
  <2>1. UNCHANGED <<conf, saved, ids>>
    BY <1>1 DEF Clean, settings
  <2> QED BY <1>1, <2>1, RunsAsMe DEF Me, Running
<1>3. CASE disk' = disk
  BY <1>1, <1>2, <1>3, KeptReplicas DEF KeepsReplicas
<1>4. CASE disk' # disk
  <2>1. /\ SetsReplica(cmd.from, Me, None)
        /\ lost' = lost \cup {x \in File : \E n \in Others(cmd.from, Me) :
                                  disk[cmd.from].replica[n].path[x] = Me}
    BY <1>2, <1>4, CleanDoes
  <2>2. \A g \in Folder : g # cmd.from => disk'[g].blobs = disk[g].blobs
    BY <1>4, CleanDoes
  <2>3. OnlyOwnFlat'
    BY <1>2, <2>1 DEF ReplicaInv, OnlyOwnFlat, SetsReplica, Has
  <2>4. PeersFollow'
    <3> SUFFICES ASSUME NEW g \in Folder, NEW n \in Name \ {Me}, NEW x \in Safe',
                        Has(g, n)', disk'[g].replica[n].path[x] = Me
                 PROVE  Has(g, Me)' /\ disk'[g].replica[Me].path[x] \in {Me, Gone}
      BY <1>2 DEF PeersFollow, Has
    <3>1. Has(g, n) /\ disk[g].replica[n].path[x] = Me /\ x \in Safe /\ x \in File /\ x \notin lost'
      BY <1>1, <2>1 DEF SetsReplica, Has, Safe
    <3>2. Has(g, Me) /\ disk[g].replica[Me].path[x] \in {Me, Gone}
      BY <1>2, <3>1 DEF ReplicaInv, PeersFollow
    <3>3. CASE g = cmd.from
      <4>1. n \in Others(cmd.from, Me)
        BY <3>1, <3>3 DEF Others, Peers, Has
      <4> QED BY <2>1, <3>1, <3>3, <4>1
    <3>4. CASE g # cmd.from
      BY <1>2, <2>1, <3>2, <3>4 DEF SetsReplica, Has
    <3> QED BY <3>3, <3>4
  <2>5. BlobsThere'
    <3> SUFFICES ASSUME NEW g \in Folder, NEW x \in Safe', Has(g, Me)', disk'[g].replica[Me].path[x] = Me
                 PROVE  <<x, Me>> \in disk'[g].blobs
      BY <1>2 DEF BlobsThere, Has
    <3>1. g # cmd.from /\ Has(g, Me) /\ disk[g].replica[Me].path[x] = Me /\ x \in Safe
      BY <1>1, <1>2, <2>1 DEF SetsReplica, Has
    <3> QED BY <1>2, <2>2, <3>1 DEF ReplicaInv, BlobsThere
  <2> QED BY <2>3, <2>4, <2>5 DEF ReplicaInv
<1> QED BY <1>3, <1>4

\* The peer refers to an attachment of this device only after it read of it.
LEMMA PeerKeepsReplicas ==
    ASSUME Control, ReplicaInv, ~PeerHasOld, [Next]_vars, PeerWrites
    PROVE  ReplicaInv'
<1> USE Marks
<1>1. PICK w \in Document, y \in File :
        /\ SetsReplica(Chosen, Peer, w)
        /\ ~PeerHasOld => \A x \in File : w.path[x] # Flat
        /\ \A x \in File : w.path[x] \in Id =>
              \E n \in Name : Has(Chosen, n) /\ disk[Chosen].replica[n].path[x] = w.path[x]
        /\ UNCHANGED <<conf, saved, ids, cmd, gc, lost>>
        /\ \/ SetsBlobs(Chosen, disk[Chosen].blobs)
           \/ SetsBlobs(Chosen, disk[Chosen].blobs \cup {<<y, Peer>>}) /\ Unused(y)
  BY PeerPaths
<1>2. Me' = Me /\ Safe' = Safe /\ (Me \in Id => Me # Peer /\ Me \in Name)
  BY <1>1 DEF Me, Running, Safe
<1>3. OnlyOwnFlat'
  <2> SUFFICES ASSUME Me \in Id, NEW f \in Folder, NEW n \in Name \ {Me}, NEW x \in File, Has(f, n)'
               PROVE  disk'[f].replica[n].path[x] # Flat
    BY <1>2 DEF OnlyOwnFlat, Has
  <2>1. CASE f = Chosen /\ n = Peer
    BY <1>1, <2>1 DEF SetsReplica
  <2>2. CASE ~(f = Chosen /\ n = Peer)
    BY <1>1, <2>2 DEF SetsReplica, ReplicaInv, OnlyOwnFlat, Has
  <2> QED BY <2>1, <2>2
<1>4. PeersFollow'
  <2> SUFFICES ASSUME Me \in Id, NEW f \in Folder, NEW n \in Name \ {Me}, NEW x \in Safe, Has(f, n)',
                      disk'[f].replica[n].path[x] = Me
               PROVE  Has(f, Me)' /\ disk'[f].replica[Me].path[x] \in {Me, Gone}
    BY <1>2 DEF PeersFollow, Has
  <2>1. \E m \in Name : Has(f, m) /\ disk[f].replica[m].path[x] = Me
    <3>1. CASE f = Chosen /\ n = Peer
      <4>1. w.path[x] = Me /\ x \in File
        BY <1>1, <3>1 DEF SetsReplica, Safe
      <4> QED BY <1>1, <3>1, <4>1
    <3>2. CASE ~(f = Chosen /\ n = Peer)
      BY <1>1, <3>2 DEF SetsReplica, Has
    <3> QED BY <3>1, <3>2
  <2>2. Has(f, Me) /\ disk[f].replica[Me].path[x] \in {Me, Gone}
    BY <2>1 DEF ReplicaInv, PeersFollow
  <2> QED BY <1>1, <1>2, <2>2 DEF SetsReplica, Has
<1>5. BlobsThere'
  <2> SUFFICES ASSUME Me \in Id, NEW f \in Folder, NEW x \in Safe, Has(f, Me)', disk'[f].replica[Me].path[x] = Me
               PROVE  <<x, Me>> \in disk'[f].blobs
    BY <1>2 DEF BlobsThere, Has
  <2>1. Has(f, Me) /\ disk[f].replica[Me].path[x] = Me
    BY <1>1, <1>2 DEF SetsReplica, Has
  <2>2. <<x, Me>> \in disk[f].blobs
    BY <2>1 DEF ReplicaInv, BlobsThere
  <2> QED BY <1>1, <2>2 DEF SetsBlobs
<1> QED BY <1>3, <1>4, <1>5 DEF ReplicaInv

\* The other steps; an id that was lost with the app has left no trace.
LEMMA RestKeepsReplicas ==
    ASSUME Control, PathInv, ReplicaInv, [Next]_vars, Control', PathInv', disk' = disk
    PROVE  ReplicaInv'
<1> USE Marks
<1>1. CASE Me' = Me
  <2>1. Safe' \subseteq Safe
    BY LostGrows
  <2> QED BY <1>1, <2>1, KeptReplicas DEF KeepsReplicas
<1>2. CASE Me' # Me
  <2>1. saved = None /\ Me' = ids + 1 /\ saved' = saved /\ ids' = ids /\ ids \in Nat
    BY <1>2, NextMe DEF Crash
  <2>2. ASSUME Me' \in Id, NEW f \in Folder, NEW n \in Name, Has(f, n)'
        PROVE  /\ n # Me' /\ \A x \in File : disk'[f].replica[n].path[x] \notin {Flat, Me'}
    <3>1. disk'[f].replica[n] \in InUse'
      BY <2>2 DEF InUse, Has
    <3>2. n # Me'
      BY <2>1, <2>2 DEF PathInv, Fresh, Has
    <3>3. ASSUME NEW x \in File PROVE disk'[f].replica[n].path[x] # Me'
      BY <2>1, <2>2, <3>1 DEF PathInv, Fresh
    <3>4. ASSUME NEW x \in File, disk'[f].replica[n].path[x] = Flat PROVE FALSE
      <4>1. x \in Old
        BY <3>1, <3>4 DEF PathInv, FlatIsOld
      <4>2. disk'[f].replica[n].path[x] = None
        BY <2>1, <3>1, <4>1 DEF PathInv, NoOld
      <4> QED BY <3>4, <4>2
    <3> QED BY <3>2, <3>3, <3>4
  <2>3. OnlyOwnFlat' /\ PeersFollow' /\ BlobsThere'
    BY <2>2 DEF OnlyOwnFlat, PeersFollow, BlobsThere, Safe, Has
  <2> QED BY <2>3 DEF ReplicaInv
<1> QED BY <1>1, <1>2

LEMMA NextReplicas ==
    ASSUME Control, PathInv, ReplicaInv, TaskInv, ~Reselect, ~PeerHasOld, [Next]_vars, Control'
    PROVE  ReplicaInv'
<1>1. PathInv'
  BY NextPaths
<1>2. CASE \/ Boot \/ RetryOpen \/ OpenDefault \/ Reload
           \/ Write \/ \E x \in File : Remove(x)
  BY <1>2, OpensKeepReplicas, EditsKeepReplicas
<1>3. CASE \/ Migrate \/ \E x \in File : Attach(x)
           \/ \E t \in Thread : Unlink(t)
           \/ PeerCollects
  BY <1>3, BlobsKeepReplicas
<1>4. CASE Rewrite \/ AttachEnd \/ Move \/ Clean \/ PeerWrites
  BY <1>4, AddsKeepReplicas, MoveKeepsReplicas, CleanKeepsReplicas, PeerKeepsReplicas
<1>5. CASE \/ UNCHANGED vars \/ Save \/ Mount \/ Crash \/ \E t \in Thread : Scan(t)
           \/ \E f \in Folder, move \in BOOLEAN : ChangeFolder(f, move)
  <2>1. disk' = disk
    BY <1>5 DEF vars, Save, Mount, Crash, Scan, ChangeFolder
  <2> QED BY <1>1, <2>1, RestKeepsReplicas
<1> QED BY <1>2, <1>3, <1>4, <1>5 DEF Next
-----------------------------------------------------------------------------
(* The commands and collections under way *)

\* Which steps start a command, and which run beside one.
LEMMA Starts ==
    ASSUME Control, [Next]_vars, cmd'.at \in {"rewrite", "attach", "move"}
    PROVE  \/ cmd' = cmd \/ Migrate \/ \E x \in File : Attach(x)
           \/ \E f \in Folder, move \in BOOLEAN : ChangeFolder(f, move)
<1> USE Marks
<1>1. cmd \in CmdType
  BY DEF Control, StateTypes
<1>2. ~(Rewrite \/ RetryOpen \/ OpenDefault \/ Save \/ AttachEnd \/ Crash) \/ cmd' = cmd
  BY DEF Rewrite, RetryOpen, OpenDefault, Save, AttachEnd, Crash, Idle
<1>3. CASE Boot
  <2>1. cmd' = cmd \/ cmd' = [Idle EXCEPT !.at = "migrate"]
    BY <1>3, Zenon DEF Boot
  <2> QED BY <2>1 DEF Idle
<1>4. ~Move
  BY MoveDoes DEF Idle
<1>5. ~Clean
  BY <1>1, CleanDoes DEF CmdType
<1>6. CASE \/ Write \/ Reload \/ PeerWrites \/ PeerCollects \/ Mount \/ UNCHANGED vars
           \/ \E x \in File : Remove(x)
           \/ \E t \in Thread : Scan(t) \/ Unlink(t)
  BY <1>6 DEF Write, Reload, PeerWrites, PeerCollects, Mount, Remove, Scan, Unlink, vars
<1> QED BY <1>2, <1>3, <1>4, <1>5, <1>6 DEF Next

LEMMA Beside ==
    ASSUME Control, [Next]_vars, cmd' = cmd, cmd.at \in {"rewrite", "attach", "move"}
    PROVE  \/ PeerWrites \/ PeerCollects \/ Mount \/ UNCHANGED vars
           \/ /\ cmd.at # "rewrite"
              /\ Write \/ Reload \/ \E t \in Thread : Scan(t) \/ Unlink(t)
<1> USE Marks
<1>1. cmd \in CmdType /\ Running /\ gc["main"] = NoGc /\ (cmd.at = "rewrite" => gc["poll"] = NoGc)
  BY DEF Control, CmdControl, StateTypes, SetUp
<1>2. ~(\/ Boot \/ RetryOpen \/ OpenDefault \/ Rewrite \/ AttachEnd \/ Save \/ Crash
        \/ \E f \in Folder, move \in BOOLEAN : ChangeFolder(f, move)
        \/ \E x \in File : Attach(x) \/ Remove(x))
  BY <1>1 DEF Boot, RetryOpen, OpenDefault, Rewrite, AttachEnd, Save, Crash, ChangeFolder, Attach, Remove,
              MainFree, Idle
<1>3. ~Migrate
  BY DEF Migrate
<1>4. ~Move
  BY MoveDoes DEF Idle
<1>5. ~Clean
  BY DEF Clean
<1>6. cmd.at = "rewrite" => ~Write /\ ~Reload /\ ~\E t \in Thread : Scan(t) \/ Unlink(t)
  BY <1>1 DEF Write, Reload, Ready, SetUp, Scan, Unlink, NoGc
<1> QED BY <1>2, <1>3, <1>4, <1>5, <1>6 DEF Next

LEMMA NextTargeting ==
    ASSUME Control, PathInv, ReplicaInv, TaskInv, ~Reselect, [Next]_vars, Control'
    PROVE  Targeting'
<1> USE Marks
<1> SUFFICES ASSUME cmd'.at = "move" PROVE Targeting'
  BY DEF Targeting
<1>1. StateTypes /\ Safe' \subseteq Safe
  BY LostGrows DEF Control
<1>2. CASE cmd' = cmd
  BY <1>1, <1>2, OthersLeaveTheMove DEF TaskInv, Targeting, Has
<1>3. CASE \E f \in Folder, move \in BOOLEAN : ChangeFolder(f, move)
  <2>1. PICK f \in Folder, move \in BOOLEAN : ChangeFolder(f, move)
    BY <1>3
  <2>2. /\ cmd'.folder = f /\ cmd'.doc = Target(f, store.id) /\ UNCHANGED <<store, disk>> /\ Running
    BY <2>1 DEF ChangeFolder, Idle, MainFree, Ready
  <2>3. Me = store.id /\ Me \in Id
    BY <2>2, RunsAsMe
  <2>4. PICK d : d = Target(f, store.id)
    OBVIOUS
  <2>5. ASSUME NEW x \in Safe
        PROVE  /\ Has(f, store.id) =>
                    LET own == disk[f].replica[store.id].path[x]
                    IN  IF d = None THEN own = None
                        ELSE /\ own = store.id => d.path[x] \in {store.id, Gone}
                             /\ own = Gone => d.path[x] = Gone
               /\ d # None /\ d.path[x] = store.id =>
                    Has(f, store.id) /\ disk[f].replica[store.id].path[x] = store.id
    <3>1. CASE d = None
      <4>1. Has(f, store.id) => ~HasData(disk[f].replica[store.id])
        BY <1>1, <2>3, <2>4, <3>1, TargetReads
      <4> QED BY <3>1, <4>1 DEF HasData, Safe
    <3>2. CASE d # None
      <4>1. Reads(f, Me, d)
        BY <1>1, <2>3, <2>4, <3>2, TargetReads
      <4> QED BY <1>1, <2>3, <3>2, <4>1, ReadsMine
    <3> QED BY <3>1, <3>2
  <2> QED BY <1>1, <2>2, <2>4, <2>5 DEF Targeting, Has
<1>4. ~Migrate /\ ~\E x \in File : Attach(x)
  <2>1. CASE Migrate
    BY <1>1, <2>1 DEF Migrate, Idle, StateTypes, CmdType
  <2>2. CASE \E x \in File : Attach(x)
    BY <2>2 DEF Attach, Idle
  <2> QED BY <2>1, <2>2
<1> QED BY <1>2, <1>3, <1>4, Starts

LEMMA NextRewriting ==
    ASSUME Control, TaskInv, [Next]_vars
    PROVE  Rewriting'
<1> USE Marks
<1> SUFFICES ASSUME cmd'.at = "rewrite" PROVE Rewriting'
  BY DEF Rewriting
<1>1. StateTypes /\ Safe' \subseteq Safe /\ store.folder \in Folder /\ store.id \in Id /\ disk \in [Folder -> SideType]
      /\ cmd \in CmdType /\ store \in StoreType
  BY LostGrows DEF Control, StateTypes, StoreType
<1>2. CASE Migrate
  <2>1. PICK moved \in SUBSET File :
          /\ \A x \in moved : store.doc.path[x] = Flat
          /\ disk' = [disk EXCEPT ![store.folder].blobs = (@ \ (moved \X {Flat})) \cup (moved \X {store.id})]
          /\ cmd' = IF moved = {} THEN Idle ELSE [cmd EXCEPT !.at = "rewrite", !.files = moved]
          /\ store' = store
    BY <1>2 DEF Migrate
  <2>2. cmd'.files = moved
    BY <1>1, <2>1 DEF CmdType, Idle
  <2>3. disk'[store.folder].blobs = (disk[store.folder].blobs \ (moved \X {Flat})) \cup (moved \X {store.id})
    BY <1>1, <2>1 DEF SideType
  <2> QED BY <2>1, <2>2, <2>3 DEF Rewriting
<1>3. CASE cmd' = cmd
  <2>1. PeerWrites \/ PeerCollects \/ Mount \/ UNCHANGED vars
    BY <1>3, Beside
  <2>2. CASE Mount \/ UNCHANGED vars
    <3>1. UNCHANGED <<store, disk, lost, cmd>>
      BY <2>2 DEF Mount, vars, seen
    <3> QED BY <3>1 DEF TaskInv, Rewriting, Safe
  <2>3. CASE PeerWrites
    <3>1. /\ store'.doc = store.doc /\ store'.folder = store.folder /\ store'.id = store.id /\ lost' = lost
          /\ \E y \in File : \/ SetsBlobs(Chosen, disk[Chosen].blobs)
                             \/ SetsBlobs(Chosen, disk[Chosen].blobs \cup {<<y, Peer>>})
      BY <2>3, PeerPaths
    <3>2. disk[store.folder].blobs \subseteq disk'[store.folder].blobs
      BY <1>1, <3>1 DEF SetsBlobs
    <3> QED BY <1>1, <1>3, <3>1, <3>2 DEF TaskInv, Rewriting, Safe
  <2>4. CASE PeerCollects
    <3>1. store' = store
      BY <2>4 DEF PeerCollects
    <3>2. PICK dead \in SUBSET disk[Chosen].blobs :
            /\ SetsBlobs(Chosen, disk[Chosen].blobs \ dead)
            /\ lost' = lost \cup {b[1] : b \in dead}
      BY <2>4, PeerCollectsDoes
    <3>3. \A x \in Safe' : <<x, store.id>> \notin dead
      <4> SUFFICES ASSUME NEW x \in Safe', <<x, store.id>> \in dead PROVE FALSE
        OBVIOUS
      <4>1. x \in {b[1] : b \in dead}
        OBVIOUS
      <4> QED BY <3>2, <4>1 DEF Safe
    <3>4. \A x \in Safe' : <<x, store.id>> \in disk[store.folder].blobs => <<x, store.id>> \in disk'[store.folder].blobs
      BY <1>1, <3>2, <3>3 DEF SetsBlobs
    <3> QED BY <1>1, <1>3, <3>1, <3>4 DEF TaskInv, Rewriting
  <2> QED BY <2>1, <2>2, <2>3, <2>4
<1>4. ~\E x \in File : Attach(x)
  BY DEF Attach, Idle
<1>5. ~\E f \in Folder, move \in BOOLEAN : ChangeFolder(f, move)
  BY DEF ChangeFolder, Idle
<1> QED BY <1>2, <1>3, <1>4, <1>5, Starts

\* The new blob, while no document refers to it, is no one else's to refer to.
LEMMA NextAttaching ==
    ASSUME Control, TaskInv, [Next]_vars, Control'
    PROVE  Attaching'
<1> USE Marks
<1> SUFFICES ASSUME cmd'.at = "attach" PROVE Attaching'
  BY DEF Attaching
<1>1. StateTypes /\ store.folder \in Folder /\ store.id \in Id /\ disk \in [Folder -> SideType]
      /\ cmd \in CmdType /\ store \in StoreType
  BY DEF Control, StateTypes, StoreType
<1>2. CASE \E x \in File : Attach(x)
  <2>1. PICK x \in File : Attach(x)
    BY <1>2
  <2>2. cmd'.files = {x} /\ cmd'.doc = None /\ store' = store /\ Unused(x) /\ x \notin Old
    BY <2>1 DEF Attach, Idle
  <2>3. \A f \in Folder : disk'[f].replica = disk[f].replica
    BY <1>1, <2>1 DEF Attach, SideType
  <2>4. \A d \in InUse' : d.path[x] = None
    BY <2>2, <2>3 DEF InUse, Unused
  <2> QED BY <2>2, <2>4 DEF Attaching
<1>3. CASE cmd' = cmd
  <2> SUFFICES ASSUME NEW x \in cmd.files, <<x, store'.id>> \in disk'[store'.folder].blobs, NEW d \in InUse'
               PROVE  d.path[x] = None
    BY <1>3 DEF TaskInv, Attaching
  <2>1. x \in File
    BY <1>1 DEF CmdType
  <2>2. \/ PeerWrites \/ PeerCollects \/ Mount \/ UNCHANGED vars
        \/ Write \/ Reload \/ \E t \in Thread : Scan(t) \/ Unlink(t)
    BY <1>3, Beside
  <2>3. /\ store'.id = store.id /\ store'.folder = store.folder
        /\ <<x, store.id>> \in disk[store.folder].blobs
    <3>1. CASE PeerWrites
      <4>1. PICK y \in File : /\ store'.folder = store.folder /\ store'.id = store.id
                              /\ \/ SetsBlobs(Chosen, disk[Chosen].blobs)
                                 \/ SetsBlobs(Chosen, disk[Chosen].blobs \cup {<<y, Peer>>})
        BY <3>1, PeerPaths
      <4>2. store.id # Peer
        BY <1>1
      <4> QED BY <1>1, <4>1, <4>2 DEF SetsBlobs
    <3>2. CASE PeerCollects
      <4>1. store' = store
        BY <3>2 DEF PeerCollects
      <4>2. \E dead : SetsBlobs(Chosen, disk[Chosen].blobs \ dead)
        BY <3>2, PeerCollectsDoes
      <4> QED BY <1>1, <4>1, <4>2 DEF SetsBlobs
    <3>3. CASE Mount \/ UNCHANGED vars \/ \E t \in Thread : Scan(t)
      BY <3>3 DEF Mount, vars, Scan
    <3>4. CASE Write
      <4>1. PICK e \in Document : UNCHANGED <<store, disk>> \/ Commit(e)
        BY <1>1, <3>4, CommitsADocument DEF StateTypes, StoreType
      <4>2. CASE Commit(e)
        <5>1. store'.id = store.id /\ store'.folder = store.folder /\ (disk' = disk \/ KeepsBlobs)
          BY <1>1, <4>2, CommitStores
        <5> QED BY <1>1, <5>1 DEF KeepsBlobs
      <4> QED BY <4>1, <4>2
    <3>5. CASE Reload
      <4>1. KeepsBlobs /\ store' = [store EXCEPT !.doc = store'.doc, !.stale = FALSE]
        BY <3>5, ReloadDoes
      <4> QED BY <1>1, <4>1 DEF KeepsBlobs, StoreType
    <3>6. CASE \E t \in Thread : Unlink(t)
      <4>1. PICK t \in Thread : Unlink(t)
        BY <3>6
      <4>2. SetsBlobs(store.folder, disk[store.folder].blobs \ gc[t].doomed) /\ store' = store
        BY <4>1, UnlinkDoes DEF Unlink
      <4> QED BY <1>1, <4>2 DEF SetsBlobs
    <3> QED BY <2>2, <3>1, <3>2, <3>3, <3>4, <3>5, <3>6
  <2>4. \A e \in InUse : e.path[x] = None
    BY <1>3, <2>3 DEF TaskInv, Attaching
  <2>5. CASE DrawnStep
    BY <2>1, <2>4, <2>5 DEF DrawnStep, Drawn
  <2>6. CASE Adds
    BY <1>3, <2>6, AddsMine DEF Idle
  <2>7. CASE PeerWrites
    <3>1. PICK w \in Document, y \in File :
            /\ SetsReplica(Chosen, Peer, w)
            /\ \A z \in File \ {y} : w.path[z] = None \/ \E e \in InUse : e.path[z] = w.path[z]
            /\ \/ w.path[y] = None \/ \E e \in InUse : e.path[y] = w.path[y]
               \/ w.path[y] = Gone /\ \E e \in InUse : e.path[y] \in Place
               \/ w.path[y] = Peer /\ Unused(y) /\ y \notin Old
            /\ store'.doc = store.doc
      BY <2>7, PeerPaths
    <3>2. ~Unused(x)
      BY <1>1, <2>3 DEF Unused
    <3>3. w.path[x] = None
      BY <2>1, <2>4, <3>1, <3>2
    <3>4. d # None /\ (d = store'.doc \/ d = cmd'.doc \/ \E f \in Folder, n \in Name : d = disk'[f].replica[n])
      BY DEF InUse
    <3>5. d = w \/ d \in InUse
      BY <1>1, <1>3, <3>1, <3>4, InUseMembers DEF SetsReplica, Has
    <3> QED BY <2>4, <3>3, <3>5
  <2> QED BY <2>5, <2>6, <2>7, NextDraws
<1>4. ~Migrate
  BY <1>1 DEF Migrate, Idle, CmdType
<1>5. ~\E f \in Folder, move \in BOOLEAN : ChangeFolder(f, move)
  BY DEF ChangeFolder, Idle
<1> QED BY <1>2, <1>3, <1>4, <1>5, Starts

\* A collection that goes on dooms no blob that the document comes to refer to.
LEMMA SparesNew ==
    ASSUME NotDoomed, Safe' \subseteq Safe, store'.id = store.id,
           \A t \in Thread : gc'[t].doomed \subseteq gc[t].doomed,
           \A t \in Thread, x \in Safe' :
               store'.doc.path[x] = store.id =>
                   store.doc.path[x] = store.id \/ <<x, store.id>> \notin gc[t].doomed
    PROVE  NotDoomed'
BY DEF NotDoomed

LEMMA NextDoomed ==
    ASSUME Control, PathInv, ReplicaInv, TaskInv, [Next]_vars, Control'
    PROVE  NotDoomed'
<1> USE Marks
<1>1. /\ StateTypes /\ Mirrored /\ Safe' \subseteq Safe /\ store.folder \in Folder /\ store.id \in Id
      /\ cmd \in CmdType /\ store \in StoreType /\ store.doc \in Document /\ NotDoomed
      /\ gc \in [Thread -> GcType]
  BY LostGrows DEF Control, StateTypes, StoreType, TaskInv
<1>2. ASSUME gc' = gc, store' = store PROVE NotDoomed'
  BY <1>1, <1>2, SparesNew
<1>3. ASSUME \A t \in Thread : gc'[t] = NoGc PROVE NotDoomed'
  BY <1>3 DEF NotDoomed, NoGc
<1>4. CASE Boot \/ RetryOpen \/ OpenDefault
  <2>1. gc' = gc /\ (~Running \/ (Running /\ store.pending))
    BY <1>4 DEF Boot, RetryOpen, OpenDefault, MainFree, Ready
  <2>2. gc = [t \in Thread |-> NoGc]
    BY <2>1 DEF Control, ConfControl
  <2> QED BY <1>3, <2>1, <2>2
<1>5. CASE Rewrite
  <2>1. gc' = gc /\ cmd.at = "rewrite"
    BY <1>5 DEF Rewrite
  <2>2. gc["main"] = NoGc /\ gc["poll"] = NoGc
    BY <2>1 DEF Control, CmdControl, SetUp
  <2> QED BY <1>3, <2>1, <2>2
<1>6. CASE Crash
  BY <1>3, <1>6 DEF Crash
<1>7. CASE \/ Migrate \/ Clean \/ Save \/ PeerCollects \/ Mount \/ UNCHANGED vars
           \/ \E x \in File : Attach(x)
           \/ \E f \in Folder, move \in BOOLEAN : ChangeFolder(f, move)
  BY <1>2, <1>7 DEF Migrate, Clean, Save, PeerCollects, Mount, vars, Attach, ChangeFolder
<1>8. CASE PeerWrites
  <2>1. store'.doc = store.doc /\ store'.id = store.id /\ gc' = gc
    BY <1>8, PeerPaths
  <2> QED BY <1>1, <2>1, SparesNew
<1>9. CASE Move
  <2>1. gc' = gc
    BY <1>9 DEF Move
  <2>2. CASE cmd' = Idle
    <3>1. store' = store
      BY <1>9, <2>2 DEF Move, Idle
    <3> QED BY <1>2, <2>1, <3>1
  <2>3. CASE cmd' # Idle
    <3>1. gc["main"] = NoGc /\ store'.id = store.id /\ store'.doc = Brought
      BY <1>9, <2>3, MoveDoes
    <3>2. PICK sent : lost' = lost \cup {b[1] : b \in (ToCopy(cmd.folder, Brought) \ sent)
                                                       \cup (Refs(Brought) \cap gc["poll"].doomed)}
      BY <1>9, <2>3, MoveDoes
    <3>3. ASSUME NEW x \in Safe', Brought.path[x] = store.id PROVE <<x, store.id>> \notin gc["poll"].doomed
      <4> SUFFICES ASSUME <<x, store.id>> \in gc["poll"].doomed PROVE FALSE
        OBVIOUS
      <4>1. x \in File /\ x \notin lost' /\ store.id \in Place
        BY <1>1 DEF Safe
      <4>2. <<x, store.id>> \in Refs(Brought)
        BY <3>3, <4>1 DEF Refs
      <4>3. x \in {b[1] : b \in (ToCopy(cmd.folder, Brought) \ sent)
                                 \cup (Refs(Brought) \cap gc["poll"].doomed)}
        BY <4>2
      <4> QED BY <3>2, <4>1, <4>3
    <3>4. gc["main"].doomed = {}
      BY <3>1 DEF NoGc
    <3> QED BY <1>1, <2>1, <3>1, <3>3, <3>4, SparesNew
  <2> QED BY <2>2, <2>3
<1>10. CASE Write \/ \E x \in File : Remove(x)
  <2>1. CASE Write
    <3> DEFINE d == [store.doc EXCEPT !.edits = @ \cup {edits'}]
    <3>1. edits' \in Edit
      BY <1>1, <2>1, FolderAssumption DEF Write, StateTypes, Edit
    <3>2. d \in Document /\ d.path = store.doc.path
      BY <1>1, <3>1 DEF Document
    <3>3. Commit(d) /\ gc' = gc
      BY <2>1 DEF Write
    <3> HIDE DEF d
    <3>4. store'.doc = d /\ store'.id = store.id
      BY <1>1, <3>2, <3>3, CommitStores
    <3> QED BY <1>1, <3>2, <3>3, <3>4, SparesNew
  <2>2. CASE \E x \in File : Remove(x)
    <3>1. PICK x \in File : Remove(x)
      BY <2>2
    <3> DEFINE d == [store.doc EXCEPT !.path[x] = Gone]
    <3>2. d \in Document /\ \A y \in File : d.path[y] = IF y = x THEN Gone ELSE store.doc.path[y]
      BY <1>1 DEF Document
    <3>3. Commit(d) /\ gc' = [gc EXCEPT !["main"].at = "scan"]
      BY <3>1 DEF Remove
    <3> HIDE DEF d
    <3>4. store'.doc = d /\ store'.id = store.id
      BY <1>1, <3>2, <3>3, CommitStores
    <3>5. \A t \in Thread : gc'[t].doomed = gc[t].doomed
      BY <1>1, <3>3 DEF GcType
    <3>6. \A y \in Safe' : store'.doc.path[y] = store.id => store.doc.path[y] = store.id
      BY <1>1, <3>2, <3>4 DEF Safe
    <3> QED BY <1>1, <3>4, <3>5, <3>6, SparesNew
  <2> QED BY <1>10, <2>1, <2>2
<1>11. CASE Reload
  <2>1. /\ Running /\ ~store.pending /\ gc' = [gc EXCEPT !["poll"].at = "scan"]
        /\ store' = [store EXCEPT !.doc = store'.doc, !.stale = FALSE]
        /\ Reads(store.folder, store.id, store'.doc)
    BY <1>11, ReloadDoes
  <2>2. Me = store.id /\ Me \in Id
    BY <2>1, RunsAsMe
  <2>3. disk[store.folder].replica[store.id] = store.doc
    BY <1>1, <2>1 DEF Mirrored
  <2>4. ASSUME NEW x \in Safe', store'.doc.path[x] = store.id PROVE store.doc.path[x] = store.id
    BY <1>1, <2>1, <2>2, <2>3, <2>4, ReadsMine
  <2>5. \A t \in Thread : gc'[t].doomed = gc[t].doomed
    BY <1>1, <2>1 DEF GcType
  <2>6. store'.id = store.id
    BY <1>1, <2>1 DEF StoreType
  <2> QED BY <1>1, <2>4, <2>5, <2>6, SparesNew
<1>12. CASE AttachEnd
  <2>1. gc' = gc
    BY <1>12 DEF AttachEnd
  <2>2. CASE UNCHANGED <<store, disk>>
    BY <1>2, <2>1, <2>2
  <2>3. CASE ~UNCHANGED <<store, disk>>
    <3>1. Adds /\ cmd.at = "attach"
      BY <1>12, <2>3 DEF Adds, AttachEnd
    <3>2. lost' = IF cmd.files \X {store.id} \subseteq
                       disk[store.folder].blobs \ UNION {gc[t].doomed : t \in Thread}
                  THEN lost ELSE lost \cup cmd.files
      BY <3>1, AddsMine
    <3>3. /\ \A x \in File : store'.doc.path[x] = IF x \in cmd.files THEN store.id ELSE store.doc.path[x]
          /\ store'.id = store.id
      BY <3>1, AddsMine
    <3>4. ASSUME NEW t \in Thread, NEW x \in Safe', x \in cmd.files PROVE <<x, store.id>> \notin gc[t].doomed
      <4>1. x \notin lost'
        BY DEF Safe
      <4>2. cmd.files \X {store.id} \subseteq disk[store.folder].blobs \ UNION {gc[u].doomed : u \in Thread}
        BY <3>2, <3>4, <4>1
      <4>3. <<x, store.id>> \in cmd.files \X {store.id}
        BY <3>4
      <4> QED BY <4>2, <4>3
    <3> QED BY <1>1, <2>1, <3>3, <3>4, SparesNew DEF Safe
  <2> QED BY <2>2, <2>3
<1>13. CASE \E t \in Thread : Scan(t)
  <2>1. PICK t \in Thread : Scan(t)
    BY <1>13
  <2>2. store' = store /\ \A u \in Thread \ {t} : gc'[u] = gc[u]
    BY <1>1, <2>1 DEF Scan
  <2>3. gc'[t].doomed \subseteq Garbage(store.folder, store.doc)
    BY <1>1, <2>1 DEF Scan, NoGc
  <2>4. \A x \in Safe' : store.doc.path[x] = store.id => <<x, store.id>> \in Refs(store.doc)
    BY <1>1 DEF Refs, Safe
  <2>5. \A x \in Safe' : <<x, store.id>> \in gc'[t].doomed => store.doc.path[x] # store.id
    BY <2>3, <2>4 DEF Garbage
  <2> QED BY <1>1, <2>2, <2>5 DEF NotDoomed
<1>14. CASE \E t \in Thread : Unlink(t)
  <2>1. PICK t \in Thread : Unlink(t)
    BY <1>14
  <2>2. store' = store /\ gc' = [gc EXCEPT ![t] = [at |-> "scan", doomed |-> {}]]
    BY <2>1 DEF Unlink
  <2>3. \A u \in Thread : gc'[u].doomed \subseteq gc[u].doomed
    BY <1>1, <2>2
  <2> QED BY <1>1, <2>2, <2>3, SparesNew
<1> QED BY <1>4, <1>5, <1>6, <1>7, <1>8, <1>9, <1>10, <1>11, <1>12, <1>13, <1>14 DEF Next

LEMMA AttachmentsStart == ASSUME Init, ~PeerHasOld PROVE PathInv /\ ReplicaInv /\ TaskInv
<1> USE Marks, FolderAssumption
<1> DEFINE old == [Empty EXCEPT !.path = [x \in File |-> IF x \in Old THEN Flat ELSE None]]
<1>1. /\ \A x \in File : old.path[x] = IF x \in Old THEN Flat ELSE None
      /\ \A x \in File : Empty.path[x] = None
  BY DEF Empty
<1>2. 1 \in Id /\ 1 \in Name /\ 1 # Peer /\ 1 # Legacy
  BY DEF Id, Name
<1>3. conf = None /\ cmd = Idle /\ store.doc = Empty /\ \A t \in Thread : gc[t] = NoGc
  BY DEF Init
<1>4. TaskInv
  BY <1>3 DEF TaskInv, NotDoomed, Rewriting, Attaching, Targeting, Idle, NoGc
<1> HIDE DEF old
<1>5. CASE saved = [folder |-> Chosen, id |-> 1]
  <2>1. saved # None /\ saved.id = 1 /\ ids = 1
    <3>1. saved \in ConfType
      BY <1>2, <1>5 DEF ConfType
    <3> QED BY <1>5, <3>1 DEF Init
  <2>2. Me = 1
    BY <1>3, <2>1 DEF Me, Running
  <2>3. \A f \in Folder, n \in Name : Has(f, n) => n = 1 /\ disk[f].replica[n] = old
    BY <2>1, <1>2 DEF Init, Has, old
  <2>4. \A d \in InUse : d = Empty \/ d = old
    BY <1>3, <2>3 DEF InUse, Idle, Has
  <2>5. PathInv
    <3>1. \A d \in InUse, x \in File : d.path[x] = None \/ (d.path[x] = Flat /\ x \in Old)
      BY <1>1, <2>4
    <3>2. Fresh
      <4>1. \A d \in InUse, x \in File : d.path[x] \notin Id
        BY <3>1
      <4>2. \A f \in Folder, n \in Id : Has(f, n) => n <= ids
        BY <2>1, <2>3
      <4> QED BY <4>1, <4>2 DEF Fresh
    <3>3. FlatIsOld /\ OldPaths /\ NoOld
      <4>1. \A d \in InUse, x \in Old : d.path[x] \in {None, Flat}
        BY <3>1
      <4>2. FlatIsOld
        BY <3>1 DEF FlatIsOld
      <4>3. OldPaths
        BY <4>1 DEF OldPaths
      <4>4. NoOld
        BY <2>1 DEF NoOld
      <4> QED BY <4>2, <4>3, <4>4
    <3>4. Unique
      BY <1>2, <2>2, <3>1 DEF Unique, Safe
    <3> QED BY <3>2, <3>3, <3>4 DEF PathInv
  <2>6. ReplicaInv
    BY <1>1, <1>2, <2>2, <2>3 DEF ReplicaInv, OnlyOwnFlat, PeersFollow, BlobsThere, Safe
  <2> QED BY <1>4, <2>5, <2>6
<1>6. CASE saved = None /\ ids = 0
  <2>1. Me = 1
    BY <1>3, <1>6 DEF Me, Running
  <2>2. \A f \in Folder, n \in Name : Has(f, n) => n = Legacy /\ disk[f].replica[n] = Empty
    <3>1. saved # [folder |-> Chosen, id |-> 1]
      <4>1. [folder |-> Chosen, id |-> 1] \in ConfType
        BY <1>2 DEF ConfType
      <4> QED BY <1>6, <4>1
    <3> QED BY <3>1 DEF Init, Has
  <2>3. \A d \in InUse : d = Empty
    BY <1>3, <2>2 DEF InUse, Idle, Has
  <2>4. PathInv
    BY <1>1, <1>6, <2>1, <2>2, <2>3 DEF PathInv, Fresh, FlatIsOld, OldPaths, NoOld, Unique, Safe
  <2>5. ReplicaInv
    BY <1>1, <2>1, <2>2 DEF ReplicaInv, OnlyOwnFlat, PeersFollow, BlobsThere, Safe
  <2> QED BY <1>4, <2>4, <2>5
<1> QED BY <1>5, <1>6 DEF Init

\* Every attachment of this device that its document refers to has its blob in the folder of
\* the store, however edits, collections of both threads, folder changes, restarts under
\* another id and a peer interleave, except for those lost in the ways that the code does not
\* guard against; the user chooses another folder than the one in use, and the peer's replica
\* refers to no attachment from before the subfolders (commands.rs, attach_task_files,
\* gc_unreferenced_attachment_blobs and migrate_attachments_to_subdir; store.rs, repoint).
THEOREM AttachmentsAreThere == ~Reselect /\ ~PeerHasOld => (Spec => []AttachmentsResolve)
<1> SUFFICES ASSUME ~Reselect, ~PeerHasOld PROVE Spec => []AttachmentsResolve
  OBVIOUS
<1> DEFINE Inv == Control /\ PathInv /\ ReplicaInv /\ TaskInv
<1>1. Init => Inv
  BY FolderStarts, AttachmentsStart
<1>2. Inv /\ [Next]_vars => Inv'
  <2> SUFFICES ASSUME Inv, [Next]_vars PROVE Inv'
    OBVIOUS
  <2>1. Control'
    BY NextControl
  <2>2. PathInv'
    BY <2>1, NextPaths
  <2>3. ReplicaInv'
    BY <2>1, NextReplicas
  <2>4. NotDoomed' /\ Rewriting' /\ Attaching' /\ Targeting'
    BY <2>1, NextDoomed, NextRewriting, NextAttaching, NextTargeting
  <2> QED BY <2>1, <2>2, <2>3, <2>4 DEF TaskInv
<1>3. Inv => AttachmentsResolve
  <2> SUFFICES ASSUME Inv, Running, ~store.pending, NEW x \in File \ lost, store.doc.path[x] = store.id
               PROVE  <<x, store.id>> \in disk[store.folder].blobs
    BY DEF AttachmentsResolve
  <2>1. Me = store.id /\ Me \in Id /\ store.folder \in Folder /\ store.doc # None
    BY RunsAsMe, Marks DEF Control, StateTypes, StoreType
  <2>2. disk[store.folder].replica[Me] = store.doc
    BY <2>1 DEF Control, Mirrored
  <2> QED BY <2>1, <2>2 DEF ReplicaInv, BlobsThere, Has, Safe
<1> HIDE DEF Inv
<1> QED BY <1>1, <1>2, <1>3, PTL DEF Spec
=============================================================================
