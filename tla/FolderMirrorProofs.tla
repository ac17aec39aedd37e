--------------------------- MODULE FolderMirrorProofs ---------------------------
(***************************************************************************)
(* Proofs about FolderMirror, for any folders, peers, edits, picks and     *)
(* crashes: its safety properties hold while a picked folder is not loaded *)
(* beside syncs and commands.                                              *)
(***************************************************************************)
EXTENDS FolderMirror, TLAPS

Legible(x) == x # None /\ x # Torn

\* Our replica in the linked folder.
OurFile == cloud[link.folder].file[Phone]

\* An edit is made or under way that a document with this hash lacks.
Outdated(h) == \E e \in Edit : (e \in doc.edits \/ e = commit) /\ e \notin h.edits

\* Some replica in folder f of the cloud c has this edit.
Has(c, f, e) == \E d \in Device : Legible(c[f].file[d]) /\ e \in c[f].file[d].edits

\* A push that is suppressed by this hash withholds nothing, or the hash is out of date.
Covers(h) == (\A e \in h.edits : Has(cloud, link.folder, e)) \/ Outdated(h)

\* One job at a time; a picked folder is not loaded beside a commit.
Alone ==
    /\ Busy("main") => ~Busy("pick")
    /\ Busy("pick") => commit = 0

\* Edits are numbered: the one under way is known nowhere.
Numbered ==
    /\ commit <= edits /\ commit \notin doc.edits \cup dropped
    /\ \A e \in doc.edits \cup dropped : e <= edits
    /\ \A f \in Folder, d \in Device :
         Legible(cloud[f].file[d]) => \A e \in cloud[f].file[d].edits : e <= edits

\* What the link remembers was merged into the document, and our replica too once it was
\* read.
Remembered ==
    /\ link.hash # None => link.hash.edits \subseteq doc.edits /\ Covers(link.hash)
    /\ ownRead /\ link.folder # None /\ Legible(OurFile) => OurFile.edits \subseteq doc.edits

\* The bytes of an upload: a document at least as new as the hashes, or bytes torn amid a
\* commit that none of the hashes has.
InBytes(j) ==
    \/ /\ j.bytes \in Digest /\ j.bytes.edits \subseteq doc.edits
       /\ doc.edits \cap dropped \subseteq j.bytes.edits
       /\ j.hash.edits \subseteq j.bytes.edits
       /\ link.hash # None => link.hash.edits \subseteq j.bytes.edits
    \/ /\ j.bytes = Torn /\ Outdated(j.hash)
       /\ link.hash # None => Outdated(link.hash)

\* What the steps of a job may rely on.
Held(j) ==
    /\ j.at # "idle" => j.folder = link.folder
    /\ j.at \in {"files", "merge"} => j.hash = link.hash
    /\ j.at \in {"read", "write"} => j.hash # None
    /\ j.at \in {"read", "write", "mirror"} /\ j.hash # None => j.hash.edits \subseteq doc.edits
    /\ j.at = "write" => InBytes(j)
    /\ j.at = "mirror" /\ j.hash # None => Covers(j.hash)

\* A picked folder is seeded only without a replica of ours, and our replica counts as
\* read before it is only when there is none.
Picked ==
    /\ job["main"].at \notin {"decide", "switch files", "load"}
    /\ job["pick"].at \notin {"files", "merge"}
    /\ job["pick"].at \in {"decide", "switch files", "load"} /\ ownRead => OurFile = None
    /\ job["pick"].at \in {"hash", "read", "write"} => OurFile = None

Jobs == Picked /\ \A t \in Thread : Held(job[t])

MirrorInv ==
    /\ TypeOK /\ Alone /\ Numbered /\ Remembered /\ Jobs /\ DiscardedStaysDiscarded
-----------------------------------------------------------------------------
(* Data *)

LEMMA TornIsNoDocument == Torn \notin Digest /\ None \notin Digest /\ None # Torn
  BY NoneAssumption DEF Digest, Torn

LEMMA FilesAreFiles ==
    ASSUME TypeOK, NEW f \in Folder, NEW d \in Device
    PROVE  /\ cloud[f].file[d] \in File
           /\ Legible(cloud[f].file[d]) <=> cloud[f].file[d] \in Digest
<1>1. cloud[f].file[d] \in File
  BY DEF TypeOK
<1> QED BY <1>1, TornIsNoDocument DEF File, Legible

LEMMA DigestEdits ==
    ASSUME NEW x \in Digest
    PROVE  x.edits \subseteq Edit
  BY DEF Digest

LEMMA ReadableIsLegible ==
    ASSUME NEW f, NEW d
    PROVE  d \in Readable(f) <=> d \in Device /\ Legible(cloud[f].file[d])
  BY DEF Readable, Present, Legible

\* What replicas hold together.
LEMMA EditsTogether ==
    ASSUME TypeOK, NEW f \in Folder, NEW ds \in SUBSET Readable(f)
    PROVE  /\ EditsOf(f, ds) \subseteq Edit
           /\ EditsOf(f, ds) \subseteq Published(f)
           /\ \A d \in ds : cloud[f].file[d].edits \subseteq EditsOf(f, ds)
           /\ \A e \in EditsOf(f, ds) : \E d \in ds : e \in cloud[f].file[d].edits
<1>1. \A d \in ds : d \in Device /\ cloud[f].file[d] \in Digest
  BY FilesAreFiles, ReadableIsLegible
<1>2. \A d \in ds : cloud[f].file[d].edits \subseteq Edit
  BY <1>1, DigestEdits
<1>3. EditsOf(f, ds) \subseteq Edit
  BY <1>2 DEF EditsOf
<1>4. /\ \A d \in ds : cloud[f].file[d].edits \subseteq EditsOf(f, ds)
      /\ \A e \in EditsOf(f, ds) : \E d \in ds : e \in cloud[f].file[d].edits
  BY DEF EditsOf
<1>5. EditsOf(f, ds) \subseteq Published(f)
  BY DEF EditsOf, Published
<1> QED BY <1>3, <1>4, <1>5

LEMMA InPublished ==
    ASSUME NEW f, NEW e
    PROVE  /\ e \in Published(f) <=> Has(cloud, f, e)
           /\ e \in Published(f)' <=> Has(cloud', f, e)
<1>1. /\ e \in Published(f) <=> \E d \in Readable(f) : e \in cloud[f].file[d].edits
      /\ e \in Published(f)' <=> \E d \in Readable(f)' : e \in cloud'[f].file[d].edits
  BY DEF Published, EditsOf
<1>2. \A d : d \in Readable(f)' <=> d \in Device /\ Legible(cloud'[f].file[d])
  BY DEF Readable, Present, Legible
<1> QED BY <1>1, <1>2, ReadableIsLegible DEF Has

LEMMA PublishedEdits ==
    ASSUME TypeOK, NEW f \in Folder
    PROVE  Published(f) \subseteq Edit
  BY EditsTogether DEF Published

LEMMA MergedHolds ==
    ASSUME NEW es \in SUBSET Edit, NEW d \in Merged(es)
    PROVE  d \in Digest /\ d.edits = es
  BY DEF Merged, Orders, Digest, Order
-----------------------------------------------------------------------------
(* Jobs *)

\* Thread t comes to this; the other stays where it is.
Moves(t, at, folder, hash, bytes) ==
    /\ job' \in [Thread -> Job]
    /\ job'[t].at = at /\ job'[t].folder = folder /\ job'[t].hash = hash /\ job'[t].bytes = bytes
    /\ \A u \in Thread \ {t} : job'[u] = job[u]

LEMMA IdleJob == Idle \in Job /\ Idle.at = "idle" /\ Idle.folder = None /\ Idle.hash = None
                 /\ Idle.bytes = None
  BY DEF Idle, Job, Step, File

LEMMA GotoMoves ==
    ASSUME job \in [Thread -> Job], NEW t \in Thread, NEW s \in Step, Goto(t, s)
    PROVE  Moves(t, s, job[t].folder, job[t].hash, job[t].bytes)
  BY DEF Goto, Moves, Job

LEMMA StopMoves ==
    ASSUME job \in [Thread -> Job], NEW t \in Thread, Stop(t)
    PROVE  Moves(t, "idle", None, None, None)
  BY IdleJob DEF Stop, Moves

LEMMA StartMoves ==
    ASSUME job \in [Thread -> Job], NEW t \in Thread, NEW s \in Step,
           NEW lk \in [folder : Folder \cup {None}, hash : Digest \cup {None}],
           lk.folder # None, Start(t, s, lk)
    PROVE  Moves(t, s, lk.folder, lk.hash, None)
<1> DEFINE j == [Idle EXCEPT !.at = s, !.folder = lk.folder, !.hash = lk.hash]
<1>1. job' = [job EXCEPT ![t] = j]
  BY DEF Start
<1>2. j \in Job /\ j.at = s /\ j.folder = lk.folder /\ j.hash = lk.hash /\ j.bytes = None
  BY IdleJob DEF Job
<1> QED BY <1>1, <1>2 DEF Moves
-----------------------------------------------------------------------------
(* The steps that change the document *)

LEMMA PullMergeDoes ==
    ASSUME TypeOK, NEW t \in Thread, PullMerge(t), job[t].folder \in Folder
    PROVE  \E ds \in SUBSET Readable(job[t].folder), remote \in Digest, adopted \in BOOLEAN :
             /\ remote.edits = EditsOf(job[t].folder, ds)
             /\ doc' \in Digest
             /\ doc'.edits = IF adopted THEN doc.edits \cup remote.edits ELSE doc.edits
             /\ link' = [link EXCEPT !.hash = IF adopted THEN remote ELSE job[t].hash]
             /\ ownRead' \in BOOLEAN
             /\ ownRead' => ownRead \/ (Phone \in ds /\ (adopted \/ remote = job[t].hash))
             /\ blobs' \subseteq Edit
<1> DEFINE f == job[t].folder
<1>1. PICK ds \in Reads(f) : \E ok \in {TRUE, ~flaky} : \E remote \in Merged(EditsOf(f, ds)) :
         LET adopts == ds # {} /\ ContentHash(remote) # job[t].hash
             fails  == adopts /\ ~ok
         IN  /\ doc' \in IF adopts /\ ok THEN Adopt(doc, remote) ELSE {doc}
             /\ link' = [link EXCEPT !.hash = NextHash(job[t].hash, remote, adopts /\ ok)]
             /\ blobs' = IF ds = Present(f) /\ ~fails THEN blobs \cap Refs(doc'.edits) ELSE blobs
             /\ ownRead' = (ownRead \/ (Phone \in ds /\ ~fails))
  BY DEF PullMerge
<1>2. PICK ok \in {TRUE, ~flaky} : \E remote \in Merged(EditsOf(f, ds)) :
         LET adopts == ds # {} /\ ContentHash(remote) # job[t].hash
             fails  == adopts /\ ~ok
         IN  /\ doc' \in IF adopts /\ ok THEN Adopt(doc, remote) ELSE {doc}
             /\ link' = [link EXCEPT !.hash = NextHash(job[t].hash, remote, adopts /\ ok)]
             /\ blobs' = IF ds = Present(f) /\ ~fails THEN blobs \cap Refs(doc'.edits) ELSE blobs
             /\ ownRead' = (ownRead \/ (Phone \in ds /\ ~fails))
  BY <1>1, Zenon
<1>3. PICK remote \in Merged(EditsOf(f, ds)) :
         LET adopts == ds # {} /\ ContentHash(remote) # job[t].hash
             fails  == adopts /\ ~ok
         IN  /\ doc' \in IF adopts /\ ok THEN Adopt(doc, remote) ELSE {doc}
             /\ link' = [link EXCEPT !.hash = NextHash(job[t].hash, remote, adopts /\ ok)]
             /\ blobs' = IF ds = Present(f) /\ ~fails THEN blobs \cap Refs(doc'.edits) ELSE blobs
             /\ ownRead' = (ownRead \/ (Phone \in ds /\ ~fails))
  BY <1>2, Zenon
<1> DEFINE adopts == ds # {} /\ remote # job[t].hash
           fails  == adopts /\ ~ok
           adopted == adopts /\ ok
<1>4. ds \in SUBSET Readable(f)
  BY <1>1 DEF Reads
<1>5. remote \in Digest /\ remote.edits = EditsOf(f, ds)
  BY <1>4, EditsTogether, MergedHolds
<1>6. /\ doc' \in IF adopted THEN Adopt(doc, remote) ELSE {doc}
      /\ link' = [link EXCEPT !.hash = NextHash(job[t].hash, remote, adopted)]
      /\ blobs' = IF ds = Present(f) /\ ~fails THEN blobs \cap Refs(doc'.edits) ELSE blobs
      /\ ownRead' = (ownRead \/ (Phone \in ds /\ ~fails))
  BY <1>3 DEF ContentHash
<1>7. doc \in Digest /\ doc.edits \subseteq Edit /\ remote.edits \subseteq Edit
  BY <1>5 DEF TypeOK, Digest
<1>8. doc' \in Digest
      /\ doc'.edits = IF adopted THEN doc.edits \cup remote.edits ELSE doc.edits
  <2>1. CASE adopted
    <3>1. doc' \in Merged(doc.edits \cup remote.edits)
      BY <1>6, <2>1 DEF Adopt
    <3> QED BY <1>7, <2>1, <3>1, MergedHolds
  <2>2. CASE ~adopted BY <1>6, <1>7, <2>2
  <2> QED BY <2>1, <2>2
<1>9. link' = [link EXCEPT !.hash = IF adopted THEN remote ELSE job[t].hash]
  BY <1>6 DEF NextHash, ContentHash
<1>10. /\ ownRead' \in BOOLEAN
       /\ ownRead' => ownRead \/ (Phone \in ds /\ (adopted \/ remote = job[t].hash))
  <2>1. ownRead' => ownRead \/ (Phone \in ds /\ ~fails)
    BY <1>6, Zenon
  <2>2. ownRead' \in BOOLEAN
    BY <1>6, Zenon
  <2>3. Phone \in ds /\ ~fails => adopted \/ remote = job[t].hash
    OBVIOUS
  <2> QED BY <2>1, <2>2, <2>3
<1>11. blobs' \subseteq Edit
  BY <1>6 DEF TypeOK
<1>12. adopted \in BOOLEAN
  OBVIOUS
<1> HIDE DEF adopted
<1> QED BY <1>4, <1>5, <1>8, <1>9, <1>10, <1>11, <1>12

LEMMA SwitchLoadDoes ==
    ASSUME TypeOK, NEW t \in Thread, SwitchLoad(t), job[t].folder \in Folder
    PROVE  /\ blobs' \subseteq Edit
           /\ \/ UNCHANGED <<doc, ownRead, dropped>>
                 /\ (UNCHANGED link \/ link' = [link EXCEPT !.hash = None])
              \/ \E ds \in SUBSET Readable(job[t].folder) :
                   /\ doc' \in Digest /\ doc'.edits = EditsOf(job[t].folder, ds)
                   /\ link' = [link EXCEPT !.hash = doc']
                   /\ dropped' = doc.edits \ doc'.edits
                   /\ ownRead' \in BOOLEAN /\ (ownRead' => ownRead \/ Phone \in ds)
<1> DEFINE f == job[t].folder
<1>1. CASE UNCHANGED <<doc, blobs, link, seen>>
  BY <1>1 DEF TypeOK, seen
<1>2. ASSUME NEW ds \in Reads(f),
             IF ds = {}
               THEN /\ link' = [link EXCEPT !.hash = None]
                    /\ UNCHANGED <<doc, seen>>
               ELSE /\ doc' \in Merged(EditsOf(f, ds))
                    /\ link' = [link EXCEPT !.hash = ContentHash(doc')]
                    /\ dropped' = doc.edits \ doc'.edits
                    /\ ownRead' = (ownRead \/ Phone \in ds),
             blobs' = blobs \cap Refs(doc'.edits)
      PROVE  /\ blobs' \subseteq Edit
             /\ \/ UNCHANGED <<doc, ownRead, dropped>> /\ link' = [link EXCEPT !.hash = None]
                \/ /\ doc' \in Digest /\ doc'.edits = EditsOf(f, ds)
                   /\ link' = [link EXCEPT !.hash = doc']
                   /\ dropped' = doc.edits \ doc'.edits
                   /\ ownRead' \in BOOLEAN /\ (ownRead' => ownRead \/ Phone \in ds)
  <2>1. blobs' \subseteq Edit
    BY <1>2 DEF TypeOK
  <2>2. CASE ds = {}
    BY <1>2, <2>1, <2>2 DEF seen
  <2>3. CASE ds # {}
    <3>1. doc' \in Digest /\ doc'.edits = EditsOf(f, ds)
      BY <1>2, <2>3, EditsTogether, MergedHolds DEF Reads
    <3>2. link' = [link EXCEPT !.hash = doc'] /\ dropped' = doc.edits \ doc'.edits
      BY <1>2, <2>3 DEF ContentHash
    <3>3. ownRead' = (ownRead \/ Phone \in ds)
      BY <1>2, <2>3
    <3>4. ownRead' \in BOOLEAN /\ (ownRead' => ownRead \/ Phone \in ds)
      BY <3>3, Zenon
    <3> QED BY <2>1, <3>1, <3>2, <3>4
  <2> QED BY <2>2, <2>3
<1>3. \A ds \in Reads(f) : ds \in SUBSET Readable(f)
  BY DEF Reads
<1>4. \/ UNCHANGED <<doc, blobs, link, seen>>
      \/ \E ds \in Reads(f) :
            /\ IF ds = {}
                 THEN /\ link' = [link EXCEPT !.hash = None]
                      /\ UNCHANGED <<doc, seen>>
                 ELSE /\ doc' \in Merged(EditsOf(f, ds))
                      /\ link' = [link EXCEPT !.hash = ContentHash(doc')]
                      /\ dropped' = doc.edits \ doc'.edits
                      /\ ownRead' = (ownRead \/ Phone \in ds)
            /\ blobs' = blobs \cap Refs(doc'.edits)
  BY DEF SwitchLoad
<1> QED BY <1>1, <1>2, <1>3, <1>4
-----------------------------------------------------------------------------
(* Types *)

Links == [folder : Folder \cup {None}, hash : Digest \cup {None}]
Cloud == [Folder -> [file : [Device -> File], blobs : SUBSET Edit, log : SUBSET Edit]]

\* A typed step of a thread that has a folder, or comes to rest, keeps the jobs typed.
JobsOK == job \in [Thread -> Job] /\ \A t \in Thread : job[t].at # "idle" => job[t].folder # None

LinkOK == link \in Links /\ (link.folder = None => link.hash = None)

RestOK ==
    /\ doc \in Digest /\ commit \in Edit \cup {0}
    /\ blobs \subseteq Edit /\ log \subseteq Edit
    /\ cloud \in Cloud
    /\ edits \in 0..MaxEdit /\ picks \in 0..MaxPicks /\ crashes \in 0..MaxCrashes
    /\ flaky \in BOOLEAN /\ ownRead \in BOOLEAN /\ dropped \subseteq Edit

LEMMA TypeParts == TypeOK <=> JobsOK /\ LinkOK /\ RestOK
  BY DEF TypeOK, JobsOK, LinkOK, RestOK, Links, Cloud, Busy

LEMMA MovesKeepsJobs ==
    ASSUME JobsOK, NEW t \in Thread, NEW at, NEW folder, NEW hash, NEW bytes,
           Moves(t, at, folder, hash, bytes), at # "idle" => folder # None
    PROVE  JobsOK'
  BY DEF JobsOK, Moves

LEMMA TypeStarts == Init => TypeOK
<1> SUFFICES ASSUME Init PROVE TypeOK
  OBVIOUS
<1>1. JobsOK
  BY IdleJob DEF Init, JobsOK
<1>2. LinkOK /\ RestOK
  BY MirrorAssumption DEF Init, LinkOK, RestOK, Links, Cloud, Digest, Order, File
<1> QED BY <1>1, <1>2, TypeParts

\* The types need that a busy job works on the folder that is linked.
Linked == \A t \in Thread : job[t].at # "idle" => job[t].folder = link.folder

LEMMA TypeStep == TypeOK /\ Linked /\ [Next]_vars => TypeOK'
<1> SUFFICES ASSUME TypeOK, Linked, [Next]_vars PROVE TypeOK'
  OBVIOUS
<1> USE MirrorAssumption
<1>0. JobsOK /\ LinkOK /\ RestOK
  BY TypeParts
<1>q. SUFFICES JobsOK' /\ LinkOK' /\ RestOK'
  BY DEF TypeOK, JobsOK, LinkOK, RestOK, Links, Cloud, Busy
<1>1. CASE BeginWrite
  <2>1. edits' \in Edit /\ commit' = edits' /\ edits' \in 0..MaxEdit
    BY <1>0, <1>1 DEF BeginWrite, NextEdit, RestOK, Edit
  <2>2. blobs' \subseteq Edit
    BY <1>0, <1>1, <2>1 DEF BeginWrite, RestOK
  <2> QED BY <1>0, <1>1, <2>1, <2>2 DEF BeginWrite, NextEdit, RestOK, JobsOK, LinkOK, seen
<1>2. CASE EndWrite
  <2>1. doc' \in Digest
    BY <1>0, <1>2 DEF EndWrite, RestOK, Digest
  <2>2. blobs' \subseteq Edit /\ log' \subseteq Edit /\ commit' \in Edit \cup {0}
    BY <1>0, <1>2 DEF EndWrite, RestOK
  <2> QED BY <1>0, <1>2, <2>1, <2>2 DEF EndWrite, RestOK, JobsOK, LinkOK, seen, counts
<1>3. CASE SyncNow
  <2>1. Moves("main", "files", link.folder, link.hash, None) /\ link.folder # None
    BY <1>0, <1>3, StartMoves DEF SyncNow, JobsOK, LinkOK, Links, Step, Thread
  <2>2. JobsOK'
    BY <1>0, <2>1, MovesKeepsJobs DEF Thread
  <2> QED BY <1>0, <1>3, <2>2 DEF SyncNow, RestOK, LinkOK, seen, counts, device
<1>4. CASE PushNow
  <2>1. Moves("main", "hash", link.folder, link.hash, None) /\ link.folder # None
    BY <1>0, <1>4, StartMoves DEF PushNow, JobsOK, LinkOK, Links, Step, Thread
  <2>2. JobsOK'
    BY <1>0, <2>1, MovesKeepsJobs DEF Thread
  <2> QED BY <1>0, <1>4, <2>2 DEF PushNow, RestOK, LinkOK, seen, counts, device
<1>5. CASE Clear
  BY <1>0, <1>5 DEF Clear, RestOK, JobsOK, LinkOK, Links, seen, counts, device
<1>6. CASE Crash
  <2>1. JobsOK'
    BY <1>0, <1>6, IdleJob DEF Crash, JobsOK
  <2> QED BY <1>0, <1>6, <2>1 DEF Crash, RestOK, LinkOK, seen, device
<1>7. CASE Settle
  BY <1>0, <1>7 DEF Settle, RestOK, JobsOK, LinkOK, seen, device
<1>8. ASSUME NEW f \in Folder, Pick(f) PROVE JobsOK' /\ LinkOK' /\ RestOK'
  <2>1. link' = [folder |-> f, hash |-> None] /\ f # None
    BY <1>8 DEF Pick
  <2>2. Moves("pick", "decide", f, None, None)
    <3>1. job' = [job EXCEPT !["pick"] = [Idle EXCEPT !.at = "decide", !.folder = f,
                                                     !.hash = None]]
      BY <1>8, <2>1 DEF Pick, Start
    <3> QED BY <1>0, <3>1 DEF JobsOK, Moves, Idle, Job, Step, Thread, File
  <2>3. JobsOK'
    BY <1>0, <2>1, <2>2, MovesKeepsJobs DEF Thread
  <2>4. ownRead' \in BOOLEAN /\ dropped' = {} /\ picks' \in 0..MaxPicks
    BY <1>0, <1>8 DEF Pick, RestOK
  <2> QED BY <1>0, <1>8, <2>1, <2>3, <2>4 DEF Pick, RestOK, LinkOK, Links, device
<1>9. ASSUME NEW f \in Folder, NEW p \in Peer, PeerWrites(f, p) PROVE JobsOK' /\ LinkOK' /\ RestOK'
  <2>1. edits' \in Edit /\ edits' \in 0..MaxEdit
    BY <1>0, <1>9 DEF PeerWrites, NextEdit, RestOK, Edit
  <2>2. PICK got \in {Published(f), EditsOf(f, {p} \cap Readable(f))} :
          cloud' = [cloud EXCEPT
               ![f].file[p] = [edits |-> got \cup {edits'}, order |-> 1],
               ![f].blobs = IF edits' \in Deletions THEN @ \cap Refs(got \cup {edits'})
                            ELSE @ \cup {edits'}]
    BY <1>9, Zenon DEF PeerWrites
  <2>3. got \subseteq Edit
    BY EditsTogether, PublishedEdits
  <2>4. [edits |-> got \cup {edits'}, order |-> 1] \in File
    BY <2>1, <2>3 DEF File, Digest, Order
  <2>5. cloud' \in Cloud
    BY <1>0, <2>1, <2>2, <2>4 DEF RestOK, Cloud
  <2> QED BY <1>0, <1>9, <2>1, <2>5 DEF PeerWrites, NextEdit, RestOK, JobsOK, LinkOK, device, seen
<1>10. ASSUME NEW t \in Thread, JobStep(t) PROVE JobsOK' /\ LinkOK' /\ RestOK'
  <2>0. job[t] \in Job /\ (job[t].at # "idle" => job[t].folder \in Folder)
    BY <1>0 DEF JobsOK, Job
  <2>1. CASE FirstLink(t)
    <3>1. \/ Moves(t, "switch files", job[t].folder, job[t].hash, job[t].bytes)
          \/ Start(t, "hash", link)
          \/ Moves(t, "idle", None, None, None)
      BY <1>0, <2>1, GotoMoves, StopMoves DEF FirstLink, JobsOK, Step
    <3>2. Start(t, "hash", link) =>
            \/ Moves(t, "hash", link.folder, link.hash, None) /\ link.folder # None
            \/ Moves(t, "idle", None, None, None)
      <4>1. CASE link.folder # None
        BY <1>0, <4>1, StartMoves DEF JobsOK, LinkOK, Links, Step
      <4>2. CASE link.folder = None
        BY <1>0, <4>2, IdleJob DEF Start, JobsOK, Moves
      <4> QED BY <4>1, <4>2
    <3>3. JobsOK'
      BY <1>0, <2>0, <2>1, <3>1, <3>2, MovesKeepsJobs DEF FirstLink
    <3> QED BY <1>0, <2>1, <3>3 DEF FirstLink, RestOK, LinkOK, seen, counts, device
  <2>2. CASE ListingFails(t)
    <3>1. JobsOK'
      BY <1>0, <2>2, StopMoves, MovesKeepsJobs DEF ListingFails, JobsOK
    <3> QED BY <1>0, <2>2, <3>1 DEF ListingFails, RestOK, LinkOK, seen, counts, device
  <2>3. CASE PullFiles(t)
    <3>1. JobsOK'
      BY <1>0, <2>0, <2>3, GotoMoves, MovesKeepsJobs DEF PullFiles, JobsOK, Step
    <3>2. blobs' \subseteq Edit /\ log' \subseteq Edit
      BY <1>0, <2>0, <2>3 DEF PullFiles, PulledBlobs, RestOK, Cloud
    <3> QED BY <1>0, <2>3, <3>1, <3>2 DEF PullFiles, RestOK, LinkOK, seen, counts
  <2>4. CASE PullMerge(t)
    <3>0. job[t].folder \in Folder /\ job[t].at = "merge"
      BY <2>0, <2>4 DEF PullMerge
    <3>1. PICK ds \in SUBSET Readable(job[t].folder), remote \in Digest, adopted \in BOOLEAN :
             /\ doc' \in Digest
             /\ link' = [link EXCEPT !.hash = IF adopted THEN remote ELSE job[t].hash]
             /\ ownRead' \in BOOLEAN /\ blobs' \subseteq Edit
      BY <2>4, <3>0, PullMergeDoes
    <3>2. LinkOK' /\ link'.folder # None
      BY <1>0, <2>0, <3>0, <3>1 DEF LinkOK, Links, Job, Linked
    <3>3. log' \subseteq Edit
      BY <1>0, <2>4, <3>1 DEF PullMerge, RestOK, Digest
    <3>4. JobsOK'
      <4>1. job' = [job EXCEPT ![t] = [Idle EXCEPT !.at = "hash", !.folder = link'.folder,
                                                   !.hash = link'.hash]]
        BY <2>4, <3>2 DEF PullMerge, Start
      <4>2. link' \in Links
        BY <3>2 DEF LinkOK
      <4> QED BY <1>0, <3>2, <4>1, <4>2 DEF JobsOK, Links, Idle, Job, Step, File
    <3> QED BY <1>0, <2>4, <3>1, <3>2, <3>3, <3>4 DEF PullMerge, RestOK, counts
  <2>5. CASE PushHash(t)
    <3>1. JobsOK'
      BY <1>0, <2>0, <2>5 DEF PushHash, JobsOK, Job, Step, RestOK, ContentHash
    <3> QED BY <1>0, <2>5, <3>1 DEF PushHash, RestOK, LinkOK, seen, counts, device
  <2>6. CASE PushRead(t)
    <3>1. PICK bytes \in FileBytes :
            job' = [job EXCEPT ![t].at = "write", ![t].bytes = bytes]
      BY <2>6 DEF PushRead
    <3>2. bytes \in File
      BY <1>0 DEF RestOK, FileBytes, File
    <3>3. JobsOK'
      BY <1>0, <2>0, <2>6, <3>1, <3>2 DEF PushRead, JobsOK, Job, Step
    <3> QED BY <1>0, <2>6, <3>3 DEF PushRead, RestOK, LinkOK, seen, counts, device
  <2>7. CASE PushWrite(t)
    <3>1. CASE /\ cloud' = [cloud EXCEPT ![job[t].folder].file[Phone] = job[t].bytes]
               /\ job' = [job EXCEPT ![t].at = "mirror", ![t].bytes = None]
      <4>1. JobsOK'
        BY <1>0, <2>0, <2>7, <3>1 DEF PushWrite, JobsOK, Job, Step, File
      <4>2. cloud' \in Cloud
        BY <1>0, <2>0, <3>1 DEF RestOK, Cloud, Job
      <4> QED BY <1>0, <2>7, <4>1, <4>2 DEF PushWrite, RestOK, LinkOK, seen, counts, device
    <3>2. CASE Stop(t) /\ UNCHANGED cloud
      <4>1. JobsOK'
        BY <1>0, <3>2, StopMoves, MovesKeepsJobs DEF JobsOK
      <4> QED BY <1>0, <2>7, <3>2, <4>1 DEF PushWrite, RestOK, LinkOK, seen, counts, device
    <3> QED BY <2>7, <3>1, <3>2 DEF PushWrite
  <2>8. CASE PushMirror(t)
    <3>1. JobsOK'
      BY <1>0, <2>8, StopMoves, MovesKeepsJobs DEF PushMirror, JobsOK
    <3>2. PICK sent \in SUBSET blobs, all \in BOOLEAN :
         /\ cloud' = [cloud EXCEPT ![job[t].folder].blobs = @ \cup sent,
                                   ![job[t].folder].log = IF all /\ log # {} THEN log ELSE @]
         /\ link' = IF all /\ job[t].hash # None THEN [link EXCEPT !.hash = job[t].hash] ELSE link
      BY <2>8 DEF PushMirror
    <3>3. cloud' \in Cloud
      BY <1>0, <3>2 DEF RestOK, Cloud
    <3>4. LinkOK'
      BY <1>0, <2>0, <2>8, <3>2 DEF PushMirror, LinkOK, Links, Job, Linked
    <3> QED BY <1>0, <2>8, <3>1, <3>3, <3>4 DEF PushMirror, RestOK, seen, counts, device
  <2>9. CASE SwitchFiles(t)
    <3>1. JobsOK'
      BY <1>0, <2>0, <2>9, GotoMoves, MovesKeepsJobs DEF SwitchFiles, JobsOK, Step
    <3>2. blobs' \subseteq Edit /\ log' \subseteq Edit
      BY <1>0, <2>0, <2>9 DEF SwitchFiles, PulledBlobs, RestOK, Cloud
    <3> QED BY <1>0, <2>9, <3>1, <3>2 DEF SwitchFiles, RestOK, LinkOK, seen, counts
  <2>10. CASE SwitchLoad(t)
    <3>1. JobsOK'
      BY <1>0, <2>10, StopMoves, MovesKeepsJobs DEF SwitchLoad, JobsOK
    <3>2. job[t].folder \in Folder
      BY <2>0, <2>10 DEF SwitchLoad
    <3>3. /\ doc' \in Digest /\ ownRead' \in BOOLEAN /\ dropped' \subseteq Edit
          /\ \E h \in Digest \cup {None} : link' = link \/ link' = [link EXCEPT !.hash = h]
      <4>1. CASE UNCHANGED <<doc, ownRead, dropped>>
                 /\ (UNCHANGED link \/ link' = [link EXCEPT !.hash = None])
        BY <1>0, <4>1 DEF RestOK
      <4>2. CASE \E ds \in SUBSET Readable(job[t].folder) :
                   /\ doc' \in Digest /\ link' = [link EXCEPT !.hash = doc']
                   /\ dropped' = doc.edits \ doc'.edits /\ ownRead' \in BOOLEAN
        BY <1>0, <4>2 DEF RestOK, Digest
      <4> QED BY <2>10, <3>2, <4>1, <4>2, SwitchLoadDoes
    <3>4. blobs' \subseteq Edit
      BY <2>10, <3>2, SwitchLoadDoes
    <3>5. LinkOK'
      BY <1>0, <2>0, <2>10, <3>2, <3>3 DEF SwitchLoad, LinkOK, Links, Linked
    <3> QED BY <1>0, <2>10, <3>1, <3>3, <3>4, <3>5 DEF SwitchLoad, RestOK, counts
  <2> QED BY <1>10, <2>1, <2>2, <2>3, <2>4, <2>5, <2>6, <2>7, <2>8, <2>9, <2>10 DEF JobStep
<1>11. CASE UNCHANGED vars
  BY <1>0, <1>11 DEF vars, RestOK, JobsOK, LinkOK, device, counts, seen
<1> QED BY <1>1, <1>2, <1>3, <1>4, <1>5, <1>6, <1>7, <1>8, <1>9, <1>10, <1>11 DEF Next
-----------------------------------------------------------------------------
(* The invariant *)

LEMMA MirrorStarts == Init => MirrorInv
<1> SUFFICES ASSUME Init PROVE MirrorInv
  OBVIOUS
<1>1. \A t \in Thread : job[t].at = "idle"
  BY IdleJob DEF Init
<1>2. \A f \in Folder, d \in Device : ~Legible(cloud[f].file[d])
  BY DEF Init, Legible
<1>3. Numbered
  BY <1>2 DEF Init, Numbered
<1> QED BY <1>1, <1>3, TypeStarts
        DEF MirrorInv, Init, Alone, Busy, Thread, Remembered, Jobs, Picked, Held,
            DiscardedStaysDiscarded

\* A step of one thread that leaves the document, the link and the folders alone.
LEMMA QuietStep ==
    ASSUME MirrorInv, TypeOK', NEW t \in Thread,
           UNCHANGED <<doc, commit, link, cloud, edits, dropped, ownRead>>,
           \A u \in Thread \ {t} : job'[u] = job[u],
           Held(job'[t]), Alone', Picked'
    PROVE  MirrorInv'
<1>1. Numbered'
  BY DEF MirrorInv, Numbered
<1>2. Remembered'
  BY DEF MirrorInv, Remembered, Covers, Outdated, OurFile
<1>3. DiscardedStaysDiscarded'
  BY DEF MirrorInv, DiscardedStaysDiscarded, Published, EditsOf, Readable, Present
<1>4. \A u \in Thread : Held(job'[u])
  BY DEF MirrorInv, Jobs
<1>5. \A u \in Thread : Held(job[u])'
  BY <1>4 DEF Held, InBytes, Covers, Outdated
<1> QED BY <1>1, <1>2, <1>3, <1>5 DEF MirrorInv, Jobs

\* Nothing changed in a folder: the same edits are published.
LEMMA SameFiles ==
    ASSUME NEW f, \A d \in Device : cloud'[f].file[d] = cloud[f].file[d]
    PROVE  \A e : Has(cloud', f, e) <=> Has(cloud, f, e)
  BY DEF Has
-----------------------------------------------------------------------------
(* Commands, the link and the environment *)

LEMMA BeginWriteStep ==
    ASSUME MirrorInv, ~PickBeside, TypeOK', BeginWrite
    PROVE  MirrorInv'
<1> USE DEF MirrorInv
<1>1. /\ UNCHANGED <<doc, link, job, cloud, ownRead, dropped>>
      /\ commit = 0 /\ edits' = edits + 1 /\ commit' = edits + 1 /\ ~Busy("pick")
  BY DEF BeginWrite, NextEdit, seen
<1>2. edits \in Nat /\ doc.edits \subseteq Nat /\ dropped \subseteq Nat
  BY DEF TypeOK, Digest, Edit
<1>3. Numbered'
  <2>1. \A f \in Folder, d \in Device : Legible(cloud[f].file[d]) =>
          cloud[f].file[d].edits \subseteq Nat
    BY FilesAreFiles, DigestEdits DEF Edit
  <2>2. \A e \in doc.edits \cup dropped : e <= edits + 1 /\ e # edits + 1
    <3> SUFFICES ASSUME NEW e \in doc.edits \cup dropped PROVE e <= edits + 1 /\ e # edits + 1
      OBVIOUS
    <3>1. e \in Nat /\ e <= edits
      BY <1>2 DEF Numbered
    <3> QED BY <1>2, <3>1
  <2>3. \A f \in Folder, d \in Device : Legible(cloud[f].file[d]) =>
          \A e \in cloud[f].file[d].edits : e <= edits + 1
    BY <1>2, <2>1 DEF Numbered
  <2>4. commit' <= edits' /\ commit' \notin (doc.edits \cup dropped)'
    BY <1>1, <1>2, <2>2
  <2>5. \A e \in (doc.edits \cup dropped)' : e <= edits'
    BY <1>1, <2>2
  <2>6. \A f \in Folder, d \in Device :
          Legible(cloud'[f].file[d]) => \A e \in cloud'[f].file[d].edits : e <= edits'
    BY <1>1, <2>3
  <2> QED BY <2>4, <2>5, <2>6 DEF Numbered, Legible
<1>4. \A h : Outdated(h) => Outdated(h)'
  BY <1>1 DEF Outdated, Edit
<1>5. \A h : Covers(h) => Covers(h)'
  BY <1>1, <1>4 DEF Covers
<1>6. Remembered'
  BY <1>1, <1>5 DEF Remembered, OurFile
<1>7. DiscardedStaysDiscarded'
  BY <1>1 DEF DiscardedStaysDiscarded, Published, EditsOf, Readable, Present
<1>8. Alone' /\ Picked'
  BY <1>1 DEF Alone, Jobs, Picked, OurFile, Busy
<1>9. \A t \in Thread : Held(job[t])'
  BY <1>1, <1>4, <1>5 DEF Jobs, Held, InBytes
<1> QED BY <1>3, <1>6, <1>7, <1>8, <1>9 DEF Jobs

LEMMA EndWriteStep ==
    ASSUME MirrorInv, ~PickBeside, TypeOK', EndWrite
    PROVE  MirrorInv'
<1> USE DEF MirrorInv
<1>1. /\ UNCHANGED <<link, job, cloud, edits, ownRead, dropped>>
      /\ commit # 0 /\ commit' = 0 /\ doc' = [doc EXCEPT !.edits = @ \cup {commit}]
  BY DEF EndWrite, seen, counts
<1>2. doc \in Digest /\ doc'.edits = doc.edits \cup {commit} /\ commit \in Edit
  BY <1>1 DEF TypeOK, Digest
<1>3. Numbered'
  BY <1>1, <1>2 DEF Numbered, TypeOK, Edit, Digest
<1>4. \A h : Outdated(h) => Outdated(h)'
  BY <1>1, <1>2 DEF Outdated
<1>5. \A h : Covers(h) => Covers(h)'
  BY <1>1, <1>4 DEF Covers
<1>6. Remembered'
  BY <1>1, <1>2, <1>5 DEF Remembered, OurFile
<1>7. DiscardedStaysDiscarded'
  BY <1>1, <1>2 DEF DiscardedStaysDiscarded, Published, EditsOf, Readable, Present, Numbered
<1>8. Alone' /\ Picked'
  BY <1>1 DEF Alone, Jobs, Picked, OurFile, Busy
<1>9. \A t \in Thread : Held(job[t])'
  <2> SUFFICES ASSUME NEW t \in Thread PROVE Held(job[t])'
    OBVIOUS
  <2>1. job[t].at = "write" => InBytes(job[t])'
    BY <1>1, <1>2, <1>4 DEF Jobs, Held, InBytes, Numbered
  <2> QED BY <1>1, <1>2, <1>5, <2>1 DEF Jobs, Held
<1> QED BY <1>3, <1>6, <1>7, <1>8, <1>9 DEF Jobs

LEMMA ClearStep ==
    ASSUME MirrorInv, ~PickBeside, TypeOK', Clear
    PROVE  MirrorInv'
<1> USE DEF MirrorInv
<1>1. /\ UNCHANGED <<doc, commit, job, cloud, edits, ownRead, dropped>>
      /\ link' = [folder |-> None, hash |-> None] /\ ~Busy("main") /\ ~Busy("pick")
  BY DEF Clear, MainFree, seen, counts, device
<1>2. Numbered'
  BY <1>1 DEF Numbered
<1>3. Remembered' /\ DiscardedStaysDiscarded'
  BY <1>1 DEF Remembered, DiscardedStaysDiscarded
<1>4. Alone' /\ Jobs'
  BY <1>1 DEF Alone, Jobs, Picked, Held, Busy, Thread
<1> QED BY <1>2, <1>3, <1>4

LEMMA CrashStep ==
    ASSUME MirrorInv, TypeOK', Crash
    PROVE  MirrorInv'
<1> USE DEF MirrorInv
<1>1. /\ UNCHANGED <<doc, commit, link, cloud, edits, ownRead, dropped>>
      /\ \A t \in Thread : job'[t].at = "idle"
  BY IdleJob DEF Crash, seen, device
<1>2. Numbered'
  BY <1>1 DEF Numbered
<1>3. Remembered' /\ DiscardedStaysDiscarded'
  BY <1>1 DEF Remembered, DiscardedStaysDiscarded, Covers, Outdated, OurFile,
              Published, EditsOf, Readable, Present
<1>4. Alone' /\ Jobs'
  BY <1>1 DEF Alone, Jobs, Picked, Held, Busy, Thread
<1> QED BY <1>2, <1>3, <1>4

LEMMA PickStep ==
    ASSUME MirrorInv, ~PickBeside, TypeOK', NEW f \in Folder, Pick(f)
    PROVE  MirrorInv'
<1> USE DEF MirrorInv
<1>1. /\ UNCHANGED <<doc, commit, cloud, edits>> /\ dropped' = {} /\ commit = 0
      /\ link' = [folder |-> f, hash |-> None] /\ ~Busy("main") /\ ~Busy("pick")
  BY DEF Pick, PickFree, device
<1>2. ownRead' => cloud[f].file[Phone] = None
  BY DEF Pick
<1>3. /\ job' = [job EXCEPT !["pick"] = [Idle EXCEPT !.at = "decide", !.folder = f, !.hash = None]]
      /\ f # None
  BY MirrorAssumption DEF Pick, Start
<1>4. /\ job'["main"].at = "idle"
      /\ job'["pick"].at = "decide" /\ job'["pick"].folder = f
  BY <1>1, <1>3 DEF TypeOK, Thread, Idle, Busy
<1>5. Numbered'
  BY <1>1 DEF Numbered
<1>6. Remembered' /\ DiscardedStaysDiscarded'
  BY <1>1, <1>2 DEF Remembered, DiscardedStaysDiscarded, OurFile, Legible
<1>7. Alone' /\ Jobs'
  BY <1>1, <1>2, <1>4 DEF Alone, Jobs, Picked, Held, Busy, Thread, OurFile
<1> QED BY <1>5, <1>6, <1>7

LEMMA PeerWritesStep ==
    ASSUME MirrorInv, TypeOK', NEW f \in Folder, NEW p \in Peer, PeerWrites(f, p)
    PROVE  /\ MirrorInv'
           /\ \A g \in Folder : \A e : Has(cloud, g, e) => Has(cloud', g, e)
<1> USE DEF MirrorInv
<1>1. /\ UNCHANGED <<doc, commit, link, job, ownRead, dropped>> /\ edits' = edits + 1
  BY DEF PeerWrites, NextEdit, seen, device
<1>2. PICK got \in {Published(f), EditsOf(f, {p} \cap Readable(f))} :
        cloud' = [cloud EXCEPT
             ![f].file[p] = [edits |-> got \cup {edits'}, order |-> 1],
             ![f].blobs = IF edits' \in Deletions THEN @ \cap Refs(got \cup {edits'})
                          ELSE @ \cup {edits'}]
  BY Zenon DEF PeerWrites
<1>3. p \in Device /\ p # Phone
  BY MirrorAssumption DEF Device
<1>4. /\ \A g \in Folder, d \in Device : (g # f \/ d # p) => cloud'[g].file[d] = cloud[g].file[d]
      /\ cloud'[f].file[p] = [edits |-> got \cup {edits'}, order |-> 1]
  BY <1>2, <1>3 DEF TypeOK
<1>5. \A e \in got : Has(cloud, f, e)
  <2>1. got \subseteq Published(f)
    BY EditsTogether
  <2> QED BY <2>1, InPublished
<1>6. Legible(cloud'[f].file[p])
  <2>1. got \subseteq Edit /\ edits' \in Edit
    BY <1>1, EditsTogether, PublishedEdits DEF PeerWrites, NextEdit, TypeOK, Edit
  <2>2. [edits |-> got \cup {edits'}, order |-> 1] \in Digest
    BY <2>1 DEF Digest, Order
  <2> QED BY <1>4, <2>2, TornIsNoDocument DEF Legible
<1>7. Legible(cloud[f].file[p]) => cloud[f].file[p].edits \subseteq got
  <2> SUFFICES ASSUME Legible(cloud[f].file[p]) PROVE cloud[f].file[p].edits \subseteq got
    OBVIOUS
  <2>1. p \in Readable(f)
    BY <1>3, ReadableIsLegible
  <2>2. p \in Readable(f) /\ {p} \cap Readable(f) \subseteq Readable(f)
    BY <2>1
  <2>3. cloud[f].file[p].edits \subseteq EditsOf(f, {p} \cap Readable(f))
    BY <2>2, EditsTogether
  <2>4. EditsOf(f, {p} \cap Readable(f)) \subseteq Published(f)
    BY <2>2, EditsTogether
  <2> QED BY <2>3, <2>4
<1>8. \A g \in Folder : \A e : Has(cloud, g, e) => Has(cloud', g, e)
  BY <1>4, <1>6, <1>7 DEF Has
<1>9. Numbered'
  <2>1. edits \in Nat /\ commit \in Nat /\ doc.edits \subseteq Nat /\ dropped \subseteq Nat
    BY DEF TypeOK, Digest, Edit
  <2>2. \A e \in got : e \in Nat /\ e <= edits
    <3> SUFFICES ASSUME NEW e \in got PROVE e \in Nat /\ e <= edits
      OBVIOUS
    <3>1. PICK d \in Device : Legible(cloud[f].file[d]) /\ e \in cloud[f].file[d].edits
      BY <1>5 DEF Has
    <3>2. e \in Edit
      BY <3>1, FilesAreFiles, DigestEdits
    <3> QED BY <3>1, <3>2 DEF Numbered, Edit
  <2>3. \A g \in Folder, d \in Device :
          Legible(cloud'[g].file[d]) => \A e \in cloud'[g].file[d].edits : e <= edits'
    <3> SUFFICES ASSUME NEW g \in Folder, NEW d \in Device, Legible(cloud'[g].file[d]),
                        NEW e \in cloud'[g].file[d].edits
                 PROVE  e <= edits'
      OBVIOUS
    <3>1. CASE g = f /\ d = p
      BY <1>1, <1>4, <2>1, <2>2, <3>1
    <3>2. CASE g # f \/ d # p
      <4>1. cloud'[g].file[d] = cloud[g].file[d]
        BY <1>4, <3>2
      <4>2. e \in Edit
        BY <4>1, FilesAreFiles, DigestEdits
      <4> QED BY <1>1, <2>1, <4>1, <4>2 DEF Numbered, Edit
    <3> QED BY <3>1, <3>2
  <2> QED BY <1>1, <2>1, <2>3 DEF Numbered
<1>10. link.folder # None => link.folder \in Folder /\ OurFile' = OurFile
  BY <1>1, <1>3, <1>4 DEF TypeOK, OurFile, Device
<1>11. \A h : link.folder # None /\ Covers(h) => Covers(h)'
  BY <1>1, <1>8, <1>10 DEF Covers, Outdated
<1>12. Remembered'
  BY <1>1, <1>10, <1>11 DEF Remembered, TypeOK
<1>13. DiscardedStaysDiscarded'
  <2> SUFFICES ASSUME link.folder # None, OurFile # Torn, NEW e \in doc.edits \cap dropped
               PROVE  Has(cloud', link.folder, e)
    BY <1>1, <1>10, InPublished DEF DiscardedStaysDiscarded, OurFile, Published, EditsOf,
       Readable, Present, Has, Legible
  <2> QED BY <1>8, <1>10, InPublished DEF DiscardedStaysDiscarded, OurFile
<1>14. \A t \in Thread : job[t].at # "idle" => link.folder # None
  BY DEF TypeOK, Jobs, Held, Busy
<1>15. Alone' /\ Picked'
  BY <1>1, <1>10, <1>14 DEF Alone, Jobs, Picked, Busy, Thread
<1>16. \A t \in Thread : Held(job[t])'
  BY <1>1, <1>11, <1>14 DEF Jobs, Held, InBytes, Outdated
<1> QED BY <1>8, <1>9, <1>12, <1>13, <1>15, <1>16 DEF Jobs
-----------------------------------------------------------------------------
(* Jobs that leave document, link and folders alone *)

LEMMA TheOnlyJob ==
    ASSUME MirrorInv, NEW t \in Thread, job[t].at # "idle"
    PROVE  /\ job \in [Thread -> Job] /\ job[t] \in Job
           /\ job[t].folder = link.folder /\ link.folder \in Folder
           /\ Held(job[t])
           /\ \A u \in Thread \ {t} : job[u].at = "idle"
<1>1. Held(job[t]) /\ job \in [Thread -> Job] /\ job[t].folder \in Folder
  BY DEF MirrorInv, Jobs, TypeOK, Job, Busy
<1>2. job[t].folder = link.folder
  BY <1>1 DEF Held
<1>3. \A u \in Thread \ {t} : job[u].at = "idle"
  BY DEF MirrorInv, Alone, Busy, Thread
<1> QED BY <1>1, <1>2, <1>3

LEMMA SyncStep ==
    ASSUME MirrorInv, ~PickBeside, TypeOK', SyncNow \/ PushNow
    PROVE  MirrorInv'
<1>1. /\ UNCHANGED <<doc, commit, link, cloud, edits, dropped, ownRead>>
      /\ ~Busy("pick") /\ link.folder # None
  BY DEF SyncNow, PushNow, MainFree, seen, counts, device
<1>2. \E at \in {"files", "hash"} : Moves("main", at, link.folder, link.hash, None)
  BY <1>1, StartMoves DEF SyncNow, PushNow, MirrorInv, TypeOK, Step, Thread
<1>3. Held(job'["main"])
  BY <1>2 DEF Moves, Held
<1>4. Alone' /\ Picked'
  BY <1>1, <1>2 DEF MirrorInv, Jobs, Alone, Picked, Busy, Moves, Thread
<1> QED BY <1>1, <1>2, <1>3, <1>4, QuietStep DEF Moves, Thread

LEMMA StoppedStep ==
    ASSUME MirrorInv, TypeOK', NEW t \in Thread, Stop(t),
           UNCHANGED <<doc, commit, link, cloud, edits, dropped, ownRead>>
    PROVE  MirrorInv'
<1>1. Moves(t, "idle", None, None, None)
  BY StopMoves DEF MirrorInv, TypeOK
<1>2. Held(job'[t])
  BY <1>1 DEF Moves, Held
<1>3. Alone' /\ Picked'
  BY <1>1 DEF MirrorInv, Jobs, Alone, Picked, Busy, Moves, Thread, OurFile
<1> QED BY <1>1, <1>2, <1>3, QuietStep DEF Moves

LEMMA FirstLinkStep ==
    ASSUME MirrorInv, TypeOK', NEW t \in Thread, FirstLink(t)
    PROVE  MirrorInv'
<1>1. UNCHANGED <<doc, commit, link, cloud, edits, dropped, ownRead>> /\ job[t].at = "decide"
  BY DEF FirstLink, seen, counts, device
<1>2. t = "pick" /\ job[t].folder = link.folder /\ link.folder \in Folder /\ job \in [Thread -> Job]
      /\ job["main"].at = "idle"
  BY <1>1, TheOnlyJob DEF MirrorInv, Jobs, Picked, Thread
<1>3. commit = 0
  BY <1>1, <1>2 DEF MirrorInv, Alone, Busy
<1>4. CASE Goto(t, "switch files")
  <2>1. Moves(t, "switch files", link.folder, job[t].hash, job[t].bytes)
    BY <1>2, <1>4, GotoMoves DEF Step
  <2>2. Held(job'[t])
    BY <2>1 DEF Moves, Held
  <2>3. Alone' /\ Picked'
    BY <1>1, <1>2, <1>3, <2>1 DEF MirrorInv, Jobs, Alone, Picked, Busy, Moves, Thread, OurFile
  <2> QED BY <1>1, <2>1, <2>2, <2>3, QuietStep DEF Moves
<1>5. CASE Present(job[t].folder) = {} /\ Start(t, "hash", link)
  <2>1. Moves(t, "hash", link.folder, link.hash, None)
    BY <1>2, <1>5, MirrorAssumption, StartMoves DEF MirrorInv, TypeOK, Step
  <2>2. Held(job'[t])
    BY <2>1 DEF Moves, Held
  <2>3. OurFile = None
    BY <1>2, <1>5 DEF Present, OurFile, Device
  <2>4. Alone' /\ Picked'
    BY <1>1, <1>2, <1>3, <2>1, <2>3
       DEF MirrorInv, Jobs, Alone, Picked, Busy, Moves, Thread, OurFile
  <2> QED BY <1>1, <2>1, <2>2, <2>4, QuietStep DEF Moves
<1>6. CASE Stop(t)
  BY <1>1, <1>6, StoppedStep
<1> QED BY <1>4, <1>5, <1>6 DEF FirstLink

LEMMA FilesStep ==
    ASSUME MirrorInv, TypeOK', NEW t \in Thread, PullFiles(t) \/ SwitchFiles(t)
    PROVE  MirrorInv'
<1>1. /\ UNCHANGED <<doc, commit, link, cloud, edits, dropped, ownRead>>
      /\ \/ job[t].at = "files" /\ Goto(t, "merge")
         \/ job[t].at = "switch files" /\ Goto(t, "load")
  BY DEF PullFiles, SwitchFiles, seen, counts
<1>2. job[t].folder = link.folder /\ job \in [Thread -> Job]
      /\ Held(job[t]) /\ \A u \in Thread \ {t} : job[u].at = "idle"
  BY <1>1, TheOnlyJob
<1>3. \/ job[t].at = "files" /\ Moves(t, "merge", link.folder, job[t].hash, job[t].bytes)
      \/ job[t].at = "switch files" /\ Moves(t, "load", link.folder, job[t].hash, job[t].bytes)
  BY <1>1, <1>2, GotoMoves DEF Step
<1>4. Held(job'[t])
  BY <1>2, <1>3 DEF Moves, Held
<1>5. Alone' /\ Picked'
  BY <1>1, <1>2, <1>3 DEF MirrorInv, Jobs, Alone, Picked, Busy, Moves, Thread, OurFile
<1> QED BY <1>1, <1>3, <1>4, <1>5, QuietStep DEF Moves

LEMMA PushHashStep ==
    ASSUME MirrorInv, TypeOK', NEW t \in Thread, PushHash(t)
    PROVE  MirrorInv'
<1>1. /\ UNCHANGED <<doc, commit, link, cloud, edits, dropped, ownRead>> /\ job[t].at = "hash"
      /\ job' = [job EXCEPT ![t].at = IF job[t].hash = doc THEN "mirror" ELSE "read",
                            ![t].hash = IF job[t].hash = doc THEN None ELSE doc]
  BY DEF PushHash, seen, counts, device, ContentHash
<1>2. job[t].folder = link.folder /\ job \in [Thread -> Job] /\ job[t] \in Job
      /\ \A u \in Thread \ {t} : job[u].at = "idle"
  BY <1>1, TheOnlyJob
<1>3. /\ job'[t].folder = link.folder /\ \A u \in Thread \ {t} : job'[u] = job[u]
      /\ \/ job'[t].at = "mirror" /\ job'[t].hash = None
         \/ job'[t].at = "read" /\ job'[t].hash = doc
  BY <1>1, <1>2 DEF Job
<1>4. doc # None
  BY TornIsNoDocument DEF MirrorInv, TypeOK
<1>5. Held(job'[t])
  BY <1>3, <1>4 DEF Held
<1>6. Alone' /\ Picked'
  BY <1>1, <1>2, <1>3 DEF MirrorInv, Jobs, Alone, Picked, Busy, Thread, OurFile
<1> QED BY <1>1, <1>3, <1>5, <1>6, QuietStep

\* Bytes that are torn are of a commit that no hash has.
LEMMA PushReadStep ==
    ASSUME MirrorInv, TypeOK', NEW t \in Thread, PushRead(t)
    PROVE  MirrorInv'
<1>1. /\ UNCHANGED <<doc, commit, link, cloud, edits, dropped, ownRead>> /\ job[t].at = "read"
  BY DEF PushRead, seen, counts, device
<1>2. PICK bytes \in FileBytes : job' = [job EXCEPT ![t].at = "write", ![t].bytes = bytes]
  BY DEF PushRead
<1>3. job[t].folder = link.folder /\ job \in [Thread -> Job] /\ job[t] \in Job
      /\ Held(job[t]) /\ \A u \in Thread \ {t} : job[u].at = "idle"
  BY <1>1, TheOnlyJob
<1>4. /\ job'[t].at = "write" /\ job'[t].folder = link.folder
      /\ job'[t].hash = job[t].hash /\ job'[t].bytes = bytes
      /\ \A u \in Thread \ {t} : job'[u] = job[u]
  BY <1>2, <1>3 DEF Job
<1>5. job[t].hash # None /\ job[t].hash.edits \subseteq doc.edits
  BY <1>1, <1>3 DEF Held
<1>6. link.hash # None => link.hash.edits \subseteq doc.edits
  BY DEF MirrorInv, Remembered
<1>7. CASE bytes = doc
  <2>1. InBytes(job'[t])
    BY <1>4, <1>5, <1>6, <1>7 DEF InBytes, MirrorInv, TypeOK
  <2> QED BY <1>1, <1>3, <1>4, <1>5, <2>1, QuietStep
          DEF Held, MirrorInv, Jobs, Alone, Picked, Busy, Thread, OurFile
<1>8. CASE bytes = Torn /\ commit # 0
  <2>1. commit \in Edit /\ commit \notin doc.edits
    BY <1>8 DEF MirrorInv, TypeOK, Numbered
  <2>2. InBytes(job'[t])
    BY <1>4, <1>5, <1>6, <1>8, <2>1 DEF InBytes, Outdated
  <2> QED BY <1>1, <1>3, <1>4, <1>5, <2>2, QuietStep
          DEF Held, MirrorInv, Jobs, Alone, Picked, Busy, Thread, OurFile
<1> QED BY <1>7, <1>8 DEF FileBytes
-----------------------------------------------------------------------------
(* Jobs that change the document, the link or the folder *)

\* The job ends or goes on to the push, and nothing else is held.
LEMMA JobsAfterLoad ==
    ASSUME MirrorInv, TypeOK', NEW t \in Thread, job[t].at # "idle",
           job'[t].at \in {"idle", "hash"}, \A u \in Thread \ {t} : job'[u] = job[u],
           job'[t].at # "idle" => job'[t].folder = link'.folder,
           t = "pick" => job'[t].at = "idle",
           UNCHANGED commit
    PROVE  Alone' /\ Jobs'
<1>1. \A u \in Thread \ {t} : job'[u].at = "idle"
  BY TheOnlyJob
<1>2. \A u \in Thread : Held(job[u])'
  BY <1>1 DEF Held
<1>3. Alone' /\ Picked'
  BY <1>1 DEF MirrorInv, Alone, Picked, Busy, Thread
<1> QED BY <1>2, <1>3 DEF Jobs

LEMMA PullMergeStep ==
    ASSUME MirrorInv, TypeOK', NEW t \in Thread, PullMerge(t)
    PROVE  MirrorInv'
<1>1. /\ job[t].at = "merge" /\ commit = 0 /\ UNCHANGED <<commit, cloud, edits, dropped>>
      /\ Start(t, "hash", link')
  BY DEF PullMerge, counts
<1>2. job[t].folder = link.folder /\ job \in [Thread -> Job] /\ Held(job[t])
      /\ link.folder \in Folder /\ TypeOK
  BY <1>1, TheOnlyJob DEF MirrorInv
<1>3. PICK ds \in SUBSET Readable(link.folder), remote \in Digest, adopted \in BOOLEAN :
             /\ remote.edits = EditsOf(link.folder, ds)
             /\ doc' \in Digest
             /\ doc'.edits = IF adopted THEN doc.edits \cup remote.edits ELSE doc.edits
             /\ link' = [link EXCEPT !.hash = IF adopted THEN remote ELSE job[t].hash]
             /\ ownRead' => ownRead \/ (Phone \in ds /\ (adopted \/ remote = job[t].hash))
  BY <1>2, PullMergeDoes
<1>4. /\ link'.folder = link.folder
      /\ link'.hash = IF adopted THEN remote ELSE link.hash
      /\ job[t].hash = link.hash
  BY <1>1, <1>2, <1>3 DEF TypeOK, Held
<1>5. \A e \in remote.edits : e \in Published(link.folder)
  BY <1>2, <1>3, EditsTogether
<1>6. \A e \in remote.edits : Has(cloud, link.folder, e)
  BY <1>5, InPublished
<1>7. Numbered'
  <2>1. \A e \in remote.edits : e \in Edit /\ e <= edits
    <3> SUFFICES ASSUME NEW e \in remote.edits PROVE e \in Edit /\ e <= edits
      OBVIOUS
    <3>1. PICK d \in Device : Legible(cloud[link.folder].file[d])
                              /\ e \in cloud[link.folder].file[d].edits
      BY <1>6 DEF Has
    <3>2. e \in Edit
      BY <1>2, <3>1, FilesAreFiles, DigestEdits
    <3> QED BY <1>2, <3>1, <3>2 DEF MirrorInv, Numbered
  <2>2. commit = 0 /\ 0 \notin Edit
    BY <1>1 DEF Edit
  <2> QED BY <1>1, <1>3, <2>1, <2>2 DEF MirrorInv, Numbered
<1>8. \A e \in doc.edits : e \in doc'.edits
  BY <1>3
<1>9. link.hash # None => Covers(link.hash) /\ link.hash.edits \subseteq doc.edits
  BY DEF MirrorInv, Remembered
<1>10. link'.hash # None => link'.hash.edits \subseteq doc'.edits /\ Covers(link.hash)'
  <2>1. CASE adopted
    BY <1>1, <1>3, <1>4, <1>6, <2>1 DEF Covers
  <2>2. CASE ~adopted
    BY <1>1, <1>3, <1>4, <1>8, <1>9, <2>2 DEF Covers, Outdated
  <2> QED BY <2>1, <2>2
<1>11. ownRead' /\ Legible(OurFile') => OurFile'.edits \subseteq doc'.edits
  <2>1. OurFile' = OurFile
    BY <1>1, <1>4 DEF OurFile
  <2>2. CASE ownRead
    BY <1>2, <1>3, <1>8, <2>1, <2>2, MirrorAssumption DEF MirrorInv, Remembered
  <2>3. CASE Phone \in ds /\ (adopted \/ remote = job[t].hash)
    <3>1. OurFile.edits \subseteq remote.edits
      BY <1>2, <1>3, <2>3, EditsTogether DEF OurFile
    <3>2. remote.edits \subseteq doc'.edits
      <4>1. CASE adopted BY <1>3, <4>1
      <4>2. CASE remote = link.hash
        BY <1>3, <1>8, <1>9, <4>2, TornIsNoDocument
      <4> QED BY <1>4, <2>3, <4>1, <4>2
    <3> QED BY <2>1, <3>1, <3>2
  <2> QED BY <1>3, <2>2, <2>3
<1>12. Remembered'
  BY <1>10, <1>11 DEF Remembered
<1>13. DiscardedStaysDiscarded'
  <2> SUFFICES ASSUME OurFile # Torn, NEW e \in doc'.edits \cap dropped
               PROVE  Has(cloud, link.folder, e)
    BY <1>1, <1>4, InPublished DEF DiscardedStaysDiscarded, OurFile, Published, EditsOf,
       Readable, Present, Has, Legible
  <2>1. CASE e \in remote.edits BY <1>6, <2>1
  <2>2. CASE e \in doc.edits
    BY <1>2, <2>2, InPublished, MirrorAssumption DEF MirrorInv, DiscardedStaysDiscarded, OurFile
  <2> QED BY <1>3, <2>1, <2>2
<1>14. link'.folder # None /\ job' = [job EXCEPT ![t] = [Idle EXCEPT !.at = "hash",
                                 !.folder = link'.folder, !.hash = link'.hash]]
  BY <1>1, <1>2, <1>4, MirrorAssumption DEF Start
<1>15. /\ job'[t].at = "hash" /\ job'[t].folder = link'.folder
       /\ \A u \in Thread \ {t} : job'[u] = job[u]
  BY <1>2, <1>14 DEF Idle
<1>16. t = "main"
  BY <1>1 DEF MirrorInv, Jobs, Picked, Thread
<1>17. Alone' /\ Jobs'
  BY <1>1, <1>15, <1>16, JobsAfterLoad
<1> QED BY <1>7, <1>12, <1>13, <1>17 DEF MirrorInv

LEMMA SwitchLoadStep ==
    ASSUME MirrorInv, TypeOK', NEW t \in Thread, SwitchLoad(t)
    PROVE  MirrorInv'
<1>1. /\ job[t].at = "load" /\ commit = 0 /\ UNCHANGED <<commit, cloud, edits>> /\ Stop(t)
  BY DEF SwitchLoad, counts
<1>2. job[t].folder = link.folder /\ job \in [Thread -> Job]
      /\ link.folder \in Folder /\ TypeOK
  BY <1>1, TheOnlyJob DEF MirrorInv
<1>3. Moves(t, "idle", None, None, None)
  BY <1>1, <1>2, StopMoves
<1>4. Alone' /\ Jobs'
  BY <1>1, <1>3, JobsAfterLoad DEF Moves
<1>5. ownRead => OurFile = None
  BY <1>1 DEF MirrorInv, Jobs, Picked, Thread
<1>6. CASE UNCHANGED <<doc, ownRead, dropped>>
           /\ (UNCHANGED link \/ link' = [link EXCEPT !.hash = None])
  <2>1. link'.folder = link.folder /\ link'.hash \in {link.hash, None}
    BY <1>2, <1>6 DEF TypeOK
  <2>2. Numbered'
    BY <1>1, <1>6 DEF MirrorInv, Numbered
  <2>3. Remembered'
    BY <1>1, <1>6, <2>1 DEF MirrorInv, Remembered, Covers, Outdated, OurFile
  <2>4. DiscardedStaysDiscarded'
    BY <1>1, <1>6, <2>1
       DEF MirrorInv, DiscardedStaysDiscarded, Published, EditsOf, Readable, Present
  <2> QED BY <1>4, <2>2, <2>3, <2>4 DEF MirrorInv
<1>7. ASSUME NEW ds \in SUBSET Readable(link.folder),
             doc' \in Digest, doc'.edits = EditsOf(link.folder, ds),
             link' = [link EXCEPT !.hash = doc'], dropped' = doc.edits \ doc'.edits,
             ownRead' => ownRead \/ Phone \in ds
      PROVE  MirrorInv'
  <2>1. link'.folder = link.folder /\ link'.hash = doc'
    BY <1>2, <1>7 DEF TypeOK
  <2>2. \A e \in doc'.edits : Has(cloud, link.folder, e)
    <3>1. \A e \in doc'.edits : e \in Published(link.folder)
      BY <1>2, <1>7, EditsTogether
    <3> QED BY <3>1, InPublished
  <2>3. Numbered'
    <3>1. \A e \in doc'.edits : e \in Edit /\ e <= edits
      <4> SUFFICES ASSUME NEW e \in doc'.edits PROVE e \in Edit /\ e <= edits
        OBVIOUS
      <4>1. PICK d \in Device : Legible(cloud[link.folder].file[d])
                                /\ e \in cloud[link.folder].file[d].edits
        BY <2>2 DEF Has
      <4>2. e \in Edit
        BY <1>2, <4>1, FilesAreFiles, DigestEdits
      <4> QED BY <1>2, <4>1, <4>2 DEF MirrorInv, Numbered
    <3>2. commit = 0 /\ 0 \notin Edit
      BY <1>1 DEF Edit
    <3> QED BY <1>1, <1>7, <3>1, <3>2 DEF MirrorInv, Numbered
  <2>4. Remembered'
    <3>1. Covers(link.hash)'
      BY <1>1, <2>1, <2>2 DEF Covers
    <3>2. ownRead' /\ Legible(OurFile') => OurFile'.edits \subseteq doc'.edits
      BY <1>1, <1>2, <1>5, <1>7, <2>1, EditsTogether DEF OurFile, Legible
    <3> QED BY <2>1, <3>1, <3>2 DEF Remembered
  <2>5. DiscardedStaysDiscarded'
    BY <1>7 DEF DiscardedStaysDiscarded
  <2> QED BY <1>4, <2>3, <2>4, <2>5 DEF MirrorInv
<1> QED BY <1>2, <1>6, <1>7, SwitchLoadDoes

\* Overwriting our replica loses nothing that the document does not have.
LEMMA PushWriteStep ==
    ASSUME MirrorInv, TypeOK', NEW t \in Thread, PushWrite(t)
    PROVE  /\ MirrorInv'
           /\ \A f \in Folder : \A e : Has(cloud, f, e) /\ ~Has(cloud', f, e) =>
                f = link.folder /\ (ownRead => e \in doc.edits)
<1>1. UNCHANGED <<doc, commit, link, edits, ownRead, dropped>> /\ job[t].at = "write"
  BY DEF PushWrite, seen, counts, device
<1>2. job[t].folder = link.folder /\ job \in [Thread -> Job] /\ job[t] \in Job
      /\ Held(job[t]) /\ link.folder \in Folder /\ TypeOK
      /\ \A u \in Thread \ {t} : job[u].at = "idle"
  BY <1>1, TheOnlyJob DEF MirrorInv
<1>3. CASE Stop(t) /\ UNCHANGED cloud
  BY <1>1, <1>3, StoppedStep
<1>4. CASE /\ cloud' = [cloud EXCEPT ![job[t].folder].file[Phone] = job[t].bytes]
           /\ job' = [job EXCEPT ![t].at = "mirror", ![t].bytes = None]
  <2> DEFINE j == job[t]
             f == link.folder
  <2>1. /\ \A g \in Folder, d \in Device : (g # f \/ d # Phone) =>
             cloud'[g].file[d] = cloud[g].file[d]
        /\ cloud'[f].file[Phone] = j.bytes /\ Phone \in Device
    BY <1>2, <1>4 DEF TypeOK, Device
  <2>2. OurFile' = j.bytes /\ OurFile = cloud[f].file[Phone]
    BY <1>1, <2>1 DEF OurFile
  <2>3. InBytes(j) /\ j.hash # None /\ j.hash.edits \subseteq doc.edits
    BY <1>1, <1>2 DEF Held
  <2>4. j.bytes \in Digest \/ j.bytes = Torn
    BY <2>3 DEF InBytes
  <2>5. Legible(j.bytes) => j.bytes \in Digest /\ j.bytes.edits \subseteq doc.edits
    BY <2>3, TornIsNoDocument DEF InBytes, Legible
  <2>6. \A g \in Folder : \A e : Has(cloud, g, e) /\ ~Has(cloud', g, e) =>
          g = f /\ Legible(OurFile) /\ e \in OurFile.edits
    BY <2>1, <2>2 DEF Has
  <2>7. \A g \in Folder : \A e : Has(cloud, g, e) /\ ~Has(cloud', g, e) =>
          g = f /\ (ownRead => e \in doc.edits)
    BY <1>2, <2>6, MirrorAssumption DEF MirrorInv, Remembered
  <2>8. Numbered'
    BY <1>1, <2>1, <2>5 DEF MirrorInv, Numbered
  <2>9. j.bytes \in Digest => \A e \in j.bytes.edits : Has(cloud', f, e)
    BY <2>1, TornIsNoDocument DEF Has, Legible
  <2>10. Covers(j.hash)' /\ (link.hash # None => Covers(link.hash)')
    <3>1. CASE j.bytes \in Digest
      <4>1. j.hash.edits \subseteq j.bytes.edits
            /\ (link.hash # None => link.hash.edits \subseteq j.bytes.edits)
        BY <2>3, <3>1, TornIsNoDocument DEF InBytes
      <4>2. /\ \A e \in j.hash.edits : Has(cloud', f, e)
            /\ link.hash # None => \A e \in link.hash.edits : Has(cloud', f, e)
        BY <2>9, <3>1, <4>1
      <4>3. j'.hash = j.hash
        BY <1>2, <1>4 DEF Job
      <4> QED BY <1>1, <4>2, <4>3 DEF Covers
    <3>2. CASE j.bytes = Torn
      <4>1. Outdated(j.hash) /\ (link.hash # None => Outdated(link.hash))
        BY <2>3, <3>2, TornIsNoDocument DEF InBytes
      <4>2. j'.hash = j.hash
        BY <1>2, <1>4 DEF Job
      <4> QED BY <1>1, <4>1, <4>2 DEF Covers, Outdated
    <3> QED BY <2>4, <3>1, <3>2
  <2>11. Remembered'
    BY <1>1, <2>2, <2>5, <2>10 DEF MirrorInv, Remembered
  <2>12. DiscardedStaysDiscarded'
    <3> SUFFICES ASSUME j.bytes # Torn, NEW e \in doc.edits \cap dropped
                 PROVE  Has(cloud', f, e)
      BY <1>1, <2>2, InPublished DEF DiscardedStaysDiscarded, OurFile, Published, EditsOf,
         Readable, Present, Has, Legible
    <3>1. j.bytes \in Digest /\ doc.edits \cap dropped \subseteq j.bytes.edits
      BY <2>3 DEF InBytes
    <3> QED BY <2>9, <3>1
  <2>13. /\ job'[t].at = "mirror" /\ job'[t].folder = f /\ job'[t].hash = j.hash
         /\ \A u \in Thread \ {t} : job'[u] = job[u]
    BY <1>2, <1>4 DEF Job
  <2>14. Alone' /\ Picked'
    BY <1>1, <1>2, <2>13 DEF MirrorInv, Alone, Jobs, Picked, Busy, Thread
  <2>15. \A u \in Thread : Held(job[u])'
    BY <1>1, <1>2, <2>3, <2>10, <2>13 DEF Held
  <2> QED BY <2>7, <2>8, <2>11, <2>12, <2>14, <2>15 DEF MirrorInv, Jobs
<1> QED BY <1>3, <1>4 DEF PushWrite

LEMMA PushMirrorStep ==
    ASSUME MirrorInv, TypeOK', NEW t \in Thread, PushMirror(t)
    PROVE  /\ MirrorInv'
           /\ \A f \in Folder : \A e : Has(cloud, f, e) => Has(cloud', f, e)
<1>1. /\ UNCHANGED <<doc, commit, edits, ownRead, dropped>> /\ job[t].at = "mirror" /\ Stop(t)
  BY DEF PushMirror, seen, counts, device
<1>2. job[t].folder = link.folder /\ job \in [Thread -> Job] /\ Held(job[t])
      /\ link.folder \in Folder /\ TypeOK
  BY <1>1, TheOnlyJob DEF MirrorInv
<1>3. PICK sent \in SUBSET blobs, all \in BOOLEAN :
         /\ cloud' = [cloud EXCEPT ![job[t].folder].blobs = @ \cup sent,
                                   ![job[t].folder].log = IF all /\ log # {} THEN log ELSE @]
         /\ link' = IF all /\ job[t].hash # None THEN [link EXCEPT !.hash = job[t].hash] ELSE link
  BY DEF PushMirror
<1>4. \A f \in Folder, d \in Device : cloud'[f].file[d] = cloud[f].file[d]
  BY <1>2, <1>3 DEF TypeOK
<1>5. \A f \in Folder : \A e : Has(cloud', f, e) <=> Has(cloud, f, e)
  BY <1>4 DEF Has
<1>6. /\ link'.folder = link.folder
      /\ \/ link'.hash = link.hash
         \/ job[t].hash # None /\ link'.hash = job[t].hash
  BY <1>2, <1>3 DEF TypeOK
<1>7. job[t].hash # None => job[t].hash.edits \subseteq doc.edits /\ Covers(job[t].hash)
  BY <1>1, <1>2 DEF Held
<1>8. OurFile' = OurFile
  BY <1>2, <1>4, <1>6 DEF OurFile, Device
<1>9. Numbered'
  BY <1>1, <1>4 DEF MirrorInv, Numbered
<1>10. link'.hash # None => link'.hash.edits \subseteq doc'.edits /\ Covers(link.hash)'
  BY <1>1, <1>2, <1>5, <1>6, <1>7 DEF MirrorInv, Remembered, Covers, Outdated
<1>11. Remembered'
  BY <1>1, <1>6, <1>8, <1>10 DEF MirrorInv, Remembered
<1>12. DiscardedStaysDiscarded'
  <2> SUFFICES ASSUME OurFile # Torn, NEW e \in doc.edits \cap dropped
               PROVE  Has(cloud', link.folder, e)
    BY <1>1, <1>6, <1>8, InPublished DEF DiscardedStaysDiscarded, OurFile, Published, EditsOf,
       Readable, Present, Has, Legible
  <2> QED BY <1>2, <1>5, InPublished, MirrorAssumption
          DEF MirrorInv, DiscardedStaysDiscarded, OurFile
<1>13. Moves(t, "idle", None, None, None)
  BY <1>1, <1>2, StopMoves
<1>14. Alone' /\ Jobs'
  BY <1>1, <1>13, JobsAfterLoad DEF Moves
<1> QED BY <1>5, <1>9, <1>11, <1>12, <1>14 DEF MirrorInv
-----------------------------------------------------------------------------
(* All steps *)

LEMMA UnchangedStep ==
    ASSUME MirrorInv, TypeOK',
           UNCHANGED <<doc, commit, link, job, cloud, edits, ownRead, dropped>>
    PROVE  MirrorInv'
<1>1. Numbered' /\ Alone' /\ Remembered'
  BY DEF MirrorInv, Numbered, Alone, Busy, Remembered, Covers, Outdated, OurFile
<1>2. Jobs'
  BY DEF MirrorInv, Jobs, Picked, Held, InBytes, Covers, Outdated, OurFile
<1>3. DiscardedStaysDiscarded'
  BY DEF MirrorInv, DiscardedStaysDiscarded, Published, EditsOf, Readable, Present
<1> QED BY <1>1, <1>2, <1>3 DEF MirrorInv

LEMMA MirrorStep == ~PickBeside /\ MirrorInv /\ [Next]_vars => MirrorInv'
<1> SUFFICES ASSUME ~PickBeside, MirrorInv, [Next]_vars PROVE MirrorInv'
  OBVIOUS
<1>0. TypeOK'
  BY TypeStep DEF MirrorInv, Jobs, Held, Linked
<1>1. CASE BeginWrite BY <1>0, <1>1, BeginWriteStep
<1>2. CASE EndWrite BY <1>0, <1>2, EndWriteStep
<1>3. CASE SyncNow \/ PushNow BY <1>0, <1>3, SyncStep
<1>4. CASE Clear BY <1>0, <1>4, ClearStep
<1>5. CASE Crash BY <1>0, <1>5, CrashStep
<1>6. CASE Settle BY <1>0, <1>6, UnchangedStep DEF Settle, device, seen
<1>7. CASE \E f \in Folder : Pick(f) BY <1>0, <1>7, PickStep
<1>8. CASE \E f \in Folder, p \in Peer : PeerWrites(f, p) BY <1>0, <1>8, PeerWritesStep
<1>9. ASSUME NEW t \in Thread, JobStep(t) PROVE MirrorInv'
  <2>1. CASE FirstLink(t) BY <1>0, <2>1, FirstLinkStep
  <2>2. CASE ListingFails(t)
    BY <1>0, <2>2, StoppedStep DEF ListingFails, seen, counts, device
  <2>3. CASE PullFiles(t) \/ SwitchFiles(t) BY <1>0, <2>3, FilesStep
  <2>4. CASE PullMerge(t) BY <1>0, <2>4, PullMergeStep
  <2>5. CASE PushHash(t) BY <1>0, <2>5, PushHashStep
  <2>6. CASE PushRead(t) BY <1>0, <2>6, PushReadStep
  <2>7. CASE PushWrite(t) BY <1>0, <2>7, PushWriteStep
  <2>8. CASE PushMirror(t) BY <1>0, <2>8, PushMirrorStep
  <2>9. CASE SwitchLoad(t) BY <1>0, <2>9, SwitchLoadStep
  <2> QED BY <1>9, <2>1, <2>2, <2>3, <2>4, <2>5, <2>6, <2>7, <2>8, <2>9 DEF JobStep
<1>10. CASE UNCHANGED vars
  BY <1>0, <1>10, UnchangedStep DEF vars, device, counts, seen
<1> QED BY <1>1, <1>2, <1>3, <1>4, <1>5, <1>6, <1>7, <1>8, <1>9, <1>10 DEF Next

\* Every reachable state of a phone that loads picked folders with nothing beside it.
LEMMA MirrorInvariance == ~PickBeside => (Spec => []MirrorInv)
<1> SUFFICES ASSUME ~PickBeside PROVE Spec => []MirrorInv
  OBVIOUS
<1>1. MirrorInv /\ [Next]_vars => MirrorInv'
  BY MirrorStep
<1> QED BY <1>1, MirrorStarts, PTL DEF Spec

\* Every reachable state of the mirror has its type: no hash is kept without a folder
\* (saf_clear_folder, saf_pick_folder), and a job has one.
THEOREM MirrorTypeCorrect == ~PickBeside => (Spec => []TypeOK)
<1> SUFFICES ASSUME ~PickBeside PROVE Spec => []TypeOK
  OBVIOUS
<1>1. MirrorInv => TypeOK
  BY DEF MirrorInv
<1> QED BY <1>1, MirrorInvariance, PTL

\* A first link never overwrites a replica of ours (first_link_action in safsync.rs).
THEOREM SeedIsSafe == ~PickBeside => (Spec => []SeedOverwritesNothing)
<1> SUFFICES ASSUME ~PickBeside PROVE Spec => []SeedOverwritesNothing
  OBVIOUS
<1>1. MirrorInv => SeedOverwritesNothing
  BY DEF MirrorInv, Jobs, Picked, Held, SeedOverwritesNothing, OurFile, Thread
<1> QED BY <1>1, MirrorInvariance, PTL

\* A push that is suppressed withholds nothing (push_out and last_synced_hash).
THEOREM SuppressedPushIsSafe == ~PickBeside => (Spec => []SyncedMeansPublished)
<1> SUFFICES ASSUME ~PickBeside PROVE Spec => []SyncedMeansPublished
  OBVIOUS
<1>1. MirrorInv => SyncedMeansPublished
  <2> SUFFICES ASSUME MirrorInv, link.folder \in Folder, link.hash = doc, commit = 0,
                      NEW e \in doc.edits
               PROVE  e \in Published(link.folder)
    BY DEF SyncedMeansPublished, ContentHash
  <2>1. doc # None
    BY TornIsNoDocument DEF MirrorInv, TypeOK
  <2>2. ~Outdated(link.hash)
    BY DEF Outdated, Edit
  <2>3. \A x \in doc.edits : Has(cloud, link.folder, x)
    BY <2>1, <2>2 DEF MirrorInv, Remembered, Covers
  <2> QED BY <2>3, InPublished
<1> QED BY <1>1, MirrorInvariance, PTL

\* What a switch discarded stays away (load_replacing_local in store.rs).
THEOREM SwitchDiscards == ~PickBeside => (Spec => []DiscardedStaysDiscarded)
<1> SUFFICES ASSUME ~PickBeside PROVE Spec => []DiscardedStaysDiscarded
  OBVIOUS
<1>1. MirrorInv => DiscardedStaysDiscarded
  BY DEF MirrorInv
<1> QED BY <1>1, MirrorInvariance, PTL

\* Only a push takes edits out of a folder, and only ones that the document has.
LEMMA OnlyAPushOverwrites ==
    ASSUME ~PickBeside, MirrorInv, [Next]_vars, NEW f \in Folder, NEW e,
           Has(cloud, f, e), ~Has(cloud', f, e)
    PROVE  /\ f = link'.folder /\ ownRead' = ownRead /\ doc' = doc
           /\ ownRead => e \in doc.edits
<1>0. TypeOK'
  BY TypeStep DEF MirrorInv, Jobs, Held, Linked
<1>1. cloud' # cloud
  OBVIOUS
<1>2. PICK t \in Thread : PushWrite(t)
  <2>1. CASE \E g \in Folder, p \in Peer : PeerWrites(g, p)
    BY <1>0, <2>1, PeerWritesStep
  <2>2. CASE \E t \in Thread : PushMirror(t)
    BY <1>0, <2>2, PushMirrorStep
  <2> QED BY <1>1, <2>1, <2>2
          DEF Next, vars, BeginWrite, EndWrite, SyncNow, PushNow, Clear, Crash, Settle, Pick,
              JobStep, FirstLink, ListingFails, PullFiles, PullMerge, PushHash, PushRead,
              SwitchFiles, SwitchLoad, device
<1>3. f = link.folder /\ (ownRead => e \in doc.edits)
  BY <1>0, <1>2, PushWriteStep
<1> QED BY <1>2, <1>3 DEF PushWrite, seen, device

\* No step takes an edit out of a folder unless the phone, linked to it, still has it
\* (push_out and writable_replica_name in safsync.rs).
THEOREM NothingLeavesTheFolder == ~PickBeside => (Spec => PublishedStaysPublished)
<1> SUFFICES ASSUME ~PickBeside PROVE Spec => PublishedStaysPublished
  OBVIOUS
<1>1. MirrorInv /\ [Next]_vars =>
        [\A f \in Folder :
           ownRead' => Published(f) \ Published(f)' \subseteq
                         IF link'.folder = f THEN doc'.edits ELSE {}]_vars
  <2> SUFFICES ASSUME MirrorInv, [Next]_vars, NEW f \in Folder, ownRead',
                      NEW e \in Published(f) \ Published(f)'
               PROVE  link'.folder = f /\ e \in doc'.edits
    OBVIOUS
  <2>1. Has(cloud, f, e) /\ ~Has(cloud', f, e)
    BY InPublished
  <2> QED BY <2>1, OnlyAPushOverwrites
<1> QED BY <1>1, MirrorInvariance, PTL DEF Spec, PublishedStaysPublished
=============================================================================
