----------------------------- MODULE FolderMirror -----------------------------
(***************************************************************************)
(* The phone's mirror of a shared folder that the user picked (safsync.rs  *)
(* and the saf_* commands of commands.rs).  The phone keeps its document   *)
(* in an app-private replica; a sync pulls the other devices' replicas,    *)
(* attachment blobs and this phone's history sidecar from the folder and   *)
(* merges them, then pushes its own replica, blobs and sidecar, unless the *)
(* document has the hash that was synchronised last.  Picking a folder     *)
(* switches to what it holds, or seeds it.                                 *)
(*                                                                         *)
(* saf_sync_now, saf_push and saf_clear_folder run one at a time on the    *)
(* main thread; saf_pick_folder and the attachment pickers are async and   *)
(* run beside it.  The mirror takes no lock, so a command may commit, a    *)
(* peer may write and the other job may step between any two of its calls. *)
(*                                                                         *)
(* A document is the set of the edits merged into it: the phone's commands *)
(* and which edit wins are in ReplicaStore and ReplicaFleet.  Left out:    *)
(* conflict copies and the peers' sidecars, which are only copied, the     *)
(* single-file folders of old versions, and a crash amid a commit.         *)
(***************************************************************************)
EXTENDS Integers, FiniteSets

CONSTANTS
    Folder,         \* the folders of the provider
    Peer,           \* the other devices that write to them
    Phone,          \* this device's name
    MaxEdit,        \* bound on edits
    Deletions,      \* the edits that delete the attachments there are; the others attach
    MaxPicks,       \* bound on folder picks
    MaxCrashes,     \* bound on crashes
    PickBeside,     \* a picked folder is loaded beside syncs and commands
    None

ASSUME MirrorAssumption ==
    /\ MaxEdit \in Nat /\ Deletions \subseteq 1..MaxEdit
    /\ MaxPicks \in Nat /\ MaxCrashes \in Nat /\ PickBeside \in BOOLEAN
    /\ Phone \notin Peer /\ None \notin Folder

VARIABLES
    doc,        \* the phone's document
    commit,     \* the edit that is being committed to the app-private file, 0 for none
    blobs,      \* the attachment blobs beside it
    log,        \* its history sidecar: the edits recorded in it
    link,       \* SafSyncInner and sync.json: the folder, last_synced_hash
    job,        \* what the two threads are doing
    cloud,      \* the folders
    edits,      \* how many edits there were
    picks, crashes,
    flaky,      \* the provider may fail to list, read or write
    \* observations
    ownRead,    \* since the link was made our replica in the folder was read, if there is one
    dropped     \* the edits that were discarded when the folder was picked

vars == <<doc, commit, blobs, log, link, job, cloud, edits, picks, crashes, flaky, ownRead, dropped>>

device == <<doc, commit, blobs, log>>
counts == <<edits, picks, crashes, flaky>>
seen   == <<ownRead, dropped>>

Edit == 1..MaxEdit
Device == Peer \cup {Phone}
Thread == {"main", "pick"}

\* The arrangement of a document's tombstones, which its serialization shows.
Order == {1, 2}

\* Documents, and their hashes.
Digest == [edits : SUBSET Edit, order : Order]

\* A replica file: a document, or bytes that were read in the middle of a commit.
Torn == [torn |-> TRUE]
File == Digest \cup {Torn, None}

ASSUME NoneAssumption == None \notin Digest \cup {Torn}

\* The steps of a job: the small files and the merge of a pull; the hash, the bytes, the
\* upload and the small files of a push; the decision after a pick, the small files and
\* the load of a switch.
Step == {"idle", "files", "merge", "hash", "read", "write", "mirror",
         "decide", "switch files", "load"}

Job == [at : Step, folder : Folder \cup {None},
        hash : Digest \cup {None}, bytes : File]

Idle == [at |-> "idle", folder |-> None, hash |-> None, bytes |-> None]

TypeOK ==
    /\ doc \in Digest /\ commit \in Edit \cup {0}
    /\ blobs \subseteq Edit /\ log \subseteq Edit
    /\ link \in [folder : Folder \cup {None}, hash : Digest \cup {None}]
    /\ job \in [Thread -> Job]
    /\ cloud \in [Folder -> [file : [Device -> File], blobs : SUBSET Edit, log : SUBSET Edit]]
    /\ edits \in 0..MaxEdit /\ picks \in 0..MaxPicks /\ crashes \in 0..MaxCrashes
    /\ flaky \in BOOLEAN /\ ownRead \in BOOLEAN /\ dropped \subseteq Edit
    /\ link.folder = None => link.hash = None
    /\ \A t \in Thread : job[t].at # "idle" => job[t].folder # None
-----------------------------------------------------------------------------
\* content_hash is a digest of the serialization: it tells arrangements apart.
ContentHash(d) == d

\* Mutant of Orders: one tombstone has two places.
OrdersOfOne(es) == IF es \cap Deletions # {} THEN Order ELSE {1}

\* merge_documents puts the tombstones of one kind in any order once there are two.
Orders(es) == IF Cardinality(es \cap Deletions) > 1 THEN Order ELSE {1}

Merged(es) == {[edits |-> es, order |-> o] : o \in Orders(es)}

\* adopt_synced: the remote document is merged into ours.
Adopt(mine, remote) == Merged(mine.edits \cup remote.edits)

\* last_synced_hash after a pull.
NextHash(last, remote, adopted) == IF adopted THEN ContentHash(remote) ELSE last

\* The attachments a document refers to.
Refs(es) == {e \in es \ Deletions : \A d \in es \cap Deletions : d < e}

\* The replicas in a folder, and those that parse.
Present(f) == {d \in Device : cloud[f].file[d] # None}
Readable(f) == {d \in Present(f) : cloud[f].file[d] # Torn}

EditsOf(f, ds) == UNION {cloud[f].file[d].edits : d \in ds}

\* All that the replicas of a folder hold.
Published(f) == EditsOf(f, Readable(f))

Init ==
    /\ doc = [edits |-> {}, order |-> 1] /\ commit = 0
    /\ blobs = {} /\ log = {}
    /\ link = [folder |-> None, hash |-> None]
    /\ job = [t \in Thread |-> Idle]
    /\ cloud = [f \in Folder |-> [file |-> [d \in Device |-> None], blobs |-> {}, log |-> {}]]
    /\ edits = 0 /\ picks = 0 /\ crashes = 0 /\ flaky = TRUE
    /\ ownRead = TRUE /\ dropped = {}
-----------------------------------------------------------------------------
(* The phone's commands, which commit the app-private replica in two steps *)

Busy(t) == job[t].at # "idle"

\* A sync, a command or a pick may start: removals and syncs share the main thread.
MainFree == ~Busy("main") /\ commit \notin Deletions /\ (Busy("pick") => PickBeside)
PickFree == ~Busy("pick") /\ (Busy("main") \/ commit # 0 => PickBeside)

NextEdit == edits < MaxEdit /\ edits' = edits + 1 /\ UNCHANGED <<picks, crashes, flaky>>

\* Attachments are also added by the async pickers, beside a sync; the blob comes first.
BeginWrite ==
    /\ commit = 0 /\ NextEdit /\ commit' = edits'
    /\ edits' \in Deletions => MainFree
    /\ Busy("pick") => PickBeside
    /\ blobs' = IF edits' \in Deletions THEN blobs ELSE blobs \cup {edits'}
    /\ UNCHANGED <<doc, log, link, job, cloud, seen>>

\* The commit is on disk and published, and recorded in the sidecar; a removal ends with
\* gc_unreferenced_attachment_blobs.
EndWrite ==
    /\ commit # 0 /\ commit' = 0
    /\ doc' = [doc EXCEPT !.edits = @ \cup {commit}]
    /\ log' = log \cup {commit}
    /\ blobs' = IF commit \in Deletions THEN blobs \cap Refs(doc'.edits) ELSE blobs
    /\ UNCHANGED <<link, job, cloud, counts, seen>>

\* fs::read of the replica takes no lock: amid a commit it may find a mixture of pages.
FileBytes == {doc} \cup IF commit = 0 THEN {} ELSE {Torn}
-----------------------------------------------------------------------------
(* Jobs *)

Goto(t, step) == job' = [job EXCEPT ![t].at = step]
Stop(t) == job' = [job EXCEPT ![t] = Idle]

\* saf_run_pull and saf_run_push read the link once, when they start.
Start(t, step, lk) ==
    job' = [job EXCEPT ![t] = IF lk.folder = None THEN Idle
                              ELSE [Idle EXCEPT !.at = step,
                                                !.folder = lk.folder, !.hash = lk.hash]]

\* saf_sync_now, and saf_push a second after a change.
SyncNow ==
    /\ MainFree /\ link.folder # None
    /\ Start("main", "files", link)
    /\ UNCHANGED <<device, link, cloud, counts, seen>>

PushNow ==
    /\ MainFree /\ link.folder # None
    /\ Start("main", "hash", link)
    /\ UNCHANGED <<device, link, cloud, counts, seen>>

\* Mutant of Clear: the hash of the old folder stays.
ClearKeepsHash ==
    /\ MainFree /\ link.folder # None
    /\ link' = [link EXCEPT !.folder = None]
    /\ UNCHANGED <<device, job, cloud, counts, seen>>

\* saf_clear_folder.
Clear ==
    /\ MainFree /\ link.folder # None
    /\ link' = [folder |-> None, hash |-> None]
    /\ UNCHANGED <<device, job, cloud, counts, seen>>

\* saf_pick_folder: the link is replaced, with no hash.
Pick(f) ==
    /\ PickFree /\ picks < MaxPicks /\ picks' = picks + 1
    /\ link' = [folder |-> f, hash |-> None]
    /\ Start("pick", "decide", link')
    /\ ownRead' = (cloud[f].file[Phone] = None) /\ dropped' = {}
    /\ UNCHANGED <<device, cloud, edits, crashes, flaky>>

\* Mutant of FirstLink: a folder that cannot be listed counts as empty.
FirstLinkOptimistic(t) ==
    /\ job[t].at = "decide"
    /\ \/ Present(job[t].folder) # {} /\ Goto(t, "switch files")
       \/ (Present(job[t].folder) = {} \/ flaky) /\ Start(t, "hash", link)
    /\ UNCHANGED <<device, link, cloud, counts, seen>>

\* first_link_action: a folder with any replica is switched to, one known to be empty is
\* seeded, one that cannot be listed is left alone.
FirstLink(t) ==
    /\ job[t].at = "decide"
    /\ \/ Present(job[t].folder) # {} /\ Goto(t, "switch files")
       \/ Present(job[t].folder) = {} /\ Start(t, "hash", link)
       \/ flaky /\ Stop(t)
    /\ UNCHANGED <<device, link, cloud, counts, seen>>

\* A listing failed: the error is shown and the job ends, without a push after a pull.
ListingFails(t) ==
    /\ flaky /\ job[t].at \in {"files", "switch files"}
    /\ Stop(t)
    /\ UNCHANGED <<device, link, cloud, counts, seen>>

\* mirror_remote_attachment_files: what can be read is copied.
PulledBlobs(f) == {got \in SUBSET cloud[f].blobs : flaky \/ got = cloud[f].blobs}

\* pull_in: attachments come in; mirror_remote_history_files leaves our sidecar alone
\* when there is one.
PullFiles(t) ==
    /\ job[t].at = "files"
    /\ \E got \in PulledBlobs(job[t].folder) : blobs' = blobs \cup got
    /\ log' = IF log = {} THEN cloud[job[t].folder].log ELSE log
    /\ Goto(t, "merge")
    /\ UNCHANGED <<doc, commit, link, cloud, counts, seen>>

\* read_merged_remote: the replicas that can be read are merged, the others skipped.
Reads(f) == {ds \in SUBSET Readable(f) : flaky \/ ds = Readable(f)}

\* pull_in's merge: a remote document with a new hash is adopted (adopt_synced, which
\* waits for a write).  An adoption that fails, or a replica that was skipped, is a
\* warning.  The hash advances with an adoption only; blobs nothing refers to go after a
\* clean pull, or the next push brings them back to the folder.  saf_sync_now then goes
\* on to push.
PullMerge(t) ==
    /\ job[t].at = "merge" /\ commit = 0
    /\ \E ds \in Reads(job[t].folder), ok \in {TRUE, ~flaky} :
       \E remote \in Merged(EditsOf(job[t].folder, ds)) :
         LET adopts == ds # {} /\ ContentHash(remote) # job[t].hash
             fails  == adopts /\ ~ok
         IN  /\ doc' \in IF adopts /\ ok THEN Adopt(doc, remote) ELSE {doc}
             /\ link' = [link EXCEPT !.hash = NextHash(job[t].hash, remote, adopts /\ ok)]
             /\ blobs' = IF ds = Present(job[t].folder) /\ ~fails
                           THEN blobs \cap Refs(doc'.edits) ELSE blobs
             /\ ownRead' = (ownRead \/ (Phone \in ds /\ ~fails))
    /\ log' = log \cup (doc'.edits \ doc.edits)
    /\ Start(t, "hash", link')
    /\ UNCHANGED <<commit, cloud, counts, dropped>>
-----------------------------------------------------------------------------
(* Pushing *)

\* Mutant of PushHash: a document that needs no upload ends the push.
PushHashSkipsFiles(t) ==
    /\ job[t].at = "hash"
    /\ LET same == job[t].hash = ContentHash(doc)
       IN  job' = [job EXCEPT ![t] = IF same THEN Idle
                                     ELSE [@ EXCEPT !.at = "read", !.hash = ContentHash(doc)]]
    /\ UNCHANGED <<device, link, cloud, counts, seen>>

\* push_out: a document with the hash that was synchronised last is not written again;
\* attachments and history are, without a new hash.
PushHash(t) ==
    /\ job[t].at = "hash"
    /\ LET same == job[t].hash = ContentHash(doc)
       IN  job' = [job EXCEPT ![t].at = IF same THEN "mirror" ELSE "read",
                              ![t].hash = IF same THEN None ELSE ContentHash(doc)]
    /\ UNCHANGED <<device, link, cloud, counts, seen>>

\* Mutant of PushRead: the hash is taken after the bytes.
PushReadThenHash(t) ==
    /\ job[t].at = "read"
    /\ \E bytes \in FileBytes :
         job' = [job EXCEPT ![t].at = "write", ![t].bytes = bytes,
                            ![t].hash = ContentHash([doc EXCEPT !.edits = @ \cup ({commit} \ {0})])]
    /\ UNCHANGED <<device, link, cloud, counts, seen>>

PushRead(t) ==
    /\ job[t].at = "read"
    /\ \E bytes \in FileBytes :
         job' = [job EXCEPT ![t].at = "write", ![t].bytes = bytes]
    /\ UNCHANGED <<device, link, cloud, counts, seen>>

\* Mutant of PushWrite: any replica of the folder is taken for ours.
PushWriteAnywhere(t) ==
    /\ job[t].at = "write"
    /\ \E d \in Present(job[t].folder) \cup {Phone} :
         cloud' = [cloud EXCEPT ![job[t].folder].file[d] = job[t].bytes]
    /\ job' = [job EXCEPT ![t].at = "mirror", ![t].bytes = None]
    /\ UNCHANGED <<device, link, counts, seen>>

\* writable_replica_name and write_file: our own replica is replaced, or the push ends.
PushWrite(t) ==
    /\ job[t].at = "write"
    /\ \/ /\ cloud' = [cloud EXCEPT ![job[t].folder].file[Phone] = job[t].bytes]
          /\ job' = [job EXCEPT ![t].at = "mirror", ![t].bytes = None]
       \/ flaky /\ Stop(t) /\ UNCHANGED cloud
    /\ UNCHANGED <<device, link, counts, seen>>

\* mirror_local_attachment_files and mirror_local_history_file, which stop at a failure;
\* a push that came to the end and wrote the document keeps its hash.
PushMirror(t) ==
    /\ job[t].at = "mirror"
    /\ \E sent \in SUBSET blobs, all \in BOOLEAN :
         /\ IF all THEN sent = blobs ELSE flaky
         /\ cloud' = [cloud EXCEPT ![job[t].folder].blobs = @ \cup sent,
                                   ![job[t].folder].log = IF all /\ log # {} THEN log ELSE @]
         /\ link' = IF all /\ job[t].hash # None THEN [link EXCEPT !.hash = job[t].hash] ELSE link
    /\ Stop(t)
    /\ UNCHANGED <<device, counts, seen>>
-----------------------------------------------------------------------------
(* Switching to the picked folder *)

\* switch_to_remote: our sidecar becomes the folder's, or goes.
SwitchFiles(t) ==
    /\ job[t].at = "switch files"
    /\ \E got \in PulledBlobs(job[t].folder) : blobs' = blobs \cup got
    /\ log' = cloud[job[t].folder].log
    /\ Goto(t, "load")
    /\ UNCHANGED <<doc, commit, link, cloud, counts, seen>>

\* Mutant of SwitchLoad: the folder is merged into the document.
SwitchMerges(t) ==
    /\ job[t].at = "load" /\ commit = 0
    /\ \E ds \in Reads(job[t].folder) :
         /\ ds # {} /\ doc' \in Merged(doc.edits \cup EditsOf(job[t].folder, ds))
         /\ link' = [link EXCEPT !.hash = ContentHash(doc')]
         /\ dropped' = doc.edits \ EditsOf(job[t].folder, ds)
         /\ ownRead' = (ownRead \/ Phone \in ds)
    /\ Stop(t)
    /\ UNCHANGED <<commit, blobs, log, cloud, counts>>

\* The merged remote replaces the document (load_replacing_local), whatever replicas were
\* skipped, and blobs nothing refers to go.  When none can be read the document stays and
\* the switch counts as done; when the folder cannot be listed, or the document not
\* persisted, it fails.
SwitchLoad(t) ==
    /\ job[t].at = "load" /\ commit = 0
    /\ \/ \E ds \in Reads(job[t].folder) :
            /\ IF ds = {}
                 THEN /\ link' = [link EXCEPT !.hash = None]
                      /\ UNCHANGED <<doc, seen>>
                 ELSE /\ doc' \in Merged(EditsOf(job[t].folder, ds))
                      /\ link' = [link EXCEPT !.hash = ContentHash(doc')]
                      /\ dropped' = doc.edits \ doc'.edits
                      /\ ownRead' = (ownRead \/ Phone \in ds)
            /\ blobs' = blobs \cap Refs(doc'.edits)
       \/ flaky /\ UNCHANGED <<doc, blobs, link, seen>>
    /\ Stop(t)
    /\ UNCHANGED <<commit, log, cloud, counts>>
-----------------------------------------------------------------------------
(* The environment *)

\* Another device edits its document, having merged what is in the folder or not yet,
\* and its replica and blobs arrive.  It collects the blobs it knows of no use for.
PeerWrites(f, p) ==
    /\ NextEdit
    /\ \E got \in {Published(f), EditsOf(f, {p} \cap Readable(f))} :
         LET es == got \cup {edits'}
         IN  cloud' = [cloud EXCEPT
               ![f].file[p] = [edits |-> es, order |-> 1],
               ![f].blobs = IF edits' \in Deletions THEN @ \cap Refs(es) ELSE @ \cup {edits'}]
    /\ UNCHANGED <<device, link, job, seen>>

\* The app dies; at the next start setup restores the link from sync.json.
Crash ==
    /\ commit = 0 /\ crashes < MaxCrashes /\ crashes' = crashes + 1
    /\ \E t \in Thread : Busy(t)
    /\ job' = [t \in Thread |-> Idle]
    /\ UNCHANGED <<device, link, cloud, edits, picks, flaky, seen>>

\* The provider becomes reachable for good.
Settle ==
    /\ flaky /\ flaky' = FALSE
    /\ UNCHANGED <<device, link, job, cloud, edits, picks, crashes, seen>>

JobStep(t) ==
    \/ FirstLink(t) \/ ListingFails(t)
    \/ PullFiles(t) \/ PullMerge(t)
    \/ PushHash(t) \/ PushRead(t) \/ PushWrite(t) \/ PushMirror(t)
    \/ SwitchFiles(t) \/ SwitchLoad(t)

Next ==
    \/ BeginWrite \/ EndWrite \/ SyncNow \/ PushNow \/ Clear \/ Crash \/ Settle
    \/ \E f \in Folder : Pick(f) \/ \E p \in Peer : PeerWrites(f, p)
    \/ \E t \in Thread : JobStep(t)

Spec == Init /\ [][Next]_vars

\* Threads run, a commit ends, the provider settles, and the user returns to the app
\* again and again, which synchronises.
FairSpec ==
    /\ Spec
    /\ WF_vars(EndWrite) /\ WF_vars(Settle) /\ SF_vars(SyncNow)
    /\ \A t \in Thread : WF_vars(JobStep(t))
-----------------------------------------------------------------------------
(* Properties *)

\* No step takes an edit out of a folder unless the phone, linked to it, still has it: a
\* push overwrites this phone's replica, and what is there may be known nowhere else.
\* The code keeps this once our replica in the folder was read, if there is one.
PublishedStaysPublished ==
    [][\A f \in Folder :
          ownRead' => Published(f) \ Published(f)' \subseteq
                        IF link'.folder = f THEN doc'.edits ELSE {}]_vars

\* A first link writes to a folder only when it holds no replica of ours: a folder that
\* cannot be listed is not an empty one ("the only case where writing is safe").
SeedOverwritesNothing ==
    job["pick"].at = "write" => cloud[job["pick"].folder].file[Phone] = None

\* A push is suppressed only when the folder has the whole document: a phone at rest,
\* with no commit under way, whose document has the synchronised hash withholds nothing.
SyncedMeansPublished ==
    \A f \in Folder :
        link.folder = f /\ link.hash = ContentHash(doc) /\ commit = 0 /\ (\A t \in Thread : ~Busy(t))
            => doc.edits \subseteq Published(f)

\* "SWITCH to it: discard the local in-memory document and load the folder's data
\* outright" (commands.rs, saf_pick_folder): what a switch discarded does not come back,
\* unless the folder has it.  A replica of ours that was uploaded amid a commit may hide
\* what the folder had, until the next push.
DiscardedStaysDiscarded ==
    link.folder # None /\ cloud[link.folder].file[Phone] # Torn
        => doc.edits \cap dropped \subseteq Published(link.folder)

\* Once the user makes no more edits and picks, a linked folder and the phone come to hold
\* the same edits and stay so, our sidecar is in the folder, and the attachments are on
\* both sides.
MirrorSettles ==
    <>[](link.folder # None =>
           LET f == link.folder
           IN  /\ doc.edits = Published(f)
               /\ cloud[f].log = log
               /\ Refs(doc.edits) \cap (blobs \cup cloud[f].blobs) \subseteq blobs \cap cloud[f].blobs)

\* A phone with nothing new stops uploading and importing, while its document has at
\* most one tombstone of a kind: with two, every merge may arrange them anew, and the
\* hash takes that for a change.
QuietMirrorRests ==
    <>[](Cardinality(doc.edits \cap Deletions) < 2) => <>[][UNCHANGED <<doc, cloud>>]_vars
=============================================================================
