------------------------------ MODULE DataFolder ------------------------------
(***************************************************************************)
(* Where the desktop keeps its document: the default folder or a cloud     *)
(* folder that the user chose, which may not be mounted yet when the app   *)
(* starts (config.rs, lib.rs, the opening and moving half of store.rs),    *)
(* and the attachment blobs beside the document (commands.rs).             *)
(*                                                                         *)
(* Commands run one at a time on the main thread, in the steps between     *)
(* which a crash or another thread matters; the watcher's poll merges what *)
(* peers put in the folder and collects blobs; the MCP server writes       *)
(* whenever the store's lock is free.  How a write becomes durable and who *)
(* waits for whom is in ReplicaStore, and how versions of one task merge   *)
(* in ReplicaFleet: here a document is a set of edits and, for each        *)
(* attachment, the path of its blob.  Each attachment belongs to a task of *)
(* its own.  The history sidecar, which moves with the blobs, is left out. *)
(***************************************************************************)
EXTENDS Integers, FiniteSets

CONSTANTS
    Default,        \* the app's own folder, which is always there
    Chosen,         \* the cloud folder, which the peer shares
    File,           \* attachments
    Old,            \* those made before attachments had a subfolder
    PeerHasOld,     \* the peer's replica may refer to them
    Reselect,       \* the user may choose the folder that the store is in
    MaxEdit, MaxMoves, MaxCrashes,  \* bounds on edits, folder changes, crashes
    MaxId,          \* bound on the device ids this device takes
    Gone, None

ASSUME FolderAssumption ==
    /\ Default # Chosen /\ Old \subseteq File /\ {PeerHasOld, Reselect} \subseteq BOOLEAN
    /\ {MaxEdit, MaxMoves, MaxCrashes} \subseteq Nat /\ MaxId \in Nat \ {0}

VARIABLES
    conf,       \* the running app's Config, None when it does not run
    saved,      \* config.json
    store,      \* AppState: folder, document, whether it is the pending stand-in
    disk,       \* the folders: replicas by name, attachment blobs
    mounted,    \* the chosen folder is there
    cmd,        \* the main thread's command
    gc,         \* the collections under way
    edits, moves, crashes, ids,
    \* observations
    kept,       \* the edits acknowledged by a store on disk, less those a switch discarded
    held,       \* the edits of the document that a store on disk had last
    slip,       \* a folder change was cut off between the move and the saved setting
    lost        \* the attachments lost in a way the code does not guard against

vars == <<conf, saved, store, disk, mounted, cmd, gc, edits, moves, crashes, ids, kept, held, slip, lost>>

settings == <<conf, saved, ids>>
counts   == <<edits, moves, crashes>>
seen     == <<kept, held, slip, lost>>

Folder == {Default, Chosen}
Edit   == 1..MaxEdit
Id     == 1..MaxId

\* Replicas by the order of their names; tasks.json is read when a folder is opened.
Peer   == 0
Legacy == MaxId + 1
Name   == Id \cup {Peer, Legacy}

\* Where a blob is: beside the replicas, or in the subfolder of a device.
Flat  == MaxId + 1
Place == Id \cup {Peer, Flat}

Document == [edits : SUBSET Edit, path : [File -> Place \cup {Gone, None}]]
Empty == [edits |-> {}, path |-> [x \in File |-> None]]

ASSUME MarkAssumption ==
    /\ Gone # None /\ {Gone, None} \cap Place = {}
    /\ None \notin Folder \cup Document \cup [folder : Folder, id : Id]

Thread == {"main", "poll"}

Idle == [at |-> "idle", folder |-> None, from |-> None, move |-> FALSE,
         doc |-> None, files |-> {}]
NoGc == [at |-> "idle", doomed |-> {}]

TypeOK ==
    /\ {conf, saved} \subseteq [folder : Folder, id : Id] \cup {None}
    /\ store \in [folder : Folder, id : Id, doc : Document, pending : BOOLEAN, stale : BOOLEAN]
    /\ disk \in [Folder -> [replica : [Name -> Document \cup {None}],
                            blobs : SUBSET (File \X Place)]]
    /\ cmd \in [at : {"idle", "migrate", "rewrite", "attach", "move", "clean", "save"},
                folder : Folder \cup {None}, from : Folder \cup {None}, move : BOOLEAN,
                doc : Document \cup {None}, files : SUBSET File]
    /\ gc \in [Thread -> [at : {"idle", "scan", "unlink"}, doomed : SUBSET (File \X Place)]]
    /\ mounted \in BOOLEAN /\ slip \in BOOLEAN /\ lost \subseteq File
    /\ edits \in 0..MaxEdit /\ moves \in 0..MaxMoves /\ crashes \in 0..MaxCrashes
    /\ ids \in 0..MaxId /\ kept \subseteq Edit /\ held \subseteq Edit
-----------------------------------------------------------------------------
(* Merging and reading folders *)

HasData(d) == d.edits # {} \/ \E x \in File : d.path[x] # None

\* merge_documents of replicas in the order of their names and then our document, if it
\* takes part: edits and attachments unite, deletions hold, and of two copies of a task
\* with the same stamp the first one counts.
FirstPath(ds, own, x) ==
    LET has == {n \in DOMAIN ds : ds[n].path[x] # None}
    IN  CASE \/ \E n \in has : ds[n].path[x] = Gone
             \/ \E d \in own : d.path[x] = Gone -> Gone
          [] OTHER -> IF has # {}
                        THEN ds[CHOOSE n \in has : \A m \in has : n <= m].path[x]
                        ELSE IF own = {} THEN None ELSE (CHOOSE d \in own : TRUE).path[x]

Merged(ds, own) ==
    [edits |-> (UNION {ds[n].edits : n \in DOMAIN ds}) \cup (UNION {d.edits : d \in own}),
     path  |-> [x \in File |-> FirstPath(ds, own, x)]]

\* The other replicas in a folder: of peers, and those with the single file of old versions.
Peers(f, id)  == {n \in Name \ {id, Legacy} : disk[f].replica[n] # None}
Others(f, id) == Peers(f, id) \cup {n \in {Legacy} : disk[f].replica[n] # None}

Replicas(f, ns) == [n \in ns |-> disk[f].replica[n]]

Own(f, id) == {d \in {disk[f].replica[id]} : d # None /\ HasData(d)}

\* AppState::open: our replica takes part if it holds something or is alone.
OpenDoc(f, id) ==
    LET own == Own(f, id)
        old == disk[f].replica[id]
    IN  Merged(Replicas(f, Others(f, id)),
               IF own # {} \/ Others(f, id) # {} THEN own ELSE {IF old = None THEN Empty ELSE old})

\* Mutant of Target: our own replica in the target is overlooked.
TargetPeers(f, id) ==
    IF Others(f, id) = {} THEN None ELSE Merged(Replicas(f, Others(f, id)), {})

\* repoint: what the target folder holds already, None if it is empty.
Target(f, id) ==
    IF Others(f, id) = {} /\ Own(f, id) = {} THEN None
    ELSE Merged(Replicas(f, Others(f, id)), Own(f, id))

Refs(d) == {<<x, d.path[x]>> : x \in {y \in File : d.path[y] \in Place}}

Running == conf # None
SetUp   == cmd.at \in {"migrate", "rewrite"}
Ready   == Running /\ ~SetUp
Free    == cmd.at # "clean"         \* the store's lock
MainFree == Ready /\ cmd.at = "idle" /\ gc["main"].at = "idle"

\* The document becomes d, on disk too unless the store is the stand-in.
Commit(d) ==
    /\ store' = [store EXCEPT !.doc = d]
    /\ disk' = IF store.pending THEN disk
               ELSE [disk EXCEPT ![store.folder].replica[store.id] = d]
    /\ held' = IF store.pending THEN held ELSE d.edits

Init ==
    /\ conf = None /\ cmd = Idle /\ gc = [t \in Thread |-> NoGc]
    /\ store = [folder |-> Default, id |-> 1, doc |-> Empty, pending |-> TRUE, stale |-> FALSE]
    /\ mounted \in BOOLEAN
    /\ edits = 0 /\ moves = 0 /\ crashes = 0
    /\ kept = {} /\ held = {} /\ slip = TRUE /\ lost = {}
    \* a build with per-device replicas ran before, or one with a single tasks.json
    /\ LET old   == [Empty EXCEPT !.path = [x \in File |-> IF x \in Old THEN Flat ELSE None]]
           empty == [replica |-> [n \in Name |-> None], blobs |-> {}]
       IN  \/ /\ saved = [folder |-> Chosen, id |-> 1] /\ ids = 1
              /\ disk = [f \in Folder |-> IF f = Default THEN empty ELSE
                   [replica |-> [n \in Name |-> IF n = 1 \/ (n = Peer /\ PeerHasOld) THEN old ELSE None],
                    blobs |-> Old \X {Flat}]]
           \/ /\ saved = None /\ ids = 0
              /\ disk = [f \in Folder |-> IF f = Default THEN empty ELSE
                   [empty EXCEPT !.replica[Legacy] = Empty]]
-----------------------------------------------------------------------------
(* Starting *)

\* AppState::open at f: the merge is persisted and published.
Open(f, id) ==
    /\ store' = [folder |-> f, id |-> id, doc |-> OpenDoc(f, id), pending |-> FALSE, stale |-> FALSE]
    /\ disk' = [disk EXCEPT ![f].replica[id] = OpenDoc(f, id)]

\* The document found at a restart is the one there was, unless a folder change slipped.
Reopened == held' = (IF slip THEN store'.doc.edits ELSE held) /\ slip' = FALSE

\* Mutant of LoadConfig: a fresh install takes the id before its own.
LoadConfigSameId ==
    IF saved # None
      THEN conf' = saved /\ UNCHANGED <<saved, ids>>
      ELSE /\ ids < MaxId /\ ids' = ids + 1
           /\ conf' = [folder |-> Chosen, id |-> ids]
           /\ saved' \in IF mounted THEN {saved, conf'} ELSE {saved}

\* load_or_migrate: config.json, or a new device id and the folder named by the old
\* data_location.json, which is not saved while that folder is missing.
LoadConfig ==
    IF saved # None
      THEN conf' = saved /\ UNCHANGED <<saved, ids>>
      ELSE /\ ids < MaxId /\ ids' = ids + 1
           /\ conf' = [folder |-> Chosen, id |-> ids']
           /\ saved' \in IF mounted THEN {saved, conf'} ELSE {saved}

\* Mutant of Boot: a folder that is missing is created.
BootAnyway ==
    /\ ~Running /\ LoadConfig
    /\ Open(conf'.folder, conf'.id) /\ Reopened
    /\ cmd' = [Idle EXCEPT !.at = "migrate"]
    /\ UNCHANGED <<mounted, gc, counts, kept, lost>>

\* setup: a configured folder that is missing gives a stand-in store in memory.
Boot ==
    /\ ~Running /\ LoadConfig
    /\ IF conf'.folder = Chosen /\ ~mounted
         THEN /\ store' = [folder |-> Chosen, id |-> conf'.id, doc |-> Empty,
                           pending |-> TRUE, stale |-> FALSE]
              /\ UNCHANGED <<disk, cmd, held, slip>>
         ELSE /\ Open(conf'.folder, conf'.id) /\ Reopened
              /\ cmd' = [Idle EXCEPT !.at = "migrate"]
    /\ UNCHANGED <<mounted, gc, counts, kept, lost>>

\* migrate_attachments_to_subdir: the blobs that can be are moved first ...
Migrate ==
    /\ cmd.at = "migrate"
    /\ LET flat == {x \in File : store.doc.path[x] = Flat /\ <<x, Flat>> \in disk[store.folder].blobs}
       IN  \E moved \in SUBSET flat :
             /\ disk' = [disk EXCEPT ![store.folder].blobs =
                           (@ \ (moved \X {Flat})) \cup (moved \X {store.id})]
             /\ cmd' = IF moved = {} THEN Idle ELSE [cmd EXCEPT !.at = "rewrite", !.files = moved]
    /\ UNCHANGED <<settings, store, mounted, gc, counts, seen>>

\* ... and then the paths are rewritten, without new stamps.
Rewrite ==
    /\ cmd.at = "rewrite"
    /\ cmd' = Idle
    /\ \/ /\ Commit([store.doc EXCEPT !.path =
                       [x \in File |-> IF x \in cmd.files THEN store.id ELSE @[x]]])
          /\ UNCHANGED lost
       \/ /\ lost' = lost \cup cmd.files
          /\ UNCHANGED <<store, disk, held>>
    /\ UNCHANGED <<settings, mounted, gc, counts, kept, slip>>

\* try_open_data: the stand-in is replaced, with what was written to it, once the folder
\* is there.
RetryOpen ==
    /\ MainFree /\ store.pending /\ mounted
    /\ Open(store.folder, store.id) /\ Reopened
    /\ UNCHANGED <<settings, mounted, cmd, gc, counts, kept, lost>>

\* open_default_store: the user gives up on the folder; the setting is cleared after.
OpenDefault ==
    /\ MainFree /\ store.pending
    /\ Open(Default, conf.id)
    /\ held' = store'.doc.edits /\ slip' = FALSE
    /\ cmd' = [Idle EXCEPT !.at = "save", !.folder = Default]
    /\ UNCHANGED <<settings, mounted, gc, counts, kept, lost>>
-----------------------------------------------------------------------------
(* Changing the folder *)

\* set_data_folder and clear_data_folder: repoint reads the target before it takes the lock.
ChangeFolder(f, move) ==
    /\ MainFree /\ ~store.pending /\ (f = Chosen => mounted)
    /\ f = store.folder => Reselect
    /\ moves < MaxMoves /\ moves' = moves + 1
    /\ cmd' = [Idle EXCEPT !.at = "move", !.folder = f, !.from = store.folder, !.move = move,
                           !.doc = Target(f, store.id)]
    /\ UNCHANGED <<settings, store, disk, mounted, gc, edits, crashes, seen>>

\* What a transfer has to copy: the blobs of our subfolder to an empty folder; to another
\* one, those its document refers to and lacks.
ToCopy(f, d) ==
    LET here == disk[cmd.from].blobs
    IN  (IF cmd.doc = None THEN {b \in here : b[2] = store.id}
         ELSE {b \in here \cap Refs(d) : b[2] # Flat}) \ disk[f].blobs

\* repoint, with the lock: our document seeds an empty target, another target replaces it;
\* then come the blobs, some of which may fail.  If the document cannot be persisted the
\* command ends.
Move ==
    /\ cmd.at = "move"
    /\ \/ /\ cmd' = Idle /\ UNCHANGED <<store, disk, held, lost>>
       \/ LET f == cmd.folder
              d == IF cmd.doc = None THEN store.doc ELSE cmd.doc
          IN  \E sent \in SUBSET ToCopy(f, d) :
                /\ store' = [store EXCEPT !.folder = f, !.doc = d, !.stale = FALSE]
                /\ disk' = [disk EXCEPT ![f] = [replica |-> [@.replica EXCEPT ![store.id] = d],
                                               blobs   |-> @.blobs \cup sent]]
                /\ held' = d.edits
                \* not copied, or about to be collected
                /\ lost' = lost \cup {b[1] : b \in (ToCopy(f, d) \ sent) \cup (Refs(d) \cap gc["poll"].doomed)}
                /\ cmd' = [cmd EXCEPT !.at = "clean", !.move = @ /\ sent = ToCopy(f, d)]
    /\ UNCHANGED <<settings, mounted, gc, counts, kept, slip>>

\* Mutant of Clean: the old subfolder goes whatever was copied.
CleanAlways ==
    /\ cmd.at = "clean"
    /\ cmd' = [cmd EXCEPT !.at = "save"]
    /\ disk' = IF cmd.from = cmd.folder THEN disk
               ELSE [disk EXCEPT ![cmd.from].replica[store.id] = None,
                                 ![cmd.from].blobs = {b \in @ : b[2] # store.id}]
    /\ UNCHANGED <<settings, store, mounted, gc, counts, seen>>

\* remove_own_payload, after a move whose transfers all succeeded: our replica, then our
\* subfolder.
Clean ==
    /\ cmd.at = "clean"
    /\ cmd' = [cmd EXCEPT !.at = "save"]
    /\ IF cmd.move /\ cmd.from # cmd.folder
         THEN LET here == disk[cmd.from].blobs
                  ours == {b \in here : b[2] = store.id}
              IN  \E gone \in {{}, ours} :
                    /\ disk' = [disk EXCEPT ![cmd.from] =
                                   [replica |-> [@.replica EXCEPT ![store.id] = None],
                                    blobs   |-> here \ gone]]
                    /\ kept' = IF cmd.doc = None THEN kept
                               ELSE kept \ (disk[cmd.from].replica[store.id].edits \ store.doc.edits)
                    \* peers that refer to ours keep neither blobs nor tombstones
                    /\ lost' = lost \cup {x \in File : \E n \in Others(cmd.from, store.id) :
                                              disk[cmd.from].replica[n].path[x] = store.id}
         ELSE UNCHANGED <<disk, kept, lost>>
    /\ UNCHANGED <<settings, store, mounted, gc, counts, held, slip>>

\* What the folder has lost that the saved setting still names, after a move.
Stray == IF cmd.at \in {"clean", "save"} /\ cmd.move
           THEN {x \in File : store.doc.path[x] # None} ELSE {}

\* Mutant of Save: the setting changes in memory only.
SaveInMemory ==
    /\ cmd.at = "save" /\ cmd' = Idle
    /\ conf' = [conf EXCEPT !.folder = cmd.folder] /\ slip' = FALSE
    /\ UNCHANGED <<saved, ids, store, disk, mounted, gc, counts, kept, held, lost>>

\* ConfigState::set_folder: the file first, then the memory, or neither.
Save ==
    /\ cmd.at = "save" /\ cmd' = Idle
    /\ \/ saved' = [conf EXCEPT !.folder = cmd.folder] /\ conf' = saved' /\ slip' = FALSE
          /\ UNCHANGED lost
       \/ slip' = TRUE /\ lost' = lost \cup Stray /\ UNCHANGED <<conf, saved>>
    /\ UNCHANGED <<ids, store, disk, mounted, gc, counts, kept, held>>
-----------------------------------------------------------------------------
(* Edits and attachments *)

\* A write of a command or of the MCP server.
Write ==
    /\ Ready /\ Free /\ edits < MaxEdit /\ edits' = edits + 1
    /\ Commit([store.doc EXCEPT !.edits = @ \cup {edits'}])
    /\ kept' = IF store.pending THEN kept ELSE kept \cup {edits'}
    /\ UNCHANGED <<settings, mounted, cmd, gc, moves, crashes, slip, lost>>

\* The documents there are: in memory, read for a folder change, and on disk.
InUse == ({store.doc, cmd.doc} \cup {disk[f].replica[n] : f \in Folder, n \in Name}) \ {None}

\* A new attachment has a new name.
Unused(x) ==
    /\ \A d \in InUse : d.path[x] = None
    /\ \A f \in Folder, p \in Place : <<x, p>> \notin disk[f].blobs

\* attach_task_files, attach_task_bytes and the same for templates, and clone_attachments,
\* within its write: the blob is written ...
Attach(x) ==
    /\ MainFree /\ ~store.pending /\ Unused(x) /\ x \notin Old
    /\ disk' = [disk EXCEPT ![store.folder].blobs = @ \cup {<<x, store.id>>}]
    /\ cmd' = [Idle EXCEPT !.at = "attach", !.files = {x}]
    /\ UNCHANGED <<settings, store, mounted, gc, counts, seen>>

\* ... and then the document refers to it, unless the task is gone by now.
AttachEnd ==
    /\ cmd.at = "attach" /\ cmd' = Idle
    /\ LET b == cmd.files \X {store.id}
       IN  \/ /\ Commit([store.doc EXCEPT !.path =
                           [x \in File |-> IF x \in cmd.files THEN store.id ELSE @[x]]])
              \* a collection found the blob first, here or on the peer
              /\ lost' = IF b \subseteq disk[store.folder].blobs \ UNION {gc[t].doomed : t \in Thread}
                           THEN lost ELSE lost \cup cmd.files
           \/ UNCHANGED <<store, disk, held, lost>>
    /\ UNCHANGED <<settings, mounted, gc, counts, kept, slip>>

\* remove_task_attachment and remove_template_attachment, which end with a collection.
Remove(x) ==
    /\ MainFree /\ ~store.pending /\ store.doc.path[x] \in Place
    /\ Commit([store.doc EXCEPT !.path[x] = Gone])
    /\ gc' = [gc EXCEPT !["main"].at = "scan"]
    /\ UNCHANGED <<settings, mounted, cmd, counts, kept, slip, lost>>

\* reload_replicas_if_changed, then a collection; the poll runs when the folder is there.
Reload ==
    /\ Ready /\ Free /\ ~store.pending /\ store.stale /\ gc["poll"].at = "idle"
    /\ LET d == Merged(Replicas(store.folder, Peers(store.folder, store.id)), {store.doc})
       IN  /\ store' = [store EXCEPT !.doc = d, !.stale = FALSE]
           /\ disk' = [disk EXCEPT ![store.folder].replica[store.id] = d]
           /\ held' = d.edits
    /\ gc' = [gc EXCEPT !["poll"].at = "scan"]
    /\ UNCHANGED <<settings, mounted, cmd, counts, kept, slip, lost>>

\* gc_unreferenced_attachment_blobs: blob by blob, whatever the published document does
\* not refer to; some may stay.
Garbage(f, d) == disk[f].blobs \ Refs(d)

Scan(t) ==
    /\ gc[t].at = "scan"
    /\ \/ gc' = [gc EXCEPT ![t] = NoGc]
       \/ \E b \in Garbage(store.folder, store.doc) :
            gc' = [gc EXCEPT ![t] = [at |-> "unlink", doomed |-> {b}]]
    /\ UNCHANGED <<settings, store, disk, mounted, cmd, counts, seen>>

\* The folder is looked up again for every blob, which may be referred to by now.
Unlink(t) ==
    /\ gc[t].at = "unlink"
    /\ gc' = [gc EXCEPT ![t] = [at |-> "scan", doomed |-> {}]]
    /\ disk' = [disk EXCEPT ![store.folder].blobs = @ \ gc[t].doomed]
    /\ UNCHANGED <<settings, store, mounted, cmd, counts, seen>>
-----------------------------------------------------------------------------
(* The environment *)

\* The peer edits, attaches or removes, having merged what is in the folder or not.
PeerWrites ==
    /\ edits < MaxEdit /\ edits' = edits + 1
    /\ LET mine == disk[Chosen].replica[Peer]
           base == IF mine = None THEN Empty ELSE mine
       IN  \E all \in BOOLEAN, x \in File, p \in {Gone, Peer, None} :
             LET d == IF all THEN Merged(Replicas(Chosen, Peers(Chosen, Peer)), {base}) ELSE base
                 q == d.path[x]
             IN  /\ ~PeerHasOld => \A y \in File : d.path[y] # Flat
                 /\ p = Gone => q \in Place
                 /\ p = Peer => q = None /\ Unused(x) /\ x \notin Old
                 /\ disk' = [disk EXCEPT ![Chosen] =
                      [replica |-> [@.replica EXCEPT ![Peer] =
                                     [edits |-> d.edits \cup {edits'},
                                      path  |-> [d.path EXCEPT ![x] = IF p = None THEN q ELSE p]]],
                       blobs   |-> IF p = Peer THEN @.blobs \cup {<<x, Peer>>} ELSE @.blobs]]
    /\ store' = [store EXCEPT !.stale = @ \/ (store.folder = Chosen /\ ~store.pending)]
    /\ UNCHANGED <<settings, mounted, cmd, gc, moves, crashes, seen>>

\* The peer collects in the folder by its own document, which may not have our edits yet.
PeerCollects ==
    /\ disk[Chosen].replica[Peer] # None
    /\ LET dead == Garbage(Chosen, disk[Chosen].replica[Peer])
       IN  /\ dead # {}
           /\ disk' = [disk EXCEPT ![Chosen].blobs = @ \ dead]
           /\ lost' = lost \cup {b[1] : b \in dead}
    /\ UNCHANGED <<settings, store, mounted, cmd, gc, counts, kept, held, slip>>

Mount ==
    /\ ~mounted /\ mounted' = TRUE
    /\ UNCHANGED <<settings, store, disk, cmd, gc, counts, seen>>

\* The app dies, and the cloud folder may be missing when it starts again.
Crash ==
    /\ Running /\ crashes < MaxCrashes /\ crashes' = crashes + 1
    /\ conf' = None /\ mounted' \in BOOLEAN
    /\ cmd' = Idle /\ gc' = [t \in Thread |-> NoGc]
    /\ slip' = (slip \/ cmd.at \in {"clean", "save"})
    /\ lost' = lost \cup Stray \cup IF cmd.at = "rewrite" THEN cmd.files ELSE {}
    /\ UNCHANGED <<saved, ids, store, disk, edits, moves, kept, held>>

Next ==
    \/ Boot \/ Migrate \/ Rewrite \/ RetryOpen \/ OpenDefault
    \/ \E f \in Folder, move \in BOOLEAN : ChangeFolder(f, move)
    \/ Move \/ Clean \/ Save
    \/ Write \/ Reload \/ AttachEnd
    \/ \E x \in File : Attach(x) \/ Remove(x)
    \/ \E t \in Thread : Scan(t) \/ Unlink(t)
    \/ PeerWrites \/ PeerCollects \/ Mount \/ Crash

Spec == Init /\ [][Next]_vars
-----------------------------------------------------------------------------
(* Properties *)

\* Changing folders, waiting for one, giving up on it, and restarting never take an edit
\* that a store on disk acknowledged out of every folder, unless the user moved to a
\* folder that had data ("the user is switching data source", store.rs, repoint).
NothingVanishes ==
    \A e \in kept : \E f \in Folder, n \in Name :
        disk[f].replica[n] # None /\ e \in disk[f].replica[n].edits

\* The store that a start, a retry or a move ends with shows every edit that was shown
\* before, unless a change of folder was cut off before the setting was saved (Reopened).
ReopenedStoreHolds ==
    Running /\ ~store.pending => held \subseteq store.doc.edits

\* An attachment of this device that the document refers to has its blob in the store's
\* folder.  Known exceptions are in "lost": a failed copy or rewrite, a collection that
\* ran while the blob was being attached or the folder changed, a peer's collection, a
\* move that was cut off before the setting was saved, and one away from peers
\* that refer to it.
AttachmentsResolve ==
    Running /\ ~SetUp /\ ~store.pending =>
        \A x \in File \ lost :
            store.doc.path[x] = store.id => <<x, store.id>> \in disk[store.folder].blobs

\* "A missing/unmovable blob keeps its old flat path and resolves (or gracefully fails)
\* exactly as before" (commands.rs, migrate_attachments_to_subdir), and collection is
\* "safe after local removes and after peer merges": an old attachment that the document
\* refers to has its blob, when the folder does not change and nothing fails.
OldAttachmentsResolve ==
    Running /\ ~SetUp /\ ~store.pending =>
        \A x \in Old \ lost :
            store.doc.path[x] = Flat => \E p \in Place : <<x, p>> \in disk[store.folder].blobs

\* "Don't create it - that would mask the folder not available state" (store.rs,
\* retry_open): a folder that is not mounted is neither created nor written by this
\* device.
MissingFolderUntouched ==
    [][~mounted => \A n \in Id : disk'[Chosen].replica[n] = disk[Chosen].replica[n]]_vars
=============================================================================
