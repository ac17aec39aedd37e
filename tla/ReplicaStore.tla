----------------------------- MODULE ReplicaStore -----------------------------
(***************************************************************************)
(* One device's store (src-tauri/src/store.rs, AppState): the document in  *)
(* memory, the snapshot readers see, this device's replica file, the peer  *)
(* replicas beside it and the history sidecar, under the writer threads    *)
(* (UI and MCP commands, AppState::write), the two reload threads (watcher *)
(* and poll, reload_replicas_if_changed) and the start-up thread           *)
(* (AppState::open).                                                       *)
(*                                                                         *)
(* Covered: the FIFO `inner' mutex and the `history' mutex taken after it; *)
(* lock contention on the replica file at every attempt, including between *)
(* the commit of the rows and the update of user_version; peers that       *)
(* change, vanish and come back at any moment; crashes at any step.        *)
(* Left out: the pending in-memory store, folder changes, attachment       *)
(* blobs, the Android pull, and stamps that collide.                       *)
(***************************************************************************)
EXTENDS Documents, Sequences, SequencesExt

CONSTANTS
    Writer,     \* threads that call AppState::write
    Poller,     \* threads that call reload_replicas_if_changed
    Main,       \* the thread that opens the store
    Peer,       \* the other devices whose replicas are in the folder
    Shared,     \* entities every replica holds when the model starts
    MaxCrashes, \* bound on crashes
    None        \* no document, no owner

ASSUME ThreadAssumption ==
    /\ Writer \cap Poller = {}
    /\ Main \notin Writer \cup Poller
    /\ None \notin Document \cup Writer \cup Poller \cup {Main}
    /\ Shared \subseteq Id
    /\ MaxCrashes \in Nat

Thread == Writer \cup Poller \cup {Main}

VARIABLES
    \* files
    disk,           \* this device's replica, tasks_<device>.db
    peers,          \* what each peer's replica holds
    readable,       \* the peers whose replica is present and decodes
    history,        \* this device's history sidecar
    \* AppState
    mem,            \* Inner.doc
    ownHash,        \* Inner.own_hash: the document it is the hash of, or None
    peersHash,      \* Inner.peers_hash: the peer documents it is the hash of
    snapshot,       \* the document of the published Snapshot
    queue,          \* threads that hold (the head) or await `inner', in order
    historyOwner,   \* the thread that holds `history', or None
    running,        \* the store is open
    \* threads
    pc,
    spare,          \* the holder's other document: `next' of write, `before' of reload
    lines,          \* per thread: history entries derived and not yet appended
    seen,           \* per poller: the peers' hash taken before locking
    \* the world
    clock,          \* the last stamp given to an edit
    born,           \* the ids that have been given to an entity
    crashes,
    \* observations, which no action reads
    shown,          \* per entity: the newest edit a reader has been shown
    committed,      \* the history entries of changes that became durable
    torn,           \* a persist that reported failure had committed its rows
    forgot,         \* entities whose tombstone start-up left out of the merge
    late,           \* peers whose replica changed since the merge under way collected it
    missed          \* ... at the re-hash of the last merge

files   == <<disk, peers, readable, history>>
world   == <<peers, readable, clock, born>>
observed == <<shown, committed, torn, forgot, late, missed>>
vars == <<disk, peers, readable, history, mem, ownHash, peersHash, snapshot, queue,
          historyOwner, running, pc, spare, lines, seen, clock, born, crashes,
          shown, committed, torn, forgot, late, missed>>

\* history.rs: HistoryEntry, with the edit stamp of its dedup_key and its timestamp.
Line == [id : Id, kind : {"created", "updated", "deleted"}, stamp : Stamp,
         when : Stamp \cup {0}]

PeersSeen == [Peer -> Document \cup {None}]

TypeOK ==
    /\ disk \in Document /\ mem \in Document /\ snapshot \in Document /\ spare \in Document
    /\ peers \in [Peer -> Document]
    /\ readable \in SUBSET Peer
    /\ history \in Seq(Line)
    /\ ownHash \in Document \cup {None}
    /\ peersHash \in PeersSeen
    /\ queue \in Seq(Writer \cup Poller)
    /\ historyOwner \in Thread \cup {None}
    /\ running \in BOOLEAN
    /\ pc \in [Thread -> {"idle", "queued", "hashed", "changed", "persist", "header",
                          "again", "log", "append", "rehash"}]
    /\ lines \in [Thread -> SUBSET Line]
    /\ seen \in [Poller -> PeersSeen]
    /\ clock \in Stamp \cup {0}
    /\ born \in SUBSET Id
    /\ crashes \in 0..MaxCrashes
    /\ shown \in [Id -> Stamp \cup {0}]
    /\ committed \in SUBSET Line
    /\ torn \in BOOLEAN
    /\ forgot \in SUBSET Id
    /\ late \in SUBSET Peer /\ missed \in SUBSET Peer
-----------------------------------------------------------------------------
(* Helpers *)

\* collect_peer_docs: every peer replica that can be read and decoded.
PeerDocs == {peers[p] : p \in readable}

\* peers_content_hash: the hash stands for the documents it was computed from.
PeersContent == [p \in Peer |-> IF p \in readable THEN peers[p] ELSE None]

\* Mutant of EntriesForChange: a deletion is stamped with the row that is gone.
EntriesOfAfter(before, after, ts) ==
    {[id |-> i,
      kind |-> IF ~Live(before, i) THEN "created"
               ELSE IF Live(after, i) THEN "updated" ELSE "deleted",
      stamp |-> after.rows[i],
      when |-> ts] : i \in {j \in Id : before.rows[j] # after.rows[j]}}

\* entries_for_change: one entry for every entity that differs.
EntriesForChange(before, after, ts) ==
    {[id |-> i,
      kind |-> IF ~Live(before, i) THEN "created"
               ELSE IF Live(after, i) THEN "updated" ELSE "deleted",
      stamp |-> IF Live(after, i) THEN after.rows[i] ELSE before.rows[i],
      when |-> ts] : i \in {j \in Id : before.rows[j] # after.rows[j]}}

DedupKey(e) == <<e.id, e.kind, e.stamp>>

\* filter_unseen_entries, against this device's own sidecar.
Unseen(entries) ==
    {e \in entries : \A h \in ToSet(history) : DedupKey(h) # DedupKey(e)}

Holds(t) == queue # <<>> /\ Head(queue) = t

\* Mutant of Arrive: the newest waiter is served next.
ArriveFirst(q, t) == IF q = <<>> THEN <<t>> ELSE <<Head(q), t>> \o Tail(q)

\* A FairMutex serves its waiters in arrival order.
Arrive(q, t) == Append(q, t)

Goto(t, l) == pc' = [pc EXCEPT ![t] = l]

\* Merging the peers' documents into d would change nothing.
UpToDate(d) == Merge(PeerDocs \cup {d}) = d

\* The peer files have been collected and not yet hashed.
MergeWindow ==
    \E t \in Poller \cup {Main} :
        pc[t] \in {"persist", "header", "again", "log", "append", "rehash"}

\* The newest edits of each entity, once readers have been shown d.
Showing(d) ==
    shown' = [i \in Id |-> Max({shown[i], d.rows[i]} \cup {t.at : t \in TombsOf({d}, i)})]
-----------------------------------------------------------------------------
SharedDocument == [rows |-> [i \in Id |-> IF i \in Shared THEN 1 ELSE 0], tombs |-> {}]

\* The device is off; its replica and the peers' hold the shared entities.
Init ==
    /\ disk = SharedDocument
    /\ peers = [p \in Peer |-> SharedDocument]
    /\ readable = Peer
    /\ history = <<>>
    /\ mem = EmptyDocument /\ snapshot = EmptyDocument /\ spare = EmptyDocument
    /\ ownHash = None
    /\ peersHash = [p \in Peer |-> None]
    /\ queue = <<>>
    /\ historyOwner = None
    /\ running = FALSE
    /\ pc = [t \in Thread |-> "idle"]
    /\ lines = [t \in Thread |-> {}]
    /\ seen = [p \in Poller |-> [q \in Peer |-> None]]
    /\ clock = 1
    /\ born = Shared
    /\ crashes = 0
    /\ shown = [i \in Id |-> 0]
    /\ committed = {} /\ torn = FALSE /\ forgot = {} /\ late = {} /\ missed = {}
-----------------------------------------------------------------------------
(* AppState::write *)

\* inner.lock()
Request(w) ==
    /\ running /\ pc[w] = "idle"
    /\ Goto(w, "queued")
    /\ queue' = Arrive(queue, w)
    /\ UNCHANGED <<files, mem, ownHash, peersHash, snapshot, historyOwner, running, spare,
                   lines, seen, clock, born, crashes, observed>>

\* The closure returns an error, or leaves the document equal: nothing is written.
WriteNothing(w) ==
    /\ Holds(w) /\ pc[w] = "queued"
    /\ Goto(w, "idle")
    /\ queue' = Tail(queue)
    /\ UNCHANGED <<files, mem, ownHash, peersHash, snapshot, historyOwner, running, spare,
                   lines, seen, clock, born, crashes, observed>>

\* The closure adds, edits or deletes one entity in a clone of the document.
Change(w) ==
    /\ Holds(w) /\ pc[w] = "queued"
    /\ clock < MaxStamp
    /\ clock' = clock + 1
    /\ \E i \in Id :
         /\ \/ i \notin born /\ spare' = WithRow(mem, i, clock')
            \/ Live(mem, i) /\ spare' \in {WithRow(mem, i, clock'), WithoutRow(mem, i, clock')}
         /\ born' = born \cup {i}
    /\ lines' = [lines EXCEPT ![w] = EntriesForChange(mem, spare', clock')]
    /\ Goto(w, "persist")
    /\ UNCHANGED <<files, mem, ownHash, peersHash, snapshot, queue, historyOwner, running,
                   seen, crashes, observed>>

\* persist_next: one attempt's transaction commits the rows.
CommitNext(w) ==
    /\ pc[w] \in {"persist", "again"}
    /\ ~WriteSinceFails(disk, mem, spare)
    /\ disk' = WriteSince(disk, mem, spare)
    /\ Goto(w, "header")
    /\ UNCHANGED <<peers, readable, history, mem, ownHash, peersHash, snapshot, queue,
                   historyOwner, running, spare, lines, seen, clock, born, crashes, observed>>

\* After the commit set_user_version takes the file's lock again; when it cannot, the
\* attempt failed and the whole write is tried again.
HeaderContended(t) ==
    /\ pc[t] = "header"
    /\ Goto(t, "again")
    /\ UNCHANGED <<files, mem, ownHash, peersHash, snapshot, queue, historyOwner, running,
                   spare, lines, seen, clock, born, crashes, observed>>

\* The retry budget is used up, or an error that is not contention: write returns Err
\* and drops `next'.
WriteFails(w) ==
    /\ pc[w] \in {"persist", "again"}
    /\ Goto(w, "idle")
    /\ queue' = Tail(queue)
    /\ spare' = EmptyDocument
    /\ lines' = [lines EXCEPT ![w] = {}]
    /\ torn' = (torn \/ pc[w] = "again")
    /\ UNCHANGED <<files, mem, ownHash, peersHash, snapshot, historyOwner, running, seen,
                   clock, born, crashes, shown, committed, forgot, late, missed>>

\* The header is written too: the document is swapped and published.
WriteDone(w) ==
    /\ pc[w] = "header"
    /\ mem' = spare /\ snapshot' = spare /\ spare' = EmptyDocument
    /\ ownHash' = None
    /\ Showing(snapshot')
    /\ committed' = committed \cup lines[w]
    /\ Goto(w, "log")
    /\ UNCHANGED <<files, peersHash, queue, historyOwner, running, lines, seen, clock, born,
                   crashes, torn, forgot, late, missed>>

\* Mutant of HandOver: `inner' is released without the history mutex.
HandOverUnguarded(w) ==
    /\ pc[w] = "log"
    /\ queue' = Tail(queue)
    /\ Goto(w, "append")
    /\ UNCHANGED <<files, mem, ownHash, peersHash, snapshot, historyOwner, running, spare,
                   lines, seen, clock, born, crashes, observed>>

\* The history mutex is taken before `inner' is released.
HandOver(w) ==
    /\ pc[w] = "log" /\ historyOwner = None
    /\ historyOwner' = w
    /\ queue' = Tail(queue)
    /\ Goto(w, "append")
    /\ UNCHANGED <<files, mem, ownHash, peersHash, snapshot, running, spare, lines, seen,
                   clock, born, crashes, observed>>

\* append_history; a failure is a warning and the entries are lost.
WriteLogged(w) ==
    /\ pc[w] = "append"
    /\ \/ /\ history' = history \o SetToSeq(lines[w])
          /\ UNCHANGED committed
       \/ /\ committed' = committed \ lines[w]
          /\ UNCHANGED history
    /\ historyOwner' = None
    /\ lines' = [lines EXCEPT ![w] = {}]
    /\ Goto(w, "idle")
    /\ UNCHANGED <<disk, peers, readable, mem, ownHash, peersHash, snapshot, queue, running,
                   spare, seen, clock, born, crashes, shown, torn, forgot, late, missed>>
-----------------------------------------------------------------------------
(* AppState::reload_replicas_if_changed *)

\* The peers are hashed before `inner' is asked for.
ReloadHash(p) ==
    /\ running /\ pc[p] = "idle"
    /\ seen' = [seen EXCEPT ![p] = PeersContent]
    /\ queue' = Arrive(queue, p)
    /\ Goto(p, "hashed")
    /\ UNCHANGED <<files, mem, ownHash, peersHash, snapshot, historyOwner, running, spare,
                   lines, clock, born, crashes, observed>>

ReloadUnchanged(p) ==
    /\ Holds(p) /\ pc[p] = "hashed"
    /\ seen[p] = peersHash
    /\ queue' = Tail(queue)
    /\ Goto(p, "idle")
    /\ UNCHANGED <<files, mem, ownHash, peersHash, snapshot, historyOwner, running, spare,
                   lines, seen, clock, born, crashes, observed>>

\* The lock is dropped after the comparison and asked for again.
ReloadChanged(p) ==
    /\ Holds(p) /\ pc[p] = "hashed"
    /\ seen[p] # peersHash
    /\ queue' = Arrive(Tail(queue), p)
    /\ Goto(p, "changed")
    /\ UNCHANGED <<files, mem, ownHash, peersHash, snapshot, historyOwner, running, spare,
                   lines, seen, clock, born, crashes, observed>>

\* Mutant of ReloadMerge: history is appended before the merge is durable.
ReloadMergeAndLog(p) ==
    /\ Holds(p) /\ pc[p] = "changed"
    /\ spare' = mem
    /\ mem' = Merge(PeerDocs \cup {mem})
    /\ ownHash' = IF ownHash = None THEN mem ELSE ownHash
    /\ history' = history \o SetToSeq(Unseen(EntriesForChange(spare', mem', clock)))
    /\ late' = {}
    /\ Goto(p, "persist")
    /\ UNCHANGED <<disk, peers, readable, peersHash, snapshot, queue, historyOwner, running,
                   lines, seen, clock, born, crashes, shown, committed, torn, forgot, missed>>

\* collect_peer_docs, merge_documents, own_hash(), and the assignment of the merged
\* document that a failed persist rolls back.
ReloadMerge(p) ==
    /\ Holds(p) /\ pc[p] = "changed"
    /\ spare' = mem
    /\ mem' = Merge(PeerDocs \cup {mem})
    /\ ownHash' = IF ownHash = None THEN mem ELSE ownHash
    /\ late' = {}
    /\ Goto(p, "persist")
    /\ UNCHANGED <<files, peersHash, snapshot, queue, historyOwner, running, lines, seen,
                   clock, born, crashes, shown, committed, torn, forgot, missed>>

\* persist: one attempt's transaction rewrites every row.
CommitAll(t) ==
    /\ pc[t] \in {"persist", "again"}
    /\ Writable(mem)
    /\ disk' = mem
    /\ Goto(t, "header")
    /\ UNCHANGED <<peers, readable, history, mem, ownHash, peersHash, snapshot, queue,
                   historyOwner, running, spare, lines, seen, clock, born, crashes, observed>>

\* Mutant of ReloadFails: the merged document stays in memory.
ReloadFailsUnrolled(p) ==
    /\ pc[p] \in {"persist", "again"}
    /\ spare' = EmptyDocument
    /\ queue' = Tail(queue)
    /\ Goto(p, "idle")
    /\ torn' = (torn \/ pc[p] = "again")
    /\ late' = {}
    /\ UNCHANGED <<files, mem, ownHash, peersHash, snapshot, historyOwner, running, lines,
                   seen, clock, born, crashes, shown, committed, forgot, missed>>

\* Mutant of ReloadFails: the peers count as merged although the persist failed.
ReloadFailsSeen(p) ==
    /\ pc[p] \in {"persist", "again"}
    /\ mem' = spare /\ spare' = EmptyDocument
    /\ peersHash' = seen[p]
    /\ queue' = Tail(queue)
    /\ Goto(p, "idle")
    /\ torn' = (torn \/ pc[p] = "again")
    /\ late' = {}
    /\ UNCHANGED <<files, ownHash, snapshot, historyOwner, running, lines, seen, clock, born,
                   crashes, shown, committed, forgot, missed>>

\* Err: the document from before the merge comes back, peers_hash is left alone.
ReloadFails(p) ==
    /\ pc[p] \in {"persist", "again"}
    /\ mem' = spare /\ spare' = EmptyDocument
    /\ queue' = Tail(queue)
    /\ Goto(p, "idle")
    /\ torn' = (torn \/ pc[p] = "again")
    /\ late' = {}
    /\ UNCHANGED <<files, ownHash, peersHash, snapshot, historyOwner, running, lines, seen,
                   clock, born, crashes, shown, committed, forgot, missed>>

\* The merge is durable.  History is due when its hash is not the old document's.
ReloadDone(p) ==
    /\ pc[p] = "header"
    /\ torn' = FALSE
    /\ Goto(p, IF ownHash # mem THEN "log" ELSE "rehash")
    /\ UNCHANGED <<files, mem, ownHash, peersHash, snapshot, queue, historyOwner, running,
                   spare, lines, seen, clock, born, crashes, shown, committed, forgot, late, missed>>

\* The history mutex, taken with `inner' kept; the entries are derived under it.
ReloadLock(p) ==
    /\ pc[p] = "log" /\ historyOwner = None
    /\ historyOwner' = p
    /\ lines' = [lines EXCEPT ![p] = Unseen(EntriesForChange(spare, mem, clock))]
    /\ committed' = committed \cup lines'[p]
    /\ Goto(p, "append")
    /\ UNCHANGED <<files, mem, ownHash, peersHash, snapshot, queue, running, spare, seen,
                   clock, born, crashes, shown, torn, forgot, late, missed>>

\* append_history; a failure of it, or of filter_unseen_entries, is a warning.
ReloadLogged(p) ==
    /\ pc[p] = "append"
    /\ \/ /\ history' = history \o SetToSeq(lines[p])
          /\ UNCHANGED committed
       \/ /\ committed' = committed \ lines[p]
          /\ UNCHANGED history
    /\ historyOwner' = None
    /\ lines' = [lines EXCEPT ![p] = {}]
    /\ Goto(p, "rehash")
    /\ UNCHANGED <<disk, peers, readable, mem, ownHash, peersHash, snapshot, queue, running,
                   spare, seen, clock, born, crashes, shown, torn, forgot, late, missed>>

\* peers_content_hash reads the files again, then the document is published.
ReloadRehash(p) ==
    /\ pc[p] = "rehash"
    /\ ownHash' = mem
    /\ peersHash' = PeersContent
    /\ snapshot' = mem /\ spare' = EmptyDocument
    /\ Showing(snapshot')
    /\ queue' = Tail(queue)
    /\ Goto(p, "idle")
    /\ missed' = late /\ late' = {}
    /\ UNCHANGED <<files, mem, historyOwner, running, lines, seen, clock, born, crashes,
                   committed, torn, forgot>>
-----------------------------------------------------------------------------
(* Start-up: AppState::open *)

\* Mutant of OpenDocs: our own replica is read only when no peer's is there.
OpenPeersFirst == IF PeerDocs = {} THEN {disk} ELSE PeerDocs

\* The peers, and our own replica unless it holds no task or tag and a peer was read.
OpenDocs == PeerDocs \cup (IF HasData(disk) \/ PeerDocs = {} THEN {disk} ELSE {})

Open ==
    /\ ~running /\ pc[Main] = "idle"
    /\ mem' = Merge(OpenDocs)
    /\ forgot' = IF disk \in OpenDocs THEN forgot
                  ELSE forgot \cup {t.id : t \in disk.tombs}
    /\ late' = {}
    /\ Goto(Main, "persist")
    /\ UNCHANGED <<files, ownHash, peersHash, snapshot, queue, historyOwner, running, spare,
                   lines, seen, clock, born, crashes, shown, committed, torn, missed>>

\* Err: start-up panics; the next Open starts over from the files.
OpenFails ==
    /\ pc[Main] \in {"persist", "again"}
    /\ mem' = EmptyDocument
    /\ late' = {}
    /\ Goto(Main, "idle")
    /\ UNCHANGED <<files, ownHash, peersHash, snapshot, queue, historyOwner, running, spare,
                   lines, seen, clock, born, crashes, shown, committed, torn, forgot, missed>>

OpenDone ==
    /\ pc[Main] = "header"
    /\ ownHash' = mem
    /\ torn' = FALSE
    /\ Goto(Main, "rehash")
    /\ UNCHANGED <<files, mem, peersHash, snapshot, queue, historyOwner, running, spare,
                   lines, seen, clock, born, crashes, shown, committed, forgot, late, missed>>

\* peers_content_hash, then the store exists and readers are served.
OpenRehash ==
    /\ pc[Main] = "rehash"
    /\ peersHash' = PeersContent
    /\ snapshot' = mem
    /\ Showing(snapshot')
    /\ running' = TRUE
    /\ Goto(Main, "idle")
    /\ missed' = late /\ late' = {}
    /\ UNCHANGED <<files, mem, ownHash, queue, historyOwner, spare, lines, seen, clock, born,
                   crashes, committed, torn, forgot>>

\* The process ends: the files stay, everything else is gone.
Crash ==
    /\ running \/ pc[Main] # "idle"
    /\ crashes < MaxCrashes
    /\ crashes' = crashes + 1
    /\ mem' = EmptyDocument /\ snapshot' = EmptyDocument /\ spare' = EmptyDocument
    /\ ownHash' = None
    /\ peersHash' = [p \in Peer |-> None]
    /\ queue' = <<>> /\ historyOwner' = None
    /\ running' = FALSE
    /\ pc' = [t \in Thread |-> "idle"]
    /\ lines' = [t \in Thread |-> {}]
    /\ seen' = [p \in Poller |-> [q \in Peer |-> None]]
    /\ committed' = ToSet(history)
    /\ torn' = FALSE /\ late' = {}
    /\ UNCHANGED <<files, clock, born, shown, forgot, missed>>
-----------------------------------------------------------------------------
(* The folder: other devices run the same program, a sync client moves the files *)

PeerChanges(p, d) ==
    /\ peers' = [peers EXCEPT ![p] = d]
    /\ late' = IF MergeWindow THEN late \cup {p} ELSE late
    /\ UNCHANGED <<disk, readable, history, mem, ownHash, peersHash, snapshot, queue,
                   historyOwner, running, pc, spare, lines, seen, crashes, shown, committed,
                   torn, forgot, missed>>

\* The peer's user adds, edits or deletes an entity.
PeerEdits(p) ==
    /\ clock < MaxStamp
    /\ clock' = clock + 1
    /\ \E i \in Id :
         /\ \/ i \notin born /\ PeerChanges(p, WithRow(peers[p], i, clock'))
            \/ Live(peers[p], i) /\ PeerChanges(p, WithRow(peers[p], i, clock'))
            \/ /\ Live(peers[p], i) /\ Writable(WithoutRow(peers[p], i, clock'))
               /\ PeerChanges(p, WithoutRow(peers[p], i, clock'))
         /\ born' = born \cup {i}

\* The peer merges the replicas it finds beside its own, ours among them.
PeerMerges(p) ==
    /\ peers[p] # Merge({peers[q] : q \in Peer} \cup {disk})
    /\ PeerChanges(p, Merge({peers[q] : q \in Peer} \cup {disk}))
    /\ UNCHANGED <<clock, born>>

\* The sync client has the file half written or not materialised, or whole again.
PeerHidesOrShows(p) ==
    /\ readable' = IF p \in readable THEN readable \ {p} ELSE readable \cup {p}
    /\ late' = IF MergeWindow THEN late \cup {p} ELSE late
    /\ UNCHANGED <<disk, peers, history, mem, ownHash, peersHash, snapshot, queue,
                   historyOwner, running, pc, spare, lines, seen, clock, born, crashes, shown,
                   committed, torn, forgot, missed>>
-----------------------------------------------------------------------------
WriteStep(w) ==
    \/ WriteNothing(w) \/ Change(w) \/ CommitNext(w) \/ HeaderContended(w)
    \/ WriteFails(w) \/ WriteDone(w) \/ HandOver(w) \/ WriteLogged(w)

ReloadStep(p) ==
    \/ ReloadUnchanged(p) \/ ReloadChanged(p) \/ ReloadMerge(p) \/ CommitAll(p)
    \/ HeaderContended(p) \/ ReloadFails(p) \/ ReloadDone(p) \/ ReloadLock(p)
    \/ ReloadLogged(p) \/ ReloadRehash(p)

OpenStep ==
    \/ Open \/ CommitAll(Main) \/ HeaderContended(Main) \/ OpenFails \/ OpenDone
    \/ OpenRehash

FolderStep == \E p \in Peer : PeerEdits(p) \/ PeerMerges(p) \/ PeerHidesOrShows(p)

Next ==
    \/ \E w \in Writer : Request(w) \/ WriteStep(w)
    \/ \E p \in Poller : ReloadHash(p) \/ ReloadStep(p)
    \/ OpenStep
    \/ Crash
    \/ FolderStep

Spec == Init /\ [][Next]_vars

\* Every thread runs on; a call has a retry budget, so that its persist ends one way or
\* the other however often the replica file is locked; some reload thread calls again.
ThreadsRun ==
    /\ \A w \in Writer : WF_vars(WriteStep(w)) /\ SF_vars(WriteFails(w) \/ WriteDone(w))
    /\ \A p \in Poller : WF_vars(ReloadStep(p)) /\ SF_vars(ReloadFails(p) \/ ReloadDone(p))
    /\ WF_vars(\E p \in Poller : ReloadHash(p))

\* Whoever locks the replica file lets go of it often enough for a reload to get it, for
\* the rows and for the header.
FileComesFree ==
    SF_vars(\E p \in Poller : CommitAll(p)) /\ SF_vars(\E p \in Poller : ReloadDone(p))

FairSpec == Spec /\ ThreadsRun /\ FileComesFree
-----------------------------------------------------------------------------
(* Properties *)

Quiet == running /\ queue = <<>>

\* With nobody in the store, this device's replica holds the document in memory, so
\* that a restart, and every peer, reads what the user sees.  The exception is named:
\* a persist that reported failure after its rows were committed (write_document_once
\* sets user_version outside the transaction).
QuietReplicaHoldsDocument == Quiet /\ ~torn => disk = mem

\* What any reader was ever shown of an entity (an edit acknowledged to the user, or a
\* peer's edit merged) is in this device's replica from then on, itself or something
\* newer: across reloads racing with writes, failed persists and crashes.  Entities
\* whose tombstone start-up dropped are exempt.
ShownIsDurable == \A i \in Id \ forgot : Knows(disk, i, shown[i])

\* The version of i that d shows: the newest edit or deletion of it that d holds.
VersionIn(d, i) ==
    [at   |-> Max({d.rows[i]} \cup {t.at : t \in {u \in d.tombs : u.id = i}}),
     live |-> Live(d, i)]

\* How far the write of w has come for those who read and write.
Stage(w) ==
    CASE pc[w] = "idle"                                     -> "idle"
      [] pc[w] \in {"queued", "persist", "header", "again"} -> "called"
      [] pc[w] \in {"log", "append"}                        -> "done"

Store == INSTANCE DurableStore WITH
    open <- running, stage <- [w \in Writer |-> Stage(w)],
    served <- [i \in Id |-> VersionIn(snapshot, i)], newest <- shown, forgotten <- forgot

\* To its readers and writers the store is one document: a write takes effect at once on
\* what is served at that moment, or not at all; a merge brings newer versions only; and
\* after a restart nothing older is served than before (AppState::write, read, open and
\* reload_replicas_if_changed), whatever threads, peers and crashes do.
StoreIsDurable == Store!DurableSpec

\* Lines land in the sidecar in commit order although they are appended after `inner'
\* is released (the comment on AppState.history).
HistoryInCommitOrder ==
    \A m, n \in 1..Len(history) : m <= n => history[m].when <= history[n].when

\* The sidecar and the entries still to be appended are exactly the changes that became
\* durable: a failed write or merge records nothing, no line is dropped by a later
\* append, none is recorded twice (of an entity that start-up did not bring back).
HistoryIsTheCommits ==
    /\ committed = ToSet(history)
                     \cup UNION {lines[t] : t \in {u \in Writer \cup Poller :
                                                      pc[u] \in {"log", "append"}}}
    /\ \A m, n \in 1..Len(history) :
         DedupKey(history[m]) = DedupKey(history[n]) => m = n \/ history[m].id \in forgot

\* peers_hash never claims more than was merged: when it is the hash of the peers'
\* present content, merging them again would change nothing.  Peers that changed
\* between a merge and the re-hash that follows its persist are exempt.
SeenIsMerged ==
    Quiet /\ peersHash = PeersContent /\ missed = {} => UpToDate(mem)

\* A write that is waiting for `inner' gets its turn and returns, whatever the reload
\* threads and the other writers do and however often the file is locked (the comment
\* on AppState.inner: no UI command is overtaken again and again).
WriteReturns == \A w \in Writer : pc[w] = "queued" ~> pc[w] = "idle"

\* Once the store stays open and the peers' files stay readable, what the peers hold
\* reaches the readers for good without anything done by the user, unless the last
\* merge missed a change made between its collection of the files and its re-hash.
PeerChangesArrive ==
    <>[](running /\ readable = Peer) => <>[](UpToDate(snapshot) \/ missed # {})

\* Expected to fail.  The same without the exemption: "Freshness is guaranteed by these
\* automatic mechanisms alone" (openspec/specs/multi-device-sync/spec.md).
FreshnessIsAutomatic == <>[](running /\ readable = Peer) => <>[]UpToDate(snapshot)

\* Expected to fail.  A write or merge that reported failure changed nothing: "either
\* the mutation is persisted ... or neither" (the same spec, durable writes).
FailedWritesLeaveNoTrace == Quiet => disk = mem

\* Expected to fail.  A deletion that was shown stays in this device's replica, across
\* restarts too: "tombstones prevent deletes from being resurrected by stale replicas".
DeletedStaysDeleted == \A i \in Id : Knows(disk, i, shown[i])

\* Expected to fail.  The write of a changed document can fail for a locked file but
\* not for what the document holds: "either way the transaction ends with the database
\* holding exactly `doc`" (db.rs, write_document_once).
EveryChangeCanBeWritten ==
    \A w \in Writer : pc[w] = "persist" => ~WriteSinceFails(disk, mem, spare)
=============================================================================
