------------------------ MODULE ReplicaStoreInvariant ------------------------
(***************************************************************************)
(* The inductive invariant of ReplicaStore: what holds between the threads,*)
(* the documents in memory and the replica file after every step, and from *)
(* which the properties of ReplicaStore follow (ReplicaStoreProofs).       *)
(***************************************************************************)
EXTENDS ReplicaStore

\* A reload past its merge: `mem' is the merged document, `spare' the one before.
Reloading(p) == pc[p] \in {"persist", "header", "again", "log", "append", "rehash"}

\* A write between its closure and its publication.
Writing(w) == pc[w] \in {"persist", "header", "again"}

NoReload == \A p \in Poller : ~Reloading(p)

ThreadStates ==
    /\ \A w \in Writer :
         pc[w] \in {"idle", "queued", "persist", "header", "again", "log", "append"}
    /\ \A p \in Poller : pc[p] \in {"idle", "hashed", "changed"} \/ Reloading(p)
    /\ pc[Main] \in {"idle", "persist", "header", "again", "rehash"}

\* Whoever works on the documents is at the head of the queue for `inner'; nobody is in
\* the store before it is open.
Locking ==
    /\ \A w \in Writer : Writing(w) \/ pc[w] = "log" => Holds(w)
    /\ \A p \in Poller : Reloading(p) => Holds(p)
    /\ pc[Main] # "idle" => ~running
    /\ ~running => queue = <<>> /\ \A t \in Writer \cup Poller : pc[t] = "idle"

\* No stamp is ahead of the clock.
Young ==
    /\ NoneAfter(disk, clock) /\ NoneAfter(mem, clock)
    /\ NoneAfter(snapshot, clock) /\ NoneAfter(spare, clock)
    /\ \A p \in Peer : NoneAfter(peers[p], clock)

KnowsShown(d) == \A i \in Id \ forgot : Knows(d, i, shown[i])

\* What readers were shown is in the replica at every step of a write, a reload and a
\* start-up, and what is published next holds it as well.
Durability ==
    /\ KnowsShown(disk)
    /\ running => KnowsShown(snapshot) /\ Covers(disk, snapshot)
    /\ running /\ NoReload => mem = snapshot
    /\ \A w \in Writer : Writing(w) => IsChange(mem, spare)
    /\ \A w \in Writer : pc[w] \in {"header", "again"} => Covers(disk, spare)
    /\ \A p \in Poller : Reloading(p) => spare = snapshot /\ Covers(mem, spare)
    /\ \A p \in Poller : Reloading(p) /\ pc[p] # "persist" => disk = mem
    /\ pc[Main] # "idle" => KnowsShown(mem)
    /\ pc[Main] \in {"header", "again", "rehash"} => disk = mem

\* Unless a persist that failed had committed its rows, the replica is the document
\* last published or, after a commit, the one about to be.
Agreement ==
    ~torn =>
      /\ running /\ NoReload /\ (\A w \in Writer : pc[w] \notin {"header", "again"})
           => disk = mem
      /\ \A w \in Writer : pc[w] \in {"header", "again"} => disk = spare
      /\ \A p \in Poller : pc[p] = "persist" => disk = spare

\* Every document the store or a peer holds.
Docs == {disk, mem, snapshot, spare} \cup {peers[p] : p \in Peer}

\* No edit and no deletion of an entity have the same stamp.
Apart(docs) == \A d, e \in docs : \A t \in e.tombs : d.rows[t.id] # t.at

\* In memory, moreover, a row is newer than every deletion of its entity.
EditOrder == Apart(Docs) /\ RowsOutliveTombs(mem) /\ RowsOutliveTombs(spare)

\* d has absorbed the peers' documents that `peers_hash' is the hash of.
AbsorbsSeen(d) == \A p \in Peer : peersHash[p] # None => Absorbs(d, peersHash[p])

\* The document in memory has absorbed every peer document its hash stands for, and a
\* merge under way those it collected.
Absorption ==
    /\ Writable(mem)
    /\ running /\ missed = {} => AbsorbsSeen(mem)
    /\ \A w \in Writer : pc[w] \in {"header", "again"} => Writable(spare)
    /\ \A p \in Poller : Reloading(p) => Writable(spare)
    /\ \A p \in Poller : Reloading(p) /\ missed = {} => AbsorbsSeen(spare)
    /\ (pc[Main] # "idle" \/ \E p \in Poller : Reloading(p)) =>
         \A q \in readable \ late : Absorbs(mem, peers[q])

IInv ==
    /\ TypeOK /\ ThreadStates /\ Locking /\ Young /\ Durability /\ Agreement
    /\ EditOrder /\ Absorption
-----------------------------------------------------------------------------
(* The history sidecar *)

\* The history mutex is held exactly while entries are appended, and a thread holds
\* entries only between its change and the append.
LogTurns ==
    /\ \A t \in Thread : historyOwner = t <=> pc[t] = "append"
    /\ \A w \in Writer : lines[w] # {} => Writing(w) \/ pc[w] \in {"log", "append"}
    /\ \A p \in Poller : lines[p] # {} => pc[p] = "append"
    /\ lines[Main] = {}

\* Entries are as old as their change, and wait behind everything appended before it.
LogOrder ==
    /\ \A h \in ToSet(history) : h.when <= clock /\ h.stamp <= clock
    /\ \A t \in Thread : \A e \in lines[t] : e.when <= clock /\ e.stamp <= clock
    /\ \A t \in Thread : \A e, f \in lines[t] : e.when = f.when /\ (e.id = f.id => e = f)
    /\ \A w \in Writer : \A e \in lines[w], h \in ToSet(history) : h.when < e.when
    /\ \A p \in Poller : \A e \in lines[p], h \in ToSet(history) :
         h.when <= e.when /\ DedupKey(h) # DedupKey(e)
    /\ \A w \in Writer, t \in Thread : pc[w] # "append" /\ pc[t] = "append" =>
         \A e \in lines[w], f \in lines[t] : f.when < e.when
    /\ HistoryInCommitOrder

\* The entries of durable changes are the appended and the pending ones.
LogContents ==
    committed = ToSet(history)
                  \cup UNION {lines[t] : t \in {u \in Writer \cup Poller :
                                                   pc[u] \in {"log", "append"}}}

\* d knows of something newer than each version that was deleted, of the ids it should.
Buried(d, entries, exempt) ==
    \A e \in entries : e.kind = "deleted" /\ e.id \notin exempt => Knows(d, e.id, e.stamp + 1)

\* A version whose deletion is in the history cannot be deleted again.
Burials ==
    /\ Buried(disk, committed, forgot)
    /\ running \/ pc[Main] # "idle" => Buried(mem, committed, forgot)
    /\ \A p \in Poller : pc[p] \in {"persist", "header", "again"} =>
         Buried(spare, committed, forgot)
    /\ \A w \in Writer : Writing(w) => Buried(spare, lines[w], forgot)

\* No two entries, appended or waiting, record the same version of an entity.
KeysOnce ==
    /\ \A w \in Writer : \A e \in lines[w], h \in ToSet(history) :
         DedupKey(e) = DedupKey(h) => e.id \in forgot
    /\ \A t, u \in Thread : t # u => \A e \in lines[t], f \in lines[u] :
         DedupKey(e) = DedupKey(f) => e.id \in forgot
    /\ \A m, n \in 1..Len(history) :
         DedupKey(history[m]) = DedupKey(history[n]) => m = n \/ history[m].id \in forgot

LogInv == LogTurns /\ LogOrder /\ LogContents /\ Burials /\ KeysOnce
===============================================================================
