-------------------------- MODULE ReplicaStoreProofs --------------------------
(***************************************************************************)
(* ReplicaStore keeps its inductive invariant, and with it what the store  *)
(* promises: the replica of an idle store holds the document in memory,    *)
(* what a reader was shown is durable, the history sidecar holds the       *)
(* durable changes in commit order and each of them once, and to its users *)
(* the store is the one document of DurableStore.                          *)
(***************************************************************************)
EXTENDS ReplicaStoreInvariant, DocumentsProofs, FiniteSetTheorems, SequenceTheorems

-----------------------------------------------------------------------------
(* The operators of the model *)

\* There are finitely many history lines, so that any set of them is a sequence.
LEMMA LineIsFinite == IsFiniteSet(Line)
<1> DEFINE Kinds == {"created", "updated", "deleted"}
           T == (Id \X Kinds) \X (Stamp \X (Stamp \cup {0}))
           f == [e \in Line |-> <<<<e.id, e.kind>>, <<e.stamp, e.when>>>>]
<1>1. IsFiniteSet(T)
  <2>1. IsFiniteSet(Kinds)
    <3>1. /\ IsFiniteSet({"created"})
          /\ IsFiniteSet({"created"} \cup {"updated"})
          /\ IsFiniteSet(({"created"} \cup {"updated"}) \cup {"deleted"})
      BY FS_Singleton, FS_AddElement
    <3>2. Kinds = ({"created"} \cup {"updated"}) \cup {"deleted"}
      OBVIOUS
    <3> QED  BY <3>1, <3>2, Zenon
  <2>2. IsFiniteSet(Stamp) /\ IsFiniteSet(Stamp \cup {0})
    <3>1. MaxStamp \in Int /\ 1 \in Int
      BY MaxStampAssumption
    <3>2. IsFiniteSet(1..MaxStamp)
      BY <3>1, FS_Interval, Zenon
    <3> QED  BY <3>2, FS_AddElement, Zenon DEF Stamp
  <2>3. IsFiniteSet(Id \X Kinds) /\ IsFiniteSet(Stamp \X (Stamp \cup {0}))
    BY <2>1, <2>2, IdAssumption, FS_Product
  <2> QED  BY <2>3, FS_Product
<1>2. f \in Injection(Line, T)
  <2>1. f \in [Line -> T]
    BY DEF Line
  <2>2. ASSUME NEW d \in Line, NEW e \in Line, f[d] = f[e] PROVE d = e
    BY <2>2 DEF Line
  <2> QED  BY <2>1, <2>2 DEF Injection, IsInjective
<1> QED  BY <1>1, <1>2, FS_Injection, Zenon

\* The lines to append are appended in some order, each once.
LEMMA LinesAreASequence ==
    ASSUME NEW S \in SUBSET Line
    PROVE  /\ SetToSeq(S) \in Seq(Line)
           /\ ToSet(SetToSeq(S)) = S
           /\ IsInjective(SetToSeq(S))
<1>1. IsFiniteSet(S)
  BY LineIsFinite, FS_Subset
<1>2. Cardinality(S) \in Nat /\ ExistsBijection(1..Cardinality(S), S)
  BY <1>1, FS_CardinalityType
<1>3. PICK g \in Bijection(1..Cardinality(S), S) : TRUE
  BY <1>2 DEF ExistsBijection
<1>4. g \in [1..Cardinality(S) -> S] /\ IsInjective(g)
  BY <1>3 DEF Bijection, Injection
<1>5. SetToSeq(S) \in [1..Cardinality(S) -> S] /\ IsInjective(SetToSeq(S))
  BY <1>4, Zenon DEF SetToSeq
<1>6. SetToSeq(S) \in Bijection(1..Cardinality(S), S)
  <2>1. SetToSeq(S) \in Injection(1..Cardinality(S), S)
    BY <1>5 DEF Injection
  <2>2. 1..Cardinality(S) # {} \/ S = {}
    BY <1>1, <1>2, FS_EmptySet
  <2>3. IsFiniteSet(1..Cardinality(S)) /\ Cardinality(1..Cardinality(S)) = Cardinality(S)
    BY <1>2, FS_Interval
  <2>4. SetToSeq(S) \in Surjection(1..Cardinality(S), S)
    BY <2>1, <2>3, <1>1, FS_Injection
  <2> QED  BY <2>1, <2>4 DEF Bijection
<1>7. SetToSeq(S) \in Seq(S)
  BY <1>2, <1>5, IsASeq
<1>8. SetToSeq(S) \in Seq(Line)
  BY <1>7, SeqMonotonic
<1>9. ToSet(SetToSeq(S)) = S
  BY <1>6 DEF ToSet, Bijection, Surjection, Injection
<1> QED  BY <1>5, <1>8, <1>9

\* Entries of a change are history lines.
LEMMA EntriesType ==
    ASSUME NEW before \in Document, NEW after \in Document, NEW ts \in Stamp \cup {0}
    PROVE  EntriesForChange(before, after, ts) \in SUBSET Line
BY DEF EntriesForChange, Line, Live, Document

\* What the sidecar has not seen is a part of the entries.
LEMMA UnseenType ==
    ASSUME NEW S \in SUBSET Line
    PROVE  Unseen(S) \in SUBSET Line
BY DEF Unseen

\* An empty document is one.
LEMMA EmptyDocumentType == EmptyDocument \in Document
BY DEF EmptyDocument, Document

\* The peers' hash stands for their documents.
LEMMA PeersContentType ==
    ASSUME TypeOK
    PROVE  PeersContent \in PeersSeen /\ PeerDocs \in SUBSET Document
BY DEF TypeOK, PeersContent, PeersSeen, PeerDocs

\* What a reader is shown of an entity is a stamp.
LEMMA ShowingType ==
    ASSUME TypeOK, NEW d \in Document, Showing(d)
    PROVE  /\ shown' \in [Id -> Stamp \cup {0}]
           /\ \A i \in Id : shown'[i] = shown[i] \/ Knows(d, i, shown'[i])
<1> DEFINE S(i) == {shown[i], d.rows[i]} \cup {t.at : t \in TombsOf({d}, i)}
<1>1. ASSUME NEW i \in Id PROVE Max(S(i)) \in S(i) /\ S(i) \subseteq Stamp \cup {0}
  <2>1. S(i) \in SUBSET (Stamp \cup {0}) /\ S(i) # {}
    BY DEF TypeOK, TombsOf, Document, Tombstone
  <2> QED  BY <2>1, MaxOfStamps
<1>2. shown' = [i \in Id |-> Max(S(i))]
  BY DEF Showing
<1>3. shown' \in [Id -> Stamp \cup {0}]
  BY <1>1, <1>2
<1>4. ASSUME NEW i \in Id PROVE shown'[i] = shown[i] \/ Knows(d, i, shown'[i])
  <2>1. shown'[i] \in S(i)
    BY <1>1, <1>2
  <2>2. CASE shown'[i] = d.rows[i]
    BY <2>2, MaxStampAssumption DEF Knows, Document, Stamp
  <2>3. CASE \E t \in TombsOf({d}, i) : shown'[i] = t.at
    BY <2>3, MaxStampAssumption DEF TombsOf, Knows, Document, Tombstone, Stamp
  <2> QED  BY <2>1, <2>2, <2>3
<1> QED  BY <1>3, <1>4

-----------------------------------------------------------------------------
(* Every step keeps the types *)

\* The device is off, with documents on disk.
LEMMA InitType == Init => TypeOK
<1> SUFFICES ASSUME Init PROVE TypeOK
  OBVIOUS
<1>1. SharedDocument \in Document /\ EmptyDocument \in Document
  BY EmptyDocumentType, MaxStampAssumption DEF SharedDocument, Document, Stamp
<1>2. 1 \in Stamp
  BY MaxStampAssumption DEF Stamp
<1>3. history \in Seq(Line) /\ queue \in Seq(Writer \cup Poller)
  BY EmptySeq DEF Init
<1>4. /\ disk \in Document /\ mem \in Document /\ snapshot \in Document /\ spare \in Document
      /\ peers \in [Peer -> Document] /\ readable \in SUBSET Peer
      /\ ownHash \in Document \cup {None} /\ peersHash \in PeersSeen
      /\ seen \in [Poller -> PeersSeen]
  BY <1>1 DEF Init, PeersSeen
<1>5. /\ historyOwner \in Thread \cup {None} /\ running \in BOOLEAN
      /\ pc \in [Thread -> {"idle", "queued", "hashed", "changed", "persist", "header",
                            "again", "log", "append", "rehash"}]
      /\ lines \in [Thread -> SUBSET Line]
  BY DEF Init
<1>6. /\ clock \in Stamp \cup {0} /\ born \in SUBSET Id /\ crashes \in 0..MaxCrashes
      /\ shown \in [Id -> Stamp \cup {0}]
      /\ committed \in SUBSET Line /\ torn \in BOOLEAN /\ forgot \in SUBSET Id
      /\ late \in SUBSET Peer /\ missed \in SUBSET Peer
  <2>1. clock \in Stamp \cup {0} /\ shown \in [Id -> Stamp \cup {0}]
    BY <1>2 DEF Init
  <2>2. born \in SUBSET Id /\ crashes \in 0..MaxCrashes
    BY ThreadAssumption DEF Init
  <2>3. /\ committed \in SUBSET Line /\ torn \in BOOLEAN /\ forgot \in SUBSET Id
        /\ late \in SUBSET Peer /\ missed \in SUBSET Peer
    BY DEF Init
  <2> QED  BY <2>1, <2>2, <2>3
<1> QED  BY <1>3, <1>4, <1>5, <1>6 DEF TypeOK

\* The queue after one more thread has asked for `inner', and after its head has left.
LEMMA QueueType ==
    ASSUME TypeOK
    PROVE  /\ \A t \in Writer \cup Poller : Arrive(queue, t) \in Seq(Writer \cup Poller)
           /\ queue # <<>> => Tail(queue) \in Seq(Writer \cup Poller)
           /\ queue # <<>> => \A t \in Writer \cup Poller :
                 Arrive(Tail(queue), t) \in Seq(Writer \cup Poller)
BY HeadTailProperties, AppendProperties DEF TypeOK, Arrive

\* Merging what lies in the folder gives a document.
LEMMA FolderMergeType ==
    ASSUME TypeOK
    PROVE  /\ Merge(PeerDocs \cup {mem}) \in Document
           /\ Merge(OpenDocs) \in Document
           /\ Merge({peers[q] : q \in Peer} \cup {disk}) \in Document
<1>1. PeerDocs \in SUBSET Document /\ mem \in Document /\ disk \in Document
  BY PeersContentType DEF TypeOK
<1>2. OpenDocs \in SUBSET Document /\ OpenDocs # {}
  BY <1>1 DEF OpenDocs
<1>3. {peers[q] : q \in Peer} \in SUBSET Document
  BY DEF TypeOK
<1> QED  BY <1>1, <1>2, <1>3, MergeType

\* Every step keeps the types: a thread that leaves the head of the queue is there.
LEMMA NextType == TypeOK /\ Locking /\ [Next]_vars => TypeOK'
<1> SUFFICES ASSUME TypeOK, Locking, [Next]_vars PROVE TypeOK'
  OBVIOUS
<1> USE ThreadAssumption
<1>0. Thread = Writer \cup Poller \cup {Main}
  BY DEF Thread
<1>1. ASSUME NEW w \in Writer, Request(w) PROVE TypeOK'
  BY <1>0, <1>1, QueueType DEF TypeOK, Goto, files, observed, Request
<1>2. ASSUME NEW w \in Writer, WriteNothing(w) PROVE TypeOK'
  BY <1>0, <1>2, QueueType DEF TypeOK, Goto, files, observed, WriteNothing, Holds
<1>3. ASSUME NEW w \in Writer, Change(w) PROVE TypeOK'
  <2>1. clock' \in Stamp /\ clock' \in Nat
    BY <1>3, MaxStampAssumption DEF Change, TypeOK, Stamp
  <2>2. spare' \in Document /\ born' \in SUBSET Id
    <3>1. PICK i \in Id : /\ spare' \in {WithRow(mem, i, clock'), WithoutRow(mem, i, clock')}
                          /\ born' = born \cup {i}
      BY <1>3 DEF Change
    <3>2. WithRow(mem, i, clock') \in Document /\ WithoutRow(mem, i, clock') \in Document
      BY <2>1, ChangeType DEF TypeOK
    <3> QED  BY <3>1, <3>2 DEF TypeOK
  <2>3. EntriesForChange(mem, spare', clock') \in SUBSET Line
    BY <2>1, <2>2, EntriesType DEF TypeOK
  <2> QED  BY <1>0, <1>3, <2>1, <2>2, <2>3 DEF TypeOK, Change, Goto, files, observed
<1>4. ASSUME NEW w \in Writer, CommitNext(w) PROVE TypeOK'
  <2>1. disk' \in Document
    BY <1>4, WriteSinceType DEF CommitNext, TypeOK
  <2> QED  BY <1>0, <1>4, <2>1 DEF TypeOK, CommitNext, Goto, files, observed
<1>5. ASSUME NEW w \in Writer, WriteFails(w) PROVE TypeOK'
  <2>1. queue # <<>>
    BY <1>5 DEF WriteFails, Locking, Holds, Writing
  <2> QED  BY <1>0, <1>5, <2>1, QueueType, EmptyDocumentType
           DEF TypeOK, WriteFails, Goto, files, observed
<1>6. ASSUME NEW w \in Writer, WriteDone(w) PROVE TypeOK'
  <2>1. shown' \in [Id -> Stamp \cup {0}]
    <3>1. snapshot' \in Document /\ Showing(snapshot')
      BY <1>6 DEF WriteDone, TypeOK
    <3> QED  BY <3>1, ShowingType
  <2> QED  BY <1>0, <1>6, <2>1, EmptyDocumentType DEF TypeOK, WriteDone, Goto, files, observed
<1>7. ASSUME NEW w \in Writer, HandOver(w) PROVE TypeOK'
  <2>1. queue # <<>>
    BY <1>7 DEF HandOver, Locking, Holds, Writing
  <2> QED  BY <1>0, <1>7, <2>1, QueueType, EmptyDocumentType
           DEF TypeOK, HandOver, Goto, files, observed
<1>8. ASSUME NEW w \in Writer, WriteLogged(w) PROVE TypeOK'
  <2>1. lines[w] \in SUBSET Line
    BY <1>0 DEF TypeOK
  <2>2. history \o SetToSeq(lines[w]) \in Seq(Line)
    BY <2>1, LinesAreASequence, ConcatProperties DEF TypeOK
  <2> QED  BY <1>0, <1>8, <2>1, <2>2 DEF TypeOK, WriteLogged, Goto, files, observed
<1>9. ASSUME NEW p \in Poller, ReloadHash(p) PROVE TypeOK'
  BY <1>0, <1>9, QueueType, PeersContentType DEF TypeOK, Goto, files, observed, ReloadHash
<1>10. ASSUME NEW p \in Poller, ReloadUnchanged(p) PROVE TypeOK'
  BY <1>0, <1>10, QueueType DEF TypeOK, Goto, files, observed, ReloadUnchanged, Holds
<1>11. ASSUME NEW p \in Poller, ReloadChanged(p) PROVE TypeOK'
  BY <1>0, <1>11, QueueType DEF TypeOK, Goto, files, observed, ReloadChanged, Holds
<1>12. ASSUME NEW p \in Poller, ReloadMerge(p) PROVE TypeOK'
  BY <1>0, <1>12, FolderMergeType DEF TypeOK, Goto, files, observed, ReloadMerge
<1>13. ASSUME NEW t \in Poller \cup {Main}, CommitAll(t) PROVE TypeOK'
  BY <1>0, <1>13 DEF TypeOK, Goto, files, observed, CommitAll
<1>14. ASSUME NEW t \in Thread, HeaderContended(t) PROVE TypeOK'
  BY <1>0, <1>14 DEF TypeOK, Goto, files, observed, HeaderContended
<1>15. ASSUME NEW p \in Poller, ReloadFails(p) PROVE TypeOK'
  <2>1. queue # <<>>
    BY <1>15 DEF ReloadFails, Locking, Holds, Reloading
  <2> QED  BY <1>0, <1>15, <2>1, QueueType, EmptyDocumentType
           DEF TypeOK, ReloadFails, Goto, files, observed
<1>16. ASSUME NEW p \in Poller, ReloadDone(p) PROVE TypeOK'
  BY <1>0, <1>16 DEF TypeOK, Goto, files, observed, ReloadDone
<1>17. ASSUME NEW p \in Poller, ReloadLock(p) PROVE TypeOK'
  <2>1. EntriesForChange(spare, mem, clock) \in SUBSET Line
    BY EntriesType DEF TypeOK
  <2>2. Unseen(EntriesForChange(spare, mem, clock)) \in SUBSET Line
    BY <2>1, UnseenType
  <2> QED  BY <1>0, <1>17, <2>2 DEF TypeOK, ReloadLock, Goto, files, observed
<1>18. ASSUME NEW p \in Poller, ReloadLogged(p) PROVE TypeOK'
  <2>1. lines[p] \in SUBSET Line
    BY <1>0 DEF TypeOK
  <2>2. history \o SetToSeq(lines[p]) \in Seq(Line)
    BY <2>1, LinesAreASequence, ConcatProperties DEF TypeOK
  <2> QED  BY <1>0, <1>18, <2>1, <2>2 DEF TypeOK, ReloadLogged, Goto, files, observed
<1>19. ASSUME NEW p \in Poller, ReloadRehash(p) PROVE TypeOK'
  <2>1. queue # <<>>
    BY <1>19 DEF ReloadRehash, Locking, Holds, Reloading
  <2>2. shown' \in [Id -> Stamp \cup {0}]
    <3>1. snapshot' \in Document /\ Showing(snapshot')
      BY <1>19 DEF ReloadRehash, TypeOK
    <3> QED  BY <3>1, ShowingType
  <2> QED  BY <1>0, <1>19, <2>1, <2>2, QueueType, PeersContentType, EmptyDocumentType
           DEF TypeOK, ReloadRehash, Goto, files, observed
<1>20. ASSUME Open PROVE TypeOK'
  <2>1. {t.id : t \in disk.tombs} \in SUBSET Id
    BY DEF TypeOK, Document, Tombstone
  <2>2. forgot' \in SUBSET Id
    BY <1>20, <2>1 DEF Open, TypeOK
  <2> QED  BY <1>0, <1>20, <2>2, FolderMergeType DEF TypeOK, Goto, files, observed, Open
<1>21. ASSUME OpenFails PROVE TypeOK'
  BY <1>0, <1>21, EmptyDocumentType DEF TypeOK, Goto, files, observed, OpenFails
<1>22. ASSUME OpenDone PROVE TypeOK'
  BY <1>0, <1>22 DEF TypeOK, Goto, files, observed, OpenDone
<1>23. ASSUME OpenRehash PROVE TypeOK'
  <2>1. shown' \in [Id -> Stamp \cup {0}]
    <3>1. snapshot' \in Document /\ Showing(snapshot')
      BY <1>23 DEF OpenRehash, TypeOK
    <3> QED  BY <3>1, ShowingType
  <2> QED  BY <1>0, <1>23, <2>1, PeersContentType DEF TypeOK, OpenRehash, Goto, files, observed
<1>24. ASSUME Crash PROVE TypeOK'
  <2>1. /\ mem' \in Document /\ snapshot' \in Document /\ spare' \in Document
        /\ ownHash' \in Document \cup {None} /\ peersHash' \in PeersSeen
        /\ seen' \in [Poller -> PeersSeen]
    BY <1>24, EmptyDocumentType DEF Crash, PeersSeen
  <2>2. /\ queue' \in Seq(Writer \cup Poller)
        /\ committed' \in SUBSET Line
    BY <1>24, EmptySeq, ElementOfSeq DEF Crash, TypeOK, ToSet
  <2>3. /\ historyOwner' \in Thread \cup {None} /\ running' \in BOOLEAN
        /\ pc' \in [Thread -> {"idle"}] /\ lines' \in [Thread -> SUBSET Line]
        /\ torn' \in BOOLEAN /\ late' \in SUBSET Peer
    BY <1>24 DEF Crash
  <2>4. crashes' \in 0..MaxCrashes
    BY <1>24 DEF Crash, TypeOK
  <2>5. UNCHANGED <<files, clock, born, shown, forgot, missed>>
    BY <1>24 DEF Crash
  <2> QED  BY <2>1, <2>2, <2>3, <2>4, <2>5 DEF TypeOK, files
<1>25. ASSUME NEW p \in Peer, PeerEdits(p) PROVE TypeOK'
  <2>1. clock' \in Stamp /\ clock' \in Nat
    BY <1>25, MaxStampAssumption DEF PeerEdits, PeerChanges, TypeOK, Stamp
  <2>2. peers' \in [Peer -> Document] /\ born' \in SUBSET Id
    <3>1. PICK i \in Id :
             /\ \/ PeerChanges(p, WithRow(peers[p], i, clock'))
                \/ PeerChanges(p, WithoutRow(peers[p], i, clock'))
             /\ born' = born \cup {i}
      BY <1>25 DEF PeerEdits
    <3>2. WithRow(peers[p], i, clock') \in Document /\ WithoutRow(peers[p], i, clock') \in Document
      BY <2>1, ChangeType DEF TypeOK
    <3> QED  BY <3>1, <3>2 DEF TypeOK, PeerChanges
  <2>3. /\ late' \in SUBSET Peer
        /\ UNCHANGED <<disk, readable, history, mem, ownHash, peersHash, snapshot, queue,
                       historyOwner, running, pc, spare, lines, seen, crashes, shown,
                       committed, torn, forgot, missed>>
    BY <1>25 DEF PeerEdits, PeerChanges, TypeOK
  <2> QED  BY <2>1, <2>2, <2>3 DEF TypeOK
<1>26. ASSUME NEW p \in Peer, PeerMerges(p) PROVE TypeOK'
  BY <1>0, <1>26, FolderMergeType DEF TypeOK, Goto, files, observed, PeerMerges, PeerChanges
<1>27. ASSUME NEW p \in Peer, PeerHidesOrShows(p) PROVE TypeOK'
  BY <1>0, <1>27 DEF TypeOK, Goto, files, observed, PeerHidesOrShows
<1>28. ASSUME UNCHANGED vars PROVE TypeOK'
  BY <1>28 DEF TypeOK, vars
<1> QED  BY <1>1, <1>2, <1>3, <1>4, <1>5, <1>6, <1>7, <1>8, <1>9, <1>10, <1>11, <1>12,
            <1>13, <1>14, <1>15, <1>16, <1>17, <1>18, <1>19, <1>20, <1>21, <1>22, <1>23,
            <1>24, <1>25, <1>26, <1>27, <1>28
         DEF Next, WriteStep, ReloadStep, OpenStep, FolderStep, Thread
-----------------------------------------------------------------------------
(* Who is in the store *)

Lock == ThreadStates /\ Locking

\* A thread that queues up behind others leaves the head where it is.
LEMMA QueueHead ==
    ASSUME TypeOK, NEW t \in Writer \cup Poller
    PROVE  /\ Arrive(queue, t) # <<>>
           /\ queue # <<>> => Head(Arrive(queue, t)) = Head(queue)
BY AppendProperties, HeadTailProperties DEF TypeOK, Arrive

\* At every step the thread that works on the documents holds `inner'.
LEMMA NextLock == TypeOK /\ Lock /\ [Next]_vars => Lock'
<1> SUFFICES ASSUME TypeOK, Lock, [Next]_vars PROVE Lock'
  OBVIOUS
<1>0. /\ pc \in [Thread -> {"idle", "queued", "hashed", "changed", "persist", "header",
                             "again", "log", "append", "rehash"}]
      /\ Thread = Writer \cup Poller \cup {Main}
      /\ Writer \cap Poller = {} /\ Main \notin Writer \cup Poller
  BY ThreadAssumption DEF TypeOK, Thread
<1>1. ASSUME NEW w \in Writer, Request(w) PROVE Lock'
  BY <1>0, <1>1, QueueHead DEF Request, TypeOK, Goto, Lock, Locking, ThreadStates, Writing,
     Reloading, Holds
<1>2. ASSUME NEW w \in Writer, WriteNothing(w) PROVE Lock'
  BY <1>0, <1>2 DEF WriteNothing, TypeOK, Goto, Lock, Locking, ThreadStates, Writing,
     Reloading, Holds
<1>3. ASSUME NEW w \in Writer, Change(w) PROVE Lock'
  BY <1>0, <1>3 DEF Change, TypeOK, Goto, Lock, Locking, ThreadStates, Writing,
     Reloading, Holds
<1>4. ASSUME NEW w \in Writer, CommitNext(w) PROVE Lock'
  BY <1>0, <1>4 DEF CommitNext, TypeOK, Goto, Lock, Locking, ThreadStates, Writing,
     Reloading, Holds
<1>5. ASSUME NEW w \in Writer, WriteFails(w) PROVE Lock'
  BY <1>0, <1>5 DEF WriteFails, TypeOK, Goto, Lock, Locking, ThreadStates, Writing,
     Reloading, Holds
<1>6. ASSUME NEW w \in Writer, WriteDone(w) PROVE Lock'
  BY <1>0, <1>6 DEF WriteDone, TypeOK, Goto, Lock, Locking, ThreadStates, Writing,
     Reloading, Holds
<1>7. ASSUME NEW w \in Writer, HandOver(w) PROVE Lock'
  BY <1>0, <1>7 DEF HandOver, TypeOK, Goto, Lock, Locking, ThreadStates, Writing,
     Reloading, Holds
<1>8. ASSUME NEW w \in Writer, WriteLogged(w) PROVE Lock'
  BY <1>0, <1>8 DEF WriteLogged, TypeOK, Goto, Lock, Locking, ThreadStates, Writing,
     Reloading, Holds
<1>9. ASSUME NEW p \in Poller, ReloadHash(p) PROVE Lock'
  BY <1>0, <1>9, QueueHead DEF ReloadHash, TypeOK, Goto, Lock, Locking, ThreadStates, Writing,
     Reloading, Holds
<1>10. ASSUME NEW p \in Poller, ReloadUnchanged(p) PROVE Lock'
  BY <1>0, <1>10 DEF ReloadUnchanged, TypeOK, Goto, Lock, Locking, ThreadStates, Writing,
     Reloading, Holds
<1>11. ASSUME NEW p \in Poller, ReloadChanged(p) PROVE Lock'
  BY <1>0, <1>11, QueueHead DEF ReloadChanged, TypeOK, Goto, Lock, Locking, ThreadStates, Writing,
     Reloading, Holds
<1>12. ASSUME NEW p \in Poller, ReloadMerge(p) PROVE Lock'
  BY <1>0, <1>12 DEF ReloadMerge, TypeOK, Goto, Lock, Locking, ThreadStates, Writing,
     Reloading, Holds
<1>13. ASSUME NEW t \in Poller \cup {Main}, CommitAll(t) PROVE Lock'
  BY <1>0, <1>13 DEF CommitAll, TypeOK, Goto, Lock, Locking, ThreadStates, Writing,
     Reloading, Holds
<1>14. ASSUME NEW t \in Thread, HeaderContended(t) PROVE Lock'
  BY <1>0, <1>14 DEF HeaderContended, TypeOK, Goto, Lock, Locking, ThreadStates, Writing,
     Reloading, Holds
<1>15. ASSUME NEW p \in Poller, ReloadFails(p) PROVE Lock'
  BY <1>0, <1>15 DEF ReloadFails, TypeOK, Goto, Lock, Locking, ThreadStates, Writing,
     Reloading, Holds
<1>16. ASSUME NEW p \in Poller, ReloadDone(p) PROVE Lock'
  BY <1>0, <1>16 DEF ReloadDone, TypeOK, Goto, Lock, Locking, ThreadStates, Writing,
     Reloading, Holds
<1>17. ASSUME NEW p \in Poller, ReloadLock(p) PROVE Lock'
  BY <1>0, <1>17 DEF ReloadLock, TypeOK, Goto, Lock, Locking, ThreadStates, Writing,
     Reloading, Holds
<1>18. ASSUME NEW p \in Poller, ReloadLogged(p) PROVE Lock'
  BY <1>0, <1>18 DEF ReloadLogged, TypeOK, Goto, Lock, Locking, ThreadStates, Writing,
     Reloading, Holds
<1>19. ASSUME NEW p \in Poller, ReloadRehash(p) PROVE Lock'
  BY <1>0, <1>19 DEF ReloadRehash, TypeOK, Goto, Lock, Locking, ThreadStates, Writing,
     Reloading, Holds
<1>20. ASSUME Open PROVE Lock'
  BY <1>0, <1>20 DEF Open, TypeOK, Goto, Lock, Locking, ThreadStates, Writing,
     Reloading, Holds
<1>21. ASSUME OpenFails PROVE Lock'
  BY <1>0, <1>21 DEF OpenFails, TypeOK, Goto, Lock, Locking, ThreadStates, Writing,
     Reloading, Holds
<1>22. ASSUME OpenDone PROVE Lock'
  BY <1>0, <1>22 DEF OpenDone, TypeOK, Goto, Lock, Locking, ThreadStates, Writing,
     Reloading, Holds
<1>23. ASSUME OpenRehash PROVE Lock'
  BY <1>0, <1>23 DEF OpenRehash, TypeOK, Goto, Lock, Locking, ThreadStates, Writing,
     Reloading, Holds
<1>24. ASSUME Crash PROVE Lock'
  BY <1>0, <1>24 DEF Crash, TypeOK, Goto, Lock, Locking, ThreadStates, Writing,
     Reloading, Holds
<1>25. ASSUME NEW p \in Peer, PeerEdits(p) PROVE Lock'
  BY <1>0, <1>25 DEF PeerEdits, PeerChanges, TypeOK, Goto, Lock, Locking, ThreadStates, Writing,
     Reloading, Holds
<1>26. ASSUME NEW p \in Peer, PeerMerges(p) PROVE Lock'
  BY <1>0, <1>26 DEF PeerMerges, PeerChanges, TypeOK, Goto, Lock, Locking, ThreadStates, Writing,
     Reloading, Holds
<1>27. ASSUME NEW p \in Peer, PeerHidesOrShows(p) PROVE Lock'
  BY <1>0, <1>27 DEF PeerHidesOrShows, TypeOK, Goto, Lock, Locking, ThreadStates, Writing,
     Reloading, Holds
<1>28. ASSUME UNCHANGED vars PROVE Lock'
  BY <1>28 DEF vars, Lock, Locking, ThreadStates, Writing, Reloading, Holds
<1> QED  BY <1>1, <1>2, <1>3, <1>4, <1>5, <1>6, <1>7, <1>8, <1>9, <1>10, <1>11, <1>12,
            <1>13, <1>14, <1>15, <1>16, <1>17, <1>18, <1>19, <1>20, <1>21, <1>22, <1>23,
            <1>24, <1>25, <1>26, <1>27, <1>28
         DEF Next, WriteStep, ReloadStep, OpenStep, FolderStep, Thread

-----------------------------------------------------------------------------
(* Stamps and the clock *)

\* A later clock is after everything an earlier one was.
LEMMA NoneAfterGrows ==
    ASSUME NEW d \in Document, NEW m \in Nat, NEW n \in Nat, m <= n, NoneAfter(d, m)
    PROVE  NoneAfter(d, n)
<1>1. d.rows \in [Id -> Nat] /\ \A t \in d.tombs : t.at \in Nat
  BY MaxStampAssumption DEF Document, Tombstone, Stamp
<1> QED  BY <1>1 DEF NoneAfter

\* An empty document holds no stamp.
LEMMA NothingIsNoneAfter == \A n \in Nat : NoneAfter(EmptyDocument, n)
BY DEF NoneAfter, EmptyDocument

\* The clock stays ahead of every document.
LEMMA NextYoung == TypeOK /\ Young /\ [Next]_vars => Young'
<1> SUFFICES ASSUME TypeOK, Young, [Next]_vars PROVE Young'
  OBVIOUS
<1>0. /\ clock \in Nat
      /\ disk \in Document /\ mem \in Document /\ snapshot \in Document /\ spare \in Document
      /\ \A p \in Peer : peers[p] \in Document
  BY MaxStampAssumption DEF TypeOK, Stamp
<1>1. ASSUME NEW w \in Writer, Request(w) PROVE Young'
  BY <1>0, <1>1, NothingIsNoneAfter DEF Request, Young, files, observed
<1>2. ASSUME NEW w \in Writer, WriteNothing(w) PROVE Young'
  BY <1>0, <1>2, NothingIsNoneAfter DEF WriteNothing, Young, files, observed
<1>3. ASSUME NEW w \in Writer, Change(w) PROVE Young'
  <2>1. clock' \in Stamp /\ clock' \in Nat /\ clock \in Nat /\ clock <= clock'
    BY <1>3, MaxStampAssumption DEF Change, TypeOK, Stamp
  <2>2. NoneAfter(spare', clock')
    <3>1. PICK i \in Id : spare' \in {WithRow(mem, i, clock'), WithoutRow(mem, i, clock')}
      BY <1>3 DEF Change
    <3> QED  BY <3>1, <2>1, ChangeIsNoneAfter DEF TypeOK, Young
  <2>3. /\ NoneAfter(disk, clock') /\ NoneAfter(mem, clock') /\ NoneAfter(snapshot, clock')
        /\ \A p \in Peer : NoneAfter(peers[p], clock')
    BY <1>0, <2>1, NoneAfterGrows DEF Young
  <2> QED  BY <1>3, <2>2, <2>3 DEF Change, Young, files
<1>4. ASSUME NEW w \in Writer, CommitNext(w) PROVE Young'
  <2>1. NoneAfter(disk', clock)
    BY <1>0, <1>4, WriteSinceIsNoneAfter DEF CommitNext, Young
  <2> QED  BY <1>4, <2>1 DEF CommitNext, Young
<1>5. ASSUME NEW w \in Writer, WriteFails(w) PROVE Young'
  BY <1>0, <1>5, NothingIsNoneAfter DEF WriteFails, Young, files, observed
<1>6. ASSUME NEW w \in Writer, WriteDone(w) PROVE Young'
  BY <1>0, <1>6, NothingIsNoneAfter DEF WriteDone, Young, files, observed
<1>7. ASSUME NEW w \in Writer, HandOver(w) PROVE Young'
  BY <1>0, <1>7, NothingIsNoneAfter DEF HandOver, Young, files, observed
<1>8. ASSUME NEW w \in Writer, WriteLogged(w) PROVE Young'
  BY <1>0, <1>8, NothingIsNoneAfter DEF WriteLogged, Young, files, observed
<1>9. ASSUME NEW p \in Poller, ReloadHash(p) PROVE Young'
  BY <1>0, <1>9, NothingIsNoneAfter DEF ReloadHash, Young, files, observed
<1>10. ASSUME NEW p \in Poller, ReloadUnchanged(p) PROVE Young'
  BY <1>0, <1>10, NothingIsNoneAfter DEF ReloadUnchanged, Young, files, observed
<1>11. ASSUME NEW p \in Poller, ReloadChanged(p) PROVE Young'
  BY <1>0, <1>11, NothingIsNoneAfter DEF ReloadChanged, Young, files, observed
<1>12. ASSUME NEW p \in Poller, ReloadMerge(p) PROVE Young'
  <2>1. PeerDocs \cup {mem} \in SUBSET Document /\ PeerDocs \cup {mem} # {}
    BY <1>0, PeersContentType DEF PeerDocs
  <2>2. \A d \in PeerDocs \cup {mem} : NoneAfter(d, clock)
    BY DEF PeerDocs, Young, TypeOK
  <2>3. NoneAfter(Merge(PeerDocs \cup {mem}), clock)
    BY <1>0, <2>1, <2>2, MergeIsNoneAfter
  <2> QED  BY <1>12, <2>3 DEF ReloadMerge, Young, files
<1>13. ASSUME NEW t \in Poller \cup {Main}, CommitAll(t) PROVE Young'
  BY <1>0, <1>13, NothingIsNoneAfter DEF CommitAll, Young, files, observed
<1>14. ASSUME NEW t \in Thread, HeaderContended(t) PROVE Young'
  BY <1>0, <1>14, NothingIsNoneAfter DEF HeaderContended, Young, files, observed
<1>15. ASSUME NEW p \in Poller, ReloadFails(p) PROVE Young'
  BY <1>0, <1>15, NothingIsNoneAfter DEF ReloadFails, Young, files, observed
<1>16. ASSUME NEW p \in Poller, ReloadDone(p) PROVE Young'
  BY <1>0, <1>16, NothingIsNoneAfter DEF ReloadDone, Young, files, observed
<1>17. ASSUME NEW p \in Poller, ReloadLock(p) PROVE Young'
  BY <1>0, <1>17, NothingIsNoneAfter DEF ReloadLock, Young, files, observed
<1>18. ASSUME NEW p \in Poller, ReloadLogged(p) PROVE Young'
  BY <1>0, <1>18, NothingIsNoneAfter DEF ReloadLogged, Young, files, observed
<1>19. ASSUME NEW p \in Poller, ReloadRehash(p) PROVE Young'
  BY <1>0, <1>19, NothingIsNoneAfter DEF ReloadRehash, Young, files, observed
<1>20. ASSUME Open PROVE Young'
  <2>1. OpenDocs \in SUBSET Document /\ OpenDocs # {}
    BY <1>0, PeersContentType DEF PeerDocs, OpenDocs
  <2>2. \A d \in OpenDocs : NoneAfter(d, clock)
    BY DEF PeerDocs, OpenDocs, Young, TypeOK
  <2>3. NoneAfter(Merge(OpenDocs), clock)
    BY <1>0, <2>1, <2>2, MergeIsNoneAfter
  <2> QED  BY <1>20, <2>3 DEF Open, Young, files
<1>21. ASSUME OpenFails PROVE Young'
  BY <1>0, <1>21, NothingIsNoneAfter DEF OpenFails, Young, files, observed
<1>22. ASSUME OpenDone PROVE Young'
  BY <1>0, <1>22, NothingIsNoneAfter DEF OpenDone, Young, files, observed
<1>23. ASSUME OpenRehash PROVE Young'
  BY <1>0, <1>23, NothingIsNoneAfter DEF OpenRehash, Young, files, observed
<1>24. ASSUME Crash PROVE Young'
  BY <1>0, <1>24, NothingIsNoneAfter DEF Crash, Young, files, observed
<1>25. ASSUME NEW p \in Peer, PeerEdits(p) PROVE Young'
  <2>1. clock' \in Stamp /\ clock' \in Nat /\ clock \in Nat /\ clock <= clock'
    BY <1>25, MaxStampAssumption DEF PeerEdits, PeerChanges, TypeOK, Stamp
  <2>2. PICK i \in Id : \/ PeerChanges(p, WithRow(peers[p], i, clock'))
                        \/ PeerChanges(p, WithoutRow(peers[p], i, clock'))
    BY <1>25 DEF PeerEdits
  <2>3. /\ NoneAfter(WithRow(peers[p], i, clock'), clock')
        /\ NoneAfter(WithoutRow(peers[p], i, clock'), clock')
    BY <1>0, <2>1, ChangeIsNoneAfter DEF Young
  <2>4. \A q \in Peer : NoneAfter(peers'[q], clock')
    BY <1>0, <2>1, <2>2, <2>3, NoneAfterGrows DEF Young, PeerChanges, TypeOK
  <2>5. /\ NoneAfter(disk, clock') /\ NoneAfter(mem, clock')
        /\ NoneAfter(snapshot, clock') /\ NoneAfter(spare, clock')
    BY <1>0, <2>1, NoneAfterGrows DEF Young
  <2> QED  BY <2>2, <2>4, <2>5 DEF PeerChanges, Young
<1>26. ASSUME NEW p \in Peer, PeerMerges(p) PROVE Young'
  <2> DEFINE all == {peers[q] : q \in Peer} \cup {disk}
  <2>1. all \in SUBSET Document /\ all # {} /\ \A d \in all : NoneAfter(d, clock)
    BY <1>0 DEF TypeOK, Young
  <2>2. NoneAfter(Merge(all), clock)
    BY <1>0, <2>1, MergeIsNoneAfter
  <2> QED  BY <1>26, <2>2 DEF PeerMerges, PeerChanges, Young, TypeOK
<1>27. ASSUME NEW p \in Peer, PeerHidesOrShows(p) PROVE Young'
  BY <1>0, <1>27, NothingIsNoneAfter DEF PeerHidesOrShows, Young, files, observed
<1>28. ASSUME UNCHANGED vars PROVE Young'
  BY <1>28 DEF vars, Young
<1> QED  BY <1>1, <1>2, <1>3, <1>4, <1>5, <1>6, <1>7, <1>8, <1>9, <1>10, <1>11, <1>12,
            <1>13, <1>14, <1>15, <1>16, <1>17, <1>18, <1>19, <1>20, <1>21, <1>22, <1>23,
            <1>24, <1>25, <1>26, <1>27, <1>28
         DEF Next, WriteStep, ReloadStep, OpenStep, FolderStep, Thread

-----------------------------------------------------------------------------
(* What readers were shown is durable *)

\* A document that covers one in which readers find what they were shown is as good.
LEMMA CoveredIsKnown ==
    ASSUME TypeOK, NEW d, NEW e, Covers(d, e), KnowsShown(e)
    PROVE  KnowsShown(d)
BY DEF TypeOK, Covers, KnowsShown, Knows

\* Publishing such a document keeps it so, there and in a file that covers it.
LEMMA PublishedIsKnown ==
    ASSUME TypeOK, NEW d \in Document, NEW file \in Document,
           Showing(d), KnowsShown(d), Covers(file, d), forgot' = forgot
    PROVE  \A i \in Id \ forgot' : Knows(d, i, shown'[i]) /\ Knows(file, i, shown'[i])
<1> SUFFICES ASSUME NEW i \in Id \ forgot'
             PROVE  Knows(d, i, shown'[i]) /\ Knows(file, i, shown'[i])
  OBVIOUS
<1>1. shown'[i] \in Stamp \cup {0} /\ Knows(d, i, shown'[i])
  BY ShowingType DEF KnowsShown
<1> QED  BY <1>1 DEF Covers, Knows

\* Every step keeps it: a write, a reload and a start-up, done or failed, and a crash.
LEMMA NextDurability ==
    TypeOK /\ Lock /\ Young /\ Durability /\ [Next]_vars => Durability'
<1> SUFFICES ASSUME TypeOK, ThreadStates, Locking, Young, Durability, [Next]_vars
             PROVE  Durability'
  BY DEF Lock
<1>0. /\ pc \in [Thread -> {"idle", "queued", "hashed", "changed", "persist", "header",
                             "again", "log", "append", "rehash"}]
      /\ Thread = Writer \cup Poller \cup {Main}
      /\ Writer \cap Poller = {} /\ Main \notin Writer \cup Poller
      /\ disk \in Document /\ mem \in Document /\ snapshot \in Document /\ spare \in Document
  BY ThreadAssumption DEF TypeOK, Thread
<1>1. ASSUME NEW w \in Writer, Request(w) PROVE Durability'
  BY <1>0, <1>1 DEF Request, Goto, Durability, Locking, Holds,
     ThreadStates, Reloading, Writing, NoReload, KnowsShown, files, observed
<1>2. ASSUME NEW w \in Writer, WriteNothing(w) PROVE Durability'
  BY <1>0, <1>2 DEF WriteNothing, Goto, Durability, Locking, Holds,
     ThreadStates, Reloading, Writing, NoReload, KnowsShown, files, observed
<1>3. ASSUME NEW w \in Writer, Change(w) PROVE Durability'
  <2>1. IsChange(mem, spare')
    <3>1. PICK i \in Id : \/ spare' = WithRow(mem, i, clock')
                          \/ Live(mem, i) /\ spare' = WithoutRow(mem, i, clock')
      BY <1>3 DEF Change
    <3>2. clock' \in Stamp /\ clock' - 1 = clock
      BY <1>3, MaxStampAssumption DEF Change, TypeOK, Stamp
    <3> QED  BY <3>1, <3>2 DEF IsChange, Young
  <2>2. NoReload /\ \A v \in Writer : ~Writing(v) /\ pc[v] # "log"
    BY <1>0, <1>3 DEF Change, Locking, Holds, NoReload, Reloading, Writing
  <2> QED  BY <1>0, <1>3, <2>1, <2>2 DEF Change, Goto, Durability, Locking, Holds,
     ThreadStates, Reloading, Writing, NoReload, KnowsShown, files, observed
<1>4. ASSUME NEW w \in Writer, CommitNext(w) PROVE Durability'
  <2>1. running /\ NoReload /\ pc[Main] = "idle"
    BY <1>0, <1>4 DEF CommitNext, Locking, Holds, NoReload, Reloading, Writing
  <2>2. mem = snapshot /\ Covers(disk, mem) /\ IsChange(mem, spare)
    BY <1>0, <1>4, <2>1 DEF CommitNext, Durability, Writing
  <2>3. Covers(disk', spare)
    BY <1>0, <1>4, <2>2, WriteSinceCovers DEF CommitNext
  <2>4. Covers(disk', snapshot)
    BY <1>0, <2>2, <2>3, ChangeCovers, CoversTransitive
  <2>5. KnowsShown(disk')
    BY <2>1, <2>4, CoveredIsKnown DEF Durability
  <2> QED  BY <1>0, <1>4, <2>1, <2>3, <2>4, <2>5 DEF CommitNext, Goto, Durability, Locking, Holds,
     ThreadStates, Reloading, Writing, NoReload, KnowsShown, files, observed
<1>5. ASSUME NEW w \in Writer, WriteFails(w) PROVE Durability'
  BY <1>0, <1>5 DEF WriteFails, Goto, Durability, Locking, Holds,
     ThreadStates, Reloading, Writing, NoReload, KnowsShown, files, observed
<1>6. ASSUME NEW w \in Writer, WriteDone(w) PROVE Durability'
  <2>1. running /\ NoReload /\ pc[Main] = "idle" /\ \A v \in Writer : Writing(v) => v = w
    BY <1>0, <1>6 DEF WriteDone, Locking, Holds, NoReload, Reloading, Writing
  <2>2. mem = snapshot /\ Covers(disk, spare) /\ IsChange(mem, spare) /\ KnowsShown(mem)
    BY <1>0, <1>6, <2>1 DEF WriteDone, Durability, Writing
  <2>3. KnowsShown(spare)
    BY <1>0, <2>2, ChangeCovers, CoveredIsKnown
  <2>4. KnowsShown(snapshot)' /\ KnowsShown(disk)'
    BY <1>0, <1>6, <2>2, <2>3, PublishedIsKnown DEF WriteDone, files, KnowsShown
  <2> QED  BY <1>0, <1>6, <2>1, <2>2, <2>4 DEF WriteDone, Goto, Durability, Reloading,
           Writing, NoReload, files
<1>7. ASSUME NEW w \in Writer, HandOver(w) PROVE Durability'
  BY <1>0, <1>7 DEF HandOver, Goto, Durability, Locking, Holds,
     ThreadStates, Reloading, Writing, NoReload, KnowsShown, files, observed
<1>8. ASSUME NEW w \in Writer, WriteLogged(w) PROVE Durability'
  BY <1>0, <1>8 DEF WriteLogged, Goto, Durability, Locking, Holds,
     ThreadStates, Reloading, Writing, NoReload, KnowsShown, files, observed
<1>9. ASSUME NEW p \in Poller, ReloadHash(p) PROVE Durability'
  BY <1>0, <1>9 DEF ReloadHash, Goto, Durability, Locking, Holds,
     ThreadStates, Reloading, Writing, NoReload, KnowsShown, files, observed
<1>10. ASSUME NEW p \in Poller, ReloadUnchanged(p) PROVE Durability'
  BY <1>0, <1>10 DEF ReloadUnchanged, Goto, Durability, Locking, Holds,
     ThreadStates, Reloading, Writing, NoReload, KnowsShown, files, observed
<1>11. ASSUME NEW p \in Poller, ReloadChanged(p) PROVE Durability'
  BY <1>0, <1>11 DEF ReloadChanged, Goto, Durability, Locking, Holds,
     ThreadStates, Reloading, Writing, NoReload, KnowsShown, files, observed
<1>12. ASSUME NEW p \in Poller, ReloadMerge(p) PROVE Durability'
  <2>1. running /\ NoReload /\ pc[Main] = "idle" /\ \A v \in Writer : ~Writing(v)
    BY <1>0, <1>12 DEF ReloadMerge, Locking, Holds, NoReload, Reloading, Writing
  <2>2. spare' = snapshot'
    BY <1>12, <2>1 DEF ReloadMerge, Durability
  <2>3. Covers(mem', spare')
    <3>1. PeerDocs \cup {mem} \in SUBSET Document
      BY <1>0, PeersContentType
    <3> QED  BY <1>12, <3>1, MergeCovers DEF ReloadMerge
  <2> QED  BY <1>0, <1>12, <2>1, <2>2, <2>3 DEF ReloadMerge, Goto, Durability, Locking, Holds,
     ThreadStates, Reloading, Writing, NoReload, KnowsShown, files, observed
<1>13. ASSUME NEW t \in Poller \cup {Main}, CommitAll(t) PROVE Durability'
  <2>1. CASE t \in Poller
    <3>1. running /\ pc[Main] = "idle" /\ Reloading(t) /\ \A v \in Writer : ~Writing(v)
      BY <1>0, <1>13, <2>1 DEF CommitAll, Locking, Holds, Reloading, Writing
    <3>2. Covers(mem, snapshot)
      BY <2>1, <3>1 DEF Durability
    <3>3. KnowsShown(mem)
      BY <3>1, <3>2, CoveredIsKnown DEF Durability
    <3> QED  BY <1>0, <1>13, <2>1, <3>1, <3>2, <3>3 DEF CommitAll, Goto, Durability, Locking, Holds,
     ThreadStates, Reloading, Writing, NoReload, KnowsShown, files, observed
  <2>2. CASE t = Main
    <3>1. ~running /\ \A v \in Writer \cup Poller : pc[v] = "idle"
      BY <1>0, <1>13, <2>2 DEF CommitAll, Locking
    <3> QED  BY <1>0, <1>13, <2>2, <3>1 DEF CommitAll, Goto, Durability, Locking, Holds,
     ThreadStates, Reloading, Writing, NoReload, KnowsShown, files, observed
  <2> QED  BY <2>1, <2>2
<1>14. ASSUME NEW t \in Thread, HeaderContended(t) PROVE Durability'
  BY <1>0, <1>14 DEF HeaderContended, Goto, Durability, Locking, Holds,
     ThreadStates, Reloading, Writing, NoReload, KnowsShown, files, observed
<1>15. ASSUME NEW p \in Poller, ReloadFails(p) PROVE Durability'
  BY <1>0, <1>15 DEF ReloadFails, Goto, Durability, Locking, Holds,
     ThreadStates, Reloading, Writing, NoReload, KnowsShown, files, observed
<1>16. ASSUME NEW p \in Poller, ReloadDone(p) PROVE Durability'
  BY <1>0, <1>16 DEF ReloadDone, Goto, Durability, Locking, Holds,
     ThreadStates, Reloading, Writing, NoReload, KnowsShown, files, observed
<1>17. ASSUME NEW p \in Poller, ReloadLock(p) PROVE Durability'
  BY <1>0, <1>17 DEF ReloadLock, Goto, Durability, Locking, Holds,
     ThreadStates, Reloading, Writing, NoReload, KnowsShown, files, observed
<1>18. ASSUME NEW p \in Poller, ReloadLogged(p) PROVE Durability'
  BY <1>0, <1>18 DEF ReloadLogged, Goto, Durability, Locking, Holds,
     ThreadStates, Reloading, Writing, NoReload, KnowsShown, files, observed
<1>19. ASSUME NEW p \in Poller, ReloadRehash(p) PROVE Durability'
  <2>1. running /\ pc[Main] = "idle" /\ (\A v \in Writer : ~Writing(v))
        /\ \A q \in Poller : Reloading(q) => q = p
    BY <1>0, <1>19 DEF ReloadRehash, Locking, Holds, NoReload, Reloading, Writing
  <2>2. disk = mem /\ KnowsShown(mem) /\ Covers(disk, mem)
    BY <1>0, <1>19, CoversReflexive DEF ReloadRehash, Durability, Reloading
  <2>3. KnowsShown(snapshot)' /\ KnowsShown(disk)'
    BY <1>0, <1>19, <2>2, PublishedIsKnown DEF ReloadRehash, files, KnowsShown
  <2> QED  BY <1>0, <1>19, <2>1, <2>2, <2>3 DEF ReloadRehash, Goto, Durability, Reloading,
           Writing, NoReload, files
<1>20. ASSUME Open PROVE Durability'
  <2>1. ~running /\ \A v \in Writer \cup Poller : pc[v] = "idle"
    BY <1>20 DEF Open, Locking
  <2>2. OpenDocs \in SUBSET Document
    BY <1>0, PeersContentType DEF OpenDocs
  <2>3. KnowsShown(mem)'
    <3>1. CASE disk \in OpenDocs
      <4>1. Covers(Merge(OpenDocs), disk)
        BY <2>2, <3>1, MergeCovers
      <4>2. KnowsShown(Merge(OpenDocs))
        BY <4>1, CoveredIsKnown DEF Durability
      <4> QED  BY <1>20, <3>1, <4>2 DEF Open, KnowsShown
    <3>2. CASE disk \notin OpenDocs
      <4>1. \A i \in Id : disk.rows[i] = 0
        BY <3>2 DEF OpenDocs, HasData, Live
      <4>2. ASSUME NEW i \in Id \ forgot' PROVE shown[i] = 0
        <5>1. i \notin forgot /\ \A t \in disk.tombs : t.id # i
          BY <1>20, <3>2 DEF Open
        <5>2. Knows(disk, i, shown[i])
          BY <5>1 DEF Durability, KnowsShown
        <5> QED  BY <4>1, <5>1, <5>2, MaxStampAssumption DEF Knows, TypeOK, Stamp
      <4> QED  BY <1>20, <4>2 DEF Open, KnowsShown, Knows
    <3> QED  BY <3>1, <3>2
  <2>4. KnowsShown(disk)'
    BY <1>20 DEF Open, Durability, KnowsShown, files
  <2> QED  BY <1>0, <1>20, <2>1, <2>3, <2>4 DEF Open, Goto, Durability, Reloading, Writing,
           NoReload, files
<1>21. ASSUME OpenFails PROVE Durability'
  BY <1>0, <1>21 DEF OpenFails, Goto, Durability, Locking, Holds,
     ThreadStates, Reloading, Writing, NoReload, KnowsShown, files, observed
<1>22. ASSUME OpenDone PROVE Durability'
  BY <1>0, <1>22 DEF OpenDone, Goto, Durability, Locking, Holds,
     ThreadStates, Reloading, Writing, NoReload, KnowsShown, files, observed
<1>23. ASSUME OpenRehash PROVE Durability'
  <2>1. \A v \in Writer \cup Poller : pc[v] = "idle"
    BY <1>23 DEF OpenRehash, Locking
  <2>2. disk = mem /\ KnowsShown(mem) /\ Covers(disk, mem)
    BY <1>23, CoversReflexive DEF OpenRehash, Durability
  <2>3. KnowsShown(snapshot)' /\ KnowsShown(disk)'
    BY <1>0, <1>23, <2>2, PublishedIsKnown DEF OpenRehash, files, KnowsShown
  <2> QED  BY <1>0, <1>23, <2>1, <2>2, <2>3 DEF OpenRehash, Goto, Durability, Reloading,
           Writing, NoReload, files
<1>24. ASSUME Crash PROVE Durability'
  BY <1>0, <1>24 DEF Crash, Goto, Durability, Locking, Holds,
     ThreadStates, Reloading, Writing, NoReload, KnowsShown, files, observed
<1>25. ASSUME NEW p \in Peer, PeerEdits(p) PROVE Durability'
  BY <1>0, <1>25 DEF PeerEdits, PeerChanges, Goto, Durability, Locking, Holds,
     ThreadStates, Reloading, Writing, NoReload, KnowsShown, files, observed
<1>26. ASSUME NEW p \in Peer, PeerMerges(p) PROVE Durability'
  BY <1>0, <1>26 DEF PeerMerges, PeerChanges, Goto, Durability, Locking, Holds,
     ThreadStates, Reloading, Writing, NoReload, KnowsShown, files, observed
<1>27. ASSUME NEW p \in Peer, PeerHidesOrShows(p) PROVE Durability'
  BY <1>0, <1>27 DEF PeerHidesOrShows, Goto, Durability, Locking, Holds,
     ThreadStates, Reloading, Writing, NoReload, KnowsShown, files, observed
<1>28. ASSUME UNCHANGED vars PROVE Durability'
  BY <1>28 DEF vars, Durability, Reloading, Writing, NoReload, KnowsShown
<1> QED  BY <1>1, <1>2, <1>3, <1>4, <1>5, <1>6, <1>7, <1>8, <1>9, <1>10, <1>11, <1>12,
            <1>13, <1>14, <1>15, <1>16, <1>17, <1>18, <1>19, <1>20, <1>21, <1>22, <1>23,
            <1>24, <1>25, <1>26, <1>27, <1>28
         DEF Next, WriteStep, ReloadStep, OpenStep, FolderStep, Thread

-----------------------------------------------------------------------------
(* The replica and the document in memory *)

\* Every step keeps them in agreement, until a failing persist tears the replica.
LEMMA NextAgreement ==
    TypeOK /\ Lock /\ Durability /\ Agreement /\ [Next]_vars => Agreement'
<1> SUFFICES ASSUME TypeOK, ThreadStates, Locking, Durability, Agreement, [Next]_vars
             PROVE  Agreement'
  BY DEF Lock
<1>0. /\ pc \in [Thread -> {"idle", "queued", "hashed", "changed", "persist", "header",
                             "again", "log", "append", "rehash"}]
      /\ Thread = Writer \cup Poller \cup {Main}
      /\ Writer \cap Poller = {} /\ Main \notin Writer \cup Poller
      /\ disk \in Document /\ mem \in Document /\ spare \in Document /\ torn \in BOOLEAN
  BY ThreadAssumption DEF TypeOK, Thread
<1>1. ASSUME NEW w \in Writer, Request(w) PROVE Agreement'
  BY <1>0, <1>1 DEF Request, Goto, Agreement, Locking, Holds,
     Reloading, Writing, NoReload, files, observed
<1>2. ASSUME NEW w \in Writer, WriteNothing(w) PROVE Agreement'
  BY <1>0, <1>2 DEF WriteNothing, Goto, Agreement, Locking, Holds,
     Reloading, Writing, NoReload, files, observed
<1>3. ASSUME NEW w \in Writer, Change(w) PROVE Agreement'
  BY <1>0, <1>3 DEF Change, Goto, Agreement, Locking, Holds,
     Reloading, Writing, NoReload, files, observed
<1>4. ASSUME NEW w \in Writer, CommitNext(w) PROVE Agreement'
  <2>1. running /\ NoReload /\ \A v \in Writer : Writing(v) => v = w
    BY <1>0, <1>4 DEF CommitNext, Locking, Holds, NoReload, Reloading, Writing
  <2>2. ~torn => disk \in {mem, spare}
    BY <1>4, <2>1 DEF CommitNext, Agreement, Writing
  <2>3. ~torn => disk' = spare
    BY <1>0, <1>4, <2>2, WriteSinceIsExact DEF CommitNext
  <2> QED  BY <1>0, <1>4, <2>1, <2>3 DEF CommitNext, Goto, Agreement, NoReload, Reloading,
           Writing, observed
<1>5. ASSUME NEW w \in Writer, WriteFails(w) PROVE Agreement'
  BY <1>0, <1>5 DEF WriteFails, Goto, Agreement, Locking, Holds,
     Reloading, Writing, NoReload, files, observed
<1>6. ASSUME NEW w \in Writer, WriteDone(w) PROVE Agreement'
  BY <1>0, <1>6 DEF WriteDone, Goto, Agreement, Locking, Holds,
     Reloading, Writing, NoReload, files, observed
<1>7. ASSUME NEW w \in Writer, HandOver(w) PROVE Agreement'
  BY <1>0, <1>7 DEF HandOver, Goto, Agreement, Locking, Holds,
     Reloading, Writing, NoReload, files, observed
<1>8. ASSUME NEW w \in Writer, WriteLogged(w) PROVE Agreement'
  BY <1>0, <1>8 DEF WriteLogged, Goto, Agreement, Locking, Holds,
     Reloading, Writing, NoReload, files, observed
<1>9. ASSUME NEW p \in Poller, ReloadHash(p) PROVE Agreement'
  BY <1>0, <1>9 DEF ReloadHash, Goto, Agreement, Locking, Holds,
     Reloading, Writing, NoReload, files, observed
<1>10. ASSUME NEW p \in Poller, ReloadUnchanged(p) PROVE Agreement'
  BY <1>0, <1>10 DEF ReloadUnchanged, Goto, Agreement, Locking, Holds,
     Reloading, Writing, NoReload, files, observed
<1>11. ASSUME NEW p \in Poller, ReloadChanged(p) PROVE Agreement'
  BY <1>0, <1>11 DEF ReloadChanged, Goto, Agreement, Locking, Holds,
     Reloading, Writing, NoReload, files, observed
<1>12. ASSUME NEW p \in Poller, ReloadMerge(p) PROVE Agreement'
  BY <1>0, <1>12 DEF ReloadMerge, Goto, Agreement, Locking, Holds,
     Reloading, Writing, NoReload, files, observed
<1>13. ASSUME NEW t \in Poller \cup {Main}, CommitAll(t) PROVE Agreement'
  BY <1>0, <1>13 DEF CommitAll, Goto, Agreement, Locking, Holds,
     Reloading, Writing, NoReload, files, observed
<1>14. ASSUME NEW t \in Thread, HeaderContended(t) PROVE Agreement'
  BY <1>0, <1>14 DEF HeaderContended, Goto, Agreement, Locking, Holds,
     Reloading, Writing, NoReload, files, observed
<1>15. ASSUME NEW p \in Poller, ReloadFails(p) PROVE Agreement'
  BY <1>0, <1>15 DEF ReloadFails, Goto, Agreement, Locking, Holds,
     Reloading, Writing, NoReload, files, observed
<1>16. ASSUME NEW p \in Poller, ReloadDone(p) PROVE Agreement'
  BY <1>0, <1>16 DEF ReloadDone, Goto, Agreement, Locking, Holds,
     Reloading, Writing, NoReload, files, observed
<1>17. ASSUME NEW p \in Poller, ReloadLock(p) PROVE Agreement'
  BY <1>0, <1>17 DEF ReloadLock, Goto, Agreement, Locking, Holds,
     Reloading, Writing, NoReload, files, observed
<1>18. ASSUME NEW p \in Poller, ReloadLogged(p) PROVE Agreement'
  BY <1>0, <1>18 DEF ReloadLogged, Goto, Agreement, Locking, Holds,
     Reloading, Writing, NoReload, files, observed
<1>19. ASSUME NEW p \in Poller, ReloadRehash(p) PROVE Agreement'
  <2>1. disk = mem
    BY <1>19 DEF ReloadRehash, Durability, Reloading
  <2> QED  BY <1>0, <1>19, <2>1 DEF ReloadRehash, Goto, Agreement, Locking, Holds,
     Reloading, Writing, NoReload, files, observed
<1>20. ASSUME Open PROVE Agreement'
  BY <1>0, <1>20 DEF Open, Goto, Agreement, Locking, Holds,
     Reloading, Writing, NoReload, files, observed
<1>21. ASSUME OpenFails PROVE Agreement'
  BY <1>0, <1>21 DEF OpenFails, Goto, Agreement, Locking, Holds,
     Reloading, Writing, NoReload, files, observed
<1>22. ASSUME OpenDone PROVE Agreement'
  BY <1>0, <1>22 DEF OpenDone, Goto, Agreement, Locking, Holds,
     Reloading, Writing, NoReload, files, observed
<1>23. ASSUME OpenRehash PROVE Agreement'
  <2>1. disk = mem
    BY <1>23 DEF OpenRehash, Durability, Reloading
  <2> QED  BY <1>0, <1>23, <2>1 DEF OpenRehash, Goto, Agreement, Locking, Holds,
     Reloading, Writing, NoReload, files, observed
<1>24. ASSUME Crash PROVE Agreement'
  BY <1>0, <1>24 DEF Crash, Goto, Agreement, Locking, Holds,
     Reloading, Writing, NoReload, files, observed
<1>25. ASSUME NEW p \in Peer, PeerEdits(p) PROVE Agreement'
  BY <1>0, <1>25 DEF PeerEdits, PeerChanges, Goto, Agreement, Locking, Holds,
     Reloading, Writing, NoReload, files, observed
<1>26. ASSUME NEW p \in Peer, PeerMerges(p) PROVE Agreement'
  BY <1>0, <1>26 DEF PeerMerges, PeerChanges, Goto, Agreement, Locking, Holds,
     Reloading, Writing, NoReload, files, observed
<1>27. ASSUME NEW p \in Peer, PeerHidesOrShows(p) PROVE Agreement'
  BY <1>0, <1>27 DEF PeerHidesOrShows, Goto, Agreement, Locking, Holds,
     Reloading, Writing, NoReload, files, observed
<1>28. ASSUME UNCHANGED vars PROVE Agreement'
  BY <1>28 DEF vars, Agreement, Reloading, NoReload
<1> QED  BY <1>1, <1>2, <1>3, <1>4, <1>5, <1>6, <1>7, <1>8, <1>9, <1>10, <1>11, <1>12,
            <1>13, <1>14, <1>15, <1>16, <1>17, <1>18, <1>19, <1>20, <1>21, <1>22, <1>23,
            <1>24, <1>25, <1>26, <1>27, <1>28
         DEF Next, WriteStep, ReloadStep, OpenStep, FolderStep, Thread

-----------------------------------------------------------------------------
(* Stamps of edits and of deletions *)

\* The rows and tombstones of d are those of documents in docs.
MadeFrom(d, docs) ==
    /\ \A i \in Id : d.rows[i] = 0 \/ \E e \in docs : d.rows[i] = e.rows[i]
    /\ \A t \in d.tombs : \E e \in docs : t \in e.tombs

\* What is made from documents with stamps apart has them apart.
LEMMA MadeFromKeepsApart ==
    ASSUME NEW docs \in SUBSET Document, NEW new \in SUBSET Document,
           Apart(docs), \A d \in new : MadeFrom(d, docs)
    PROVE  Apart(new)
<1> SUFFICES ASSUME NEW d \in new, NEW e \in new, NEW t \in e.tombs, d.rows[t.id] = t.at
             PROVE  FALSE
  BY DEF Apart
<1>1. t.id \in Id /\ t.at # 0
  BY MaxStampAssumption DEF Document, Tombstone, Stamp
<1> QED  BY <1>1 DEF MadeFrom, Apart

\* A document is made from any documents it is one of.
LEMMA MembersAreMadeFrom == \A docs : \A d \in docs : MadeFrom(d, docs)
BY DEF MadeFrom

\* An empty document is made from any.
LEMMA NothingIsMadeFrom == \A docs : MadeFrom(EmptyDocument, docs)
BY DEF MadeFrom, EmptyDocument

\* A merge invents no stamp.
LEMMA MergeIsMadeFrom ==
    ASSUME NEW docs \in SUBSET Document, docs # {}, NEW all, docs \subseteq all
    PROVE  MadeFrom(Merge(docs), all)
<1>1. ASSUME NEW i \in Id
      PROVE  Merge(docs).rows[i] = 0 \/ \E e \in all : Merge(docs).rows[i] = e.rows[i]
  BY NewestRowIsNewest DEF Merge
<1>2. ASSUME NEW t \in Merge(docs).tombs PROVE \E e \in all : t \in e.tombs
  BY DEF Merge
<1> QED  BY <1>1, <1>2 DEF MadeFrom

\* Nor does a delta written to the file.
LEMMA WriteSinceIsMadeFrom ==
    ASSUME NEW file, NEW prev, NEW next, NEW all, {file, next} \subseteq all
    PROVE  MadeFrom(WriteSince(file, prev, next), all)
BY DEF WriteSince, Patch, MadeFrom

\* A change brings a stamp that no document has.
LEMMA ChangeKeepsApart ==
    ASSUME NEW docs \in SUBSET Document, NEW prev \in docs, NEW i \in Id, NEW s \in Stamp,
           NEW next \in {WithRow(prev, i, s), WithoutRow(prev, i, s)},
           Apart(docs), \A d \in docs : NoneAfter(d, s - 1)
    PROVE  Apart(docs \cup {next})
<1>1. next \in Document
  BY ChangeType
<1>2. /\ s \in Nat \ {0}
      /\ \A d \in docs : \A j \in Id : d.rows[j] # s
      /\ \A d \in docs : \A t \in d.tombs : t.at # s /\ t.id \in Id /\ t.at # 0
  BY MaxStampAssumption DEF Stamp, NoneAfter, Document, Tombstone
<1>3. /\ \A j \in Id : next.rows[j] \in {s, 0} \/ next.rows[j] = prev.rows[j]
      /\ \A t \in next.tombs : t \in prev.tombs \/ t = [id |-> i, at |-> s]
      /\ (\A t \in next.tombs : t \in prev.tombs) \/ \A j \in Id : next.rows[j] # s
  <2>1. prev.rows \in [Id -> Stamp \cup {0}] /\ prev = [rows |-> prev.rows, tombs |-> prev.tombs]
    BY DEF Document
  <2>2. CASE next = WithRow(prev, i, s)
    <3>1. next.tombs = prev.tombs /\ next.rows = [prev.rows EXCEPT ![i] = s]
      BY <2>1, <2>2 DEF WithRow
    <3> QED  BY <2>1, <3>1
  <2>3. CASE next = WithoutRow(prev, i, s)
    <3>1. /\ next.tombs = prev.tombs \cup {[id |-> i, at |-> s]}
          /\ next.rows = [prev.rows EXCEPT ![i] = 0]
      BY <2>3 DEF WithoutRow
    <3> QED  BY <2>1, <3>1, <1>2
  <2> QED  BY <2>2, <2>3
<1> SUFFICES ASSUME NEW d \in docs \cup {next}, NEW e \in docs \cup {next}, NEW t \in e.tombs,
                    d.rows[t.id] = t.at
             PROVE  FALSE
  BY DEF Apart
<1>4. CASE t = [id |-> i, at |-> s] /\ t \notin prev.tombs
  <2>1. t.id = i /\ t.at = s
    BY <1>4
  <2>2. e = next
    BY <1>2, <2>1
  <2>3. \A j \in Id : next.rows[j] # s
    BY <1>3, <1>4, <2>2
  <2> QED  BY <1>2, <2>1, <2>3
<1>5. CASE \E f \in docs : t \in f.tombs
  <2>1. t.id \in Id /\ t.at # s /\ t.at # 0
    BY <1>2, <1>5
  <2>2. \E c \in docs : c.rows[t.id] = t.at
    BY <1>3, <2>1
  <2> QED  BY <1>5, <2>2 DEF Apart
<1> QED  BY <1>3, <1>4, <1>5

\* No step gives an edit the stamp of a deletion.
LEMMA NextApart == TypeOK /\ Lock /\ Young /\ Apart(Docs) /\ [Next]_vars => Apart(Docs)'
<1> SUFFICES ASSUME TypeOK, Lock, Young, Apart(Docs), [Next]_vars PROVE Apart(Docs')
  BY DEF Apart
<1>0. /\ disk \in Document /\ mem \in Document /\ snapshot \in Document /\ spare \in Document
      /\ peers \in [Peer -> Document] /\ clock \in Nat
      /\ \A d \in Docs : d \in Document /\ NoneAfter(d, clock)
  BY MaxStampAssumption DEF TypeOK, Docs, Young, Stamp
<1>T. TypeOK' /\ Docs' \in SUBSET Document
  <2>1. TypeOK'
    BY NextType DEF Lock
  <2> QED  BY <2>1 DEF TypeOK, Docs
<1>M. (\A d \in Docs' : MadeFrom(d, Docs)) => Apart(Docs')
  BY <1>0, <1>T, MadeFromKeepsApart
<1>S. CASE Docs' \subseteq Docs \cup {EmptyDocument}
  BY <1>M, <1>S, MembersAreMadeFrom, NothingIsMadeFrom
<1>1. CASE UNCHANGED <<disk, mem, snapshot, spare, peers>>
  BY <1>1, <1>S DEF Docs
<1>2. ASSUME NEW w \in Writer, Change(w) PROVE Apart(Docs')
  <2>1. clock' \in Stamp /\ clock' = clock + 1
    BY <1>2, <1>T DEF Change, TypeOK, Stamp
  <2>2. PICK i \in Id : spare' \in {WithRow(mem, i, clock'), WithoutRow(mem, i, clock')}
    BY <1>2 DEF Change
  <2>3. \A d \in Docs : NoneAfter(d, clock' - 1)
    BY <1>0, <2>1
  <2>4. Apart(Docs \cup {spare'})
    BY <1>0, <2>1, <2>2, <2>3, ChangeKeepsApart DEF Docs
  <2>5. Docs' \subseteq Docs \cup {spare'}
    BY <1>2 DEF Change, files, Docs
  <2> QED  BY <2>4, <2>5 DEF Apart
<1>3. ASSUME NEW w \in Writer, CommitNext(w) PROVE Apart(Docs')
  <2>1. MadeFrom(disk', Docs)
    BY <1>3, WriteSinceIsMadeFrom DEF CommitNext, Docs
  <2>2. Docs' \subseteq Docs \cup {disk'}
    BY <1>3 DEF CommitNext, Docs
  <2> QED  BY <1>M, <2>1, <2>2, MembersAreMadeFrom
<1>4. ASSUME NEW w \in Writer, WriteFails(w) \/ WriteDone(w) PROVE Apart(Docs')
  BY <1>4, <1>S DEF WriteFails, WriteDone, files, Docs
<1>5. ASSUME NEW p \in Poller, ReloadMerge(p) PROVE Apart(Docs')
  <2>1. MadeFrom(mem', Docs)
    <3>1. PeerDocs \cup {mem} \in SUBSET Document /\ PeerDocs \cup {mem} \subseteq Docs
      BY <1>0 DEF PeerDocs, TypeOK, Docs
    <3> QED  BY <1>5, <3>1, MergeIsMadeFrom DEF ReloadMerge
  <2>2. Docs' \subseteq Docs \cup {mem'}
    BY <1>5 DEF ReloadMerge, files, Docs
  <2> QED  BY <1>M, <2>1, <2>2, MembersAreMadeFrom
<1>6. ASSUME NEW t \in Thread, CommitAll(t) PROVE Apart(Docs')
  BY <1>6, <1>S DEF CommitAll, Docs
<1>7. ASSUME NEW p \in Poller, ReloadFails(p) \/ ReloadRehash(p) PROVE Apart(Docs')
  BY <1>7, <1>S DEF ReloadFails, ReloadRehash, files, Docs
<1>8. ASSUME Open PROVE Apart(Docs')
  <2>1. MadeFrom(mem', Docs)
    <3>1. OpenDocs \in SUBSET Document /\ OpenDocs \subseteq Docs /\ OpenDocs # {}
      BY <1>0 DEF OpenDocs, PeerDocs, TypeOK, Docs
    <3> QED  BY <1>8, <3>1, MergeIsMadeFrom DEF Open
  <2>2. Docs' \subseteq Docs \cup {mem'}
    BY <1>8 DEF Open, files, Docs
  <2> QED  BY <1>M, <2>1, <2>2, MembersAreMadeFrom
<1>9. CASE OpenFails \/ OpenRehash \/ Crash
  BY <1>9, <1>S DEF OpenFails, OpenRehash, Crash, files, Docs
<1>10. ASSUME NEW p \in Peer, PeerEdits(p) PROVE Apart(Docs')
  <2>1. clock' \in Stamp /\ clock' = clock + 1
    BY <1>10, <1>T DEF PeerEdits, TypeOK, Stamp
  <2>2. PICK i \in Id : \E d \in {WithRow(peers[p], i, clock'), WithoutRow(peers[p], i, clock')} :
             PeerChanges(p, d)
    BY <1>10 DEF PeerEdits
  <2> PICK d \in {WithRow(peers[p], i, clock'), WithoutRow(peers[p], i, clock')} :
             PeerChanges(p, d)
    BY <2>2
  <2>3. \A e \in Docs : NoneAfter(e, clock' - 1)
    BY <1>0, <2>1
  <2>4. Apart(Docs \cup {d})
    <3>1. Docs \in SUBSET Document /\ peers[p] \in Docs
      BY <1>0 DEF Docs
    <3> QED  BY <2>1, <2>3, <3>1, ChangeKeepsApart
  <2>5. Docs' \subseteq Docs \cup {d}
    BY <1>0, <2>2 DEF PeerChanges, Docs
  <2> QED  BY <2>4, <2>5 DEF Apart
<1>11. ASSUME NEW p \in Peer, PeerMerges(p) PROVE Apart(Docs')
  <2> DEFINE all == {peers[q] : q \in Peer} \cup {disk}
  <2>1. MadeFrom(Merge(all), Docs)
    <3>1. all \in SUBSET Document /\ all \subseteq Docs
      BY <1>0 DEF Docs
    <3> QED  BY <3>1, MergeIsMadeFrom
  <2>2. Docs' \subseteq Docs \cup {Merge(all)}
    BY <1>0, <1>11 DEF PeerMerges, PeerChanges, Docs
  <2> QED  BY <1>M, <2>1, <2>2, MembersAreMadeFrom
<1>12. CASE ~UNCHANGED <<disk, mem, snapshot, spare, peers>>
  BY <1>12, <1>2, <1>3, <1>4, <1>5, <1>6, <1>7, <1>8, <1>9, <1>10, <1>11
     DEF Next, WriteStep, ReloadStep, OpenStep, FolderStep, Thread, Request, WriteNothing,
         HandOver, WriteLogged, HeaderContended, ReloadHash, ReloadUnchanged, ReloadChanged,
         ReloadDone, ReloadLock, ReloadLogged, OpenDone, PeerHidesOrShows, files, vars
<1> QED  BY <1>1, <1>12

\* In the documents of the store a row is newer than every deletion of its entity.
LEMMA NextEditOrder ==
    TypeOK /\ Lock /\ Young /\ Durability /\ EditOrder /\ [Next]_vars => EditOrder'
<1> SUFFICES ASSUME TypeOK, ThreadStates, Locking, Young, Durability, EditOrder, [Next]_vars,
                    RowsOutliveTombs(mem), RowsOutliveTombs(spare)
             PROVE  RowsOutliveTombs(mem)' /\ RowsOutliveTombs(spare)'
  BY NextApart DEF EditOrder, Lock
<1>0. /\ disk \in Document /\ mem \in Document /\ spare \in Document
      /\ PeerDocs \in SUBSET Document
      /\ RowsOutliveTombs(EmptyDocument)
  BY PeersContentType DEF TypeOK, RowsOutliveTombs, EmptyDocument
<1>1. CASE mem' \in {mem, spare, EmptyDocument} /\ spare' \in {mem, spare, EmptyDocument}
  BY <1>0, <1>1 DEF RowsOutliveTombs, Live
<1>2. ASSUME NEW w \in Writer, Change(w) PROVE RowsOutliveTombs(mem)' /\ RowsOutliveTombs(spare)'
  <2>1. Durability'
    BY NextDurability DEF Lock
  <2>2. IsChange(mem', spare') /\ mem' = mem
    BY <1>2, <2>1 DEF Change, Goto, TypeOK, Thread, Durability, Writing
  <2> QED  BY <1>0, <2>2, ChangeKeepsOrder DEF RowsOutliveTombs, Live
<1>3. ASSUME NEW p \in Poller, ReloadMerge(p) PROVE RowsOutliveTombs(mem)' /\ RowsOutliveTombs(spare)'
  <2>1. RowsOutliveTombs(Merge(PeerDocs \cup {mem}))
    BY <1>0, MergeAbsorbs
  <2> QED  BY <1>3, <2>1 DEF ReloadMerge, RowsOutliveTombs, Live
<1>4. ASSUME Open PROVE RowsOutliveTombs(mem)' /\ RowsOutliveTombs(spare)'
  <2>1. OpenDocs \in SUBSET Document /\ OpenDocs # {}
    BY <1>0 DEF OpenDocs
  <2>2. RowsOutliveTombs(Merge(OpenDocs))
    BY <2>1, MergeAbsorbs
  <2> QED  BY <1>4, <2>2 DEF Open, RowsOutliveTombs, Live
<1>5. CASE ~(mem' \in {mem, spare, EmptyDocument} /\ spare' \in {mem, spare, EmptyDocument})
  BY <1>5, <1>2, <1>3, <1>4
     DEF Next, WriteStep, ReloadStep, OpenStep, FolderStep, Thread, Request, WriteNothing,
         CommitNext, WriteFails, WriteDone, HandOver, WriteLogged, HeaderContended, ReloadHash,
         ReloadUnchanged, ReloadChanged, CommitAll, ReloadFails, ReloadDone, ReloadLock,
         ReloadLogged, ReloadRehash, OpenFails, OpenDone, OpenRehash, Crash, PeerEdits,
         PeerMerges, PeerHidesOrShows, PeerChanges, files, vars
<1> QED  BY <1>1, <1>5

-----------------------------------------------------------------------------
(* What the peers' hash stands for *)

\* A document that absorbs another has absorbed whatever that one had.
LEMMA SeenStaysAbsorbed ==
    ASSUME TypeOK, NEW d \in Document, NEW e \in Document, Absorbs(d, e), AbsorbsSeen(e)
    PROVE  AbsorbsSeen(d)
<1>1. \A p \in Peer : peersHash[p] # None => peersHash[p] \in Document
  BY DEF TypeOK, PeersSeen
<1> QED  BY <1>1, AbsorbsTransitive DEF AbsorbsSeen

\* The document in memory keeps having absorbed the peers' documents that were hashed.
LEMMA NextAbsorption ==
    TypeOK /\ Lock /\ Durability /\ Absorption /\ [Next]_vars => Absorption'
<1> SUFFICES ASSUME TypeOK, ThreadStates, Locking, Durability, Absorption, [Next]_vars
             PROVE  Absorption'
  BY DEF Lock
<1>0. /\ pc \in [Thread -> {"idle", "queued", "hashed", "changed", "persist", "header",
                             "again", "log", "append", "rehash"}]
      /\ Thread = Writer \cup Poller \cup {Main}
      /\ Writer \cap Poller = {} /\ Main \notin Writer \cup Poller
      /\ disk \in Document /\ mem \in Document /\ spare \in Document
      /\ PeerDocs \in SUBSET Document /\ \A q \in readable : peers[q] \in PeerDocs
      /\ None \notin Document /\ peers \in [Peer -> Document]
      /\ readable \subseteq Peer
  BY ThreadAssumption, PeersContentType DEF TypeOK, Thread, PeerDocs
<1>1. ASSUME NEW w \in Writer, Request(w) \/ WriteNothing(w) PROVE Absorption'
  BY <1>0, <1>1 DEF Request, WriteNothing, Goto, Absorption, AbsorbsSeen, Reloading, files,
     observed
<1>2. ASSUME NEW w \in Writer, Change(w) PROVE Absorption'
  <2>1. /\ \A v \in Writer : ~Writing(v)
        /\ \A p \in Poller : ~Reloading(p)
    BY <1>0, <1>2 DEF Change, Locking, Holds, Writing, Reloading
  <2> QED  BY <1>0, <1>2, <2>1 DEF Change, Goto, Absorption, AbsorbsSeen, Writing, Reloading,
           files, observed
<1>3. ASSUME NEW w \in Writer, CommitNext(w) PROVE Absorption'
  <2>1. Writable(spare)
    BY <1>3, WriteSinceIsWritable DEF CommitNext, Absorption
  <2> QED  BY <1>0, <1>3, <2>1 DEF CommitNext, Goto, Absorption, AbsorbsSeen, Reloading, observed
<1>4. ASSUME NEW w \in Writer, WriteFails(w) PROVE Absorption'
  <2>1. /\ \A v \in Writer : v # w => ~Writing(v)
        /\ \A p \in Poller : ~Reloading(p)
    BY <1>0, <1>4 DEF WriteFails, Locking, Holds, Writing, Reloading
  <2> QED  BY <1>0, <1>4, <2>1 DEF WriteFails, Goto, Absorption, AbsorbsSeen, Writing,
           Reloading, files
<1>5. ASSUME NEW w \in Writer, WriteDone(w) PROVE Absorption'
  <2>1. /\ \A v \in Writer : v # w => ~Writing(v)
        /\ \A p \in Poller : ~Reloading(p)
        /\ running /\ pc[Main] = "idle" /\ IsChange(mem, spare) /\ Writable(spare)
    BY <1>0, <1>5 DEF WriteDone, Locking, Holds, Reloading, Writing, Durability, Absorption
  <2>2. AbsorbsSeen(mem) => AbsorbsSeen(spare)
    BY <1>0, <2>1, ChangeAbsorbs, SeenStaysAbsorbed
  <2> QED  BY <1>0, <1>5, <2>1, <2>2 DEF WriteDone, Goto, Absorption, AbsorbsSeen, Writing,
           Reloading, files
<1>6. ASSUME NEW w \in Writer, HandOver(w) \/ WriteLogged(w) PROVE Absorption'
  BY <1>0, <1>6 DEF HandOver, WriteLogged, Goto, Absorption, AbsorbsSeen, Reloading, files,
     observed
<1>7. ASSUME NEW p \in Poller, ReloadHash(p) \/ ReloadUnchanged(p) \/ ReloadChanged(p)
      PROVE  Absorption'
  BY <1>0, <1>7 DEF ReloadHash, ReloadUnchanged, ReloadChanged, Goto, Absorption, AbsorbsSeen,
     Reloading, files, observed
<1>8. ASSUME NEW p \in Poller, ReloadMerge(p) PROVE Absorption'
  <2>1. running /\ pc[Main] = "idle" /\ \A v \in Writer : ~Writing(v)
    BY <1>0, <1>8 DEF ReloadMerge, Locking, Holds, Writing
  <2>2. PeerDocs \cup {mem} \in SUBSET Document
    BY <1>0
  <2>3. /\ mem' \in Document /\ Writable(mem') /\ Absorbs(mem', mem)
        /\ \A q \in readable : Absorbs(mem', peers[q])
    BY <1>0, <1>8, <2>2, MergeType, MergeIsWritable, MergeAbsorbs DEF ReloadMerge
  <2>4. AbsorbsSeen(mem) => AbsorbsSeen(mem')
    BY <1>0, <2>3, SeenStaysAbsorbed
  <2> QED  BY <1>0, <1>8, <2>1, <2>3, <2>4 DEF ReloadMerge, Goto, Absorption, AbsorbsSeen,
           Writing, Reloading, files
<1>9. ASSUME NEW t \in Poller \cup {Main}, CommitAll(t) PROVE Absorption'
  BY <1>0, <1>9 DEF CommitAll, Goto, Absorption, AbsorbsSeen, Reloading, observed
<1>10. ASSUME NEW t \in Thread, HeaderContended(t) PROVE Absorption'
  BY <1>0, <1>10 DEF HeaderContended, Goto, Absorption, AbsorbsSeen, Reloading, files, observed
<1>11. ASSUME NEW p \in Poller, ReloadFails(p) PROVE Absorption'
  <2>1. /\ running /\ pc[Main] = "idle" /\ Reloading(p)
        /\ \A v \in Writer : ~Writing(v)
        /\ \A q \in Poller : q # p => ~Reloading(q)
    BY <1>0, <1>11 DEF ReloadFails, Locking, Holds, Writing, Reloading
  <2> QED  BY <1>0, <1>11, <2>1 DEF ReloadFails, Goto, Absorption, AbsorbsSeen, Writing,
           Reloading, files
<1>12. ASSUME NEW p \in Poller, ReloadDone(p) \/ ReloadLock(p) \/ ReloadLogged(p)
       PROVE  Absorption'
  BY <1>0, <1>12 DEF ReloadDone, ReloadLock, ReloadLogged, Goto, Absorption, AbsorbsSeen,
     Reloading, files
<1>13. ASSUME NEW p \in Poller, ReloadRehash(p) PROVE Absorption'
  <2>1. /\ running /\ pc[Main] = "idle" /\ Reloading(p)
        /\ \A v \in Writer : ~Writing(v)
        /\ \A q \in Poller : q # p => ~Reloading(q)
    BY <1>0, <1>13 DEF ReloadRehash, Locking, Holds, Writing, Reloading
  <2>2. missed' = {} => \A q \in readable : Absorbs(mem, peers[q])
    BY <1>13, <2>1 DEF ReloadRehash, Absorption
  <2>3. missed' = {} => AbsorbsSeen(mem)'
    BY <1>0, <1>13, <2>2 DEF ReloadRehash, AbsorbsSeen, PeersContent
  <2> QED  BY <1>0, <1>13, <2>1, <2>3 DEF ReloadRehash, Goto, Absorption, Writing, Reloading, files
<1>14. ASSUME Open PROVE Absorption'
  <2>1. ~running /\ \A v \in Writer \cup Poller : pc[v] = "idle"
    BY <1>14 DEF Open, Locking
  <2>2. OpenDocs \in SUBSET Document /\ \A q \in readable : peers[q] \in OpenDocs
    BY <1>0 DEF OpenDocs
  <2>3. Writable(mem') /\ \A q \in readable : Absorbs(mem', peers[q])
    BY <1>14, <2>2, MergeIsWritable, MergeAbsorbs DEF Open
  <2> QED  BY <1>0, <1>14, <2>1, <2>3 DEF Open, Goto, Absorption, Reloading, files
<1>15. ASSUME OpenFails \/ OpenDone PROVE Absorption'
  <2>1. ~running /\ (\A v \in Writer \cup Poller : pc[v] = "idle") /\ Writable(EmptyDocument)
    BY <1>15 DEF OpenFails, OpenDone, Locking, Writable, EmptyDocument
  <2> QED  BY <1>0, <1>15, <2>1 DEF OpenFails, OpenDone, Goto, Absorption, AbsorbsSeen,
           Reloading, files
<1>16. ASSUME OpenRehash PROVE Absorption'
  <2>1. \A v \in Writer \cup Poller : pc[v] = "idle"
    BY <1>16 DEF OpenRehash, Locking
  <2>2. missed' = {} => \A q \in readable : Absorbs(mem, peers[q])
    BY <1>16 DEF OpenRehash, Absorption
  <2>3. missed' = {} => AbsorbsSeen(mem)'
    BY <1>0, <1>16, <2>2 DEF OpenRehash, AbsorbsSeen, PeersContent
  <2> QED  BY <1>0, <1>16, <2>1, <2>3 DEF OpenRehash, Goto, Absorption, Reloading, files
<1>17. ASSUME Crash PROVE Absorption'
  <2>1. Writable(EmptyDocument)
    BY DEF Writable, EmptyDocument
  <2> QED  BY <1>0, <1>17, <2>1 DEF Crash, Absorption, Reloading, files
<1>18. ASSUME NEW p \in Peer, PeerEdits(p) \/ PeerMerges(p) \/ PeerHidesOrShows(p)
       PROVE  Absorption'
  <2>1. /\ \A q \in Peer \ {p} : peers'[q] = peers[q] /\ (q \in readable' <=> q \in readable)
        /\ late' = IF MergeWindow THEN late \cup {p} ELSE late
        /\ UNCHANGED <<mem, spare, pc, running, missed, peersHash>>
        /\ readable' \subseteq Peer
    BY <1>0, <1>18 DEF PeerEdits, PeerMerges, PeerHidesOrShows, PeerChanges
  <2>2. (pc[Main] # "idle" \/ \E q \in Poller : Reloading(q)) => MergeWindow
    BY DEF ThreadStates, MergeWindow, Reloading
  <2>3. (pc[Main] # "idle" \/ \E q \in Poller : Reloading(q)) =>
           \A q \in readable' \ late' : q # p /\ Absorbs(mem, peers'[q])
    BY <2>1, <2>2 DEF Absorption
  <2> QED  BY <2>1, <2>3 DEF Absorption, AbsorbsSeen, Reloading
<1>19. CASE UNCHANGED vars
  BY <1>19 DEF vars, Absorption, AbsorbsSeen, Reloading
<1> QED  BY <1>1, <1>2, <1>3, <1>4, <1>5, <1>6, <1>7, <1>8, <1>9, <1>10, <1>11, <1>12,
            <1>13, <1>14, <1>15, <1>16, <1>17, <1>18, <1>19
         DEF Next, WriteStep, ReloadStep, OpenStep, FolderStep, Thread

-----------------------------------------------------------------------------
(* The theorems about the documents *)

\* The invariant holds when the device is off.
LEMMA InitInvariant == Init => IInv
<1> SUFFICES ASSUME Init PROVE IInv
  OBVIOUS
<1>1. TypeOK
  BY InitType
<1>2. Young
  <2>1. NoneAfter(SharedDocument, 1)
    BY DEF SharedDocument, NoneAfter
  <2>2. NoneAfter(EmptyDocument, 1)
    BY NothingIsNoneAfter
  <2> QED  BY <2>1, <2>2 DEF Init, Young
<1>3. ThreadStates /\ Locking
  BY DEF Init, Thread, ThreadStates, Locking, Writing, Reloading, Holds
<1>4. Durability
  BY DEF Init, Thread, Durability, Writing, Reloading, KnowsShown, Knows
<1>5. Agreement
  BY DEF Init, Thread, Agreement
<1>6. EditOrder
  BY DEF Init, EditOrder, Apart, Docs, RowsOutliveTombs, SharedDocument, EmptyDocument
<1>7. Absorption
  BY DEF Init, Thread, Absorption, Reloading, Writable, EmptyDocument
<1> QED  BY <1>1, <1>2, <1>3, <1>4, <1>5, <1>6, <1>7 DEF IInv

\* Every step keeps the invariant.
LEMMA NextInvariant == IInv /\ [Next]_vars => IInv'
BY NextType, NextLock, NextYoung, NextDurability, NextAgreement, NextEditOrder, NextAbsorption
   DEF IInv, Lock

\* The inductive invariant holds through every step of the writes, the reloads, start-up,
\* a crash and the folder's changes (AppState::write, reload_replicas_if_changed, open).
THEOREM Invariance == Spec => []IInv
<1>1. Init => IInv
  BY InitInvariant
<1>2. IInv /\ [Next]_vars => IInv'
  BY NextInvariant
<1> QED  BY <1>1, <1>2, PTL DEF Spec

\* The state of the store keeps its type.
THEOREM TypeCorrect == Spec => []TypeOK
<1>1. IInv => TypeOK
  BY DEF IInv
<1> QED  BY <1>1, Invariance, PTL

\* An idle store's replica holds the document in memory (AppState::write, reload and
\* open: a failed persist leaves the committed document in place), unless a persist
\* that failed had already committed its rows.
THEOREM QuietReplica == Spec => []QuietReplicaHoldsDocument
<1>1. IInv => QuietReplicaHoldsDocument
  BY DEF IInv, QuietReplicaHoldsDocument, Quiet, Agreement, ThreadStates, Locking, Holds,
         NoReload, Writing
<1> QED  BY <1>1, Invariance, PTL

\* Whatever a reader was shown is in this device's replica from then on, through every
\* interleaving of writes and reloads, failed persists, crashes and restarts.
THEOREM Durable == Spec => []ShownIsDurable
<1>1. IInv => ShownIsDurable
  BY DEF IInv, Durability, KnowsShown, ShownIsDurable
<1> QED  BY <1>1, Invariance, PTL

\* The peers' hash claims no more than was merged: when it is the hash of what the peers
\* hold, a reload that skips them misses nothing (reload_replicas_if_changed compares
\* peers_hash), unless a peer changed between a merge and the hash taken after it.
THEOREM HashIsHonest == Spec => []SeenIsMerged
<1>1. IInv => SeenIsMerged
  <2> SUFFICES ASSUME IInv, Quiet, peersHash = PeersContent, missed = {}
               PROVE  UpToDate(mem)
    BY DEF SeenIsMerged
  <2>1. /\ mem \in Document /\ PeerDocs \in SUBSET Document /\ None \notin Document
        /\ \A q \in readable : q \in Peer /\ peers[q] \in Document
    BY ThreadAssumption, PeersContentType DEF IInv, TypeOK
  <2>2. \A q \in readable : Absorbs(mem, peers[q])
    BY <2>1 DEF IInv, Quiet, Absorption, AbsorbsSeen, PeersContent
  <2>3. \A e \in PeerDocs \cup {mem} : Absorbs(mem, e)
    BY <2>1, <2>2, AbsorbsReflexive DEF PeerDocs
  <2> QED  BY <2>1, <2>3, AbsorbedMergeIsSame DEF IInv, EditOrder, Absorption, UpToDate
<1> QED  BY <1>1, Invariance, PTL

-----------------------------------------------------------------------------
(* The steps that have to do with the history *)

\* The history, the entries that wait for it and whose turn it is stay as they are.
LogStutters ==
    /\ UNCHANGED <<history, lines, historyOwner, committed>>
    /\ clock <= clock' /\ forgot \subseteq forgot'
    /\ \A t \in Thread : pc'[t] = "append" <=> pc[t] = "append"
    /\ \A t \in Writer \cup Poller : lines[t] # {} => (pc'[t] = "log" <=> pc[t] = "log")
    /\ \A w \in Writer : lines[w] # {} =>
         pc'[w] \in {"persist", "header", "again", "log", "append"}

LogStep ==
    \/ \E w \in Writer : Change(w) \/ WriteFails(w) \/ WriteDone(w) \/ HandOver(w)
                           \/ WriteLogged(w)
    \/ \E p \in Poller : ReloadLock(p) \/ ReloadLogged(p)
    \/ Crash

\* Every step is one of those or leaves the history alone.
LEMMA NextLogStep == TypeOK /\ Lock /\ LogTurns /\ [Next]_vars => LogStutters \/ LogStep
<1> SUFFICES ASSUME TypeOK, ThreadStates, Locking, LogTurns, [Next]_vars, ~LogStep
             PROVE  LogStutters
  BY DEF Lock
<1>0. /\ pc \in [Thread -> {"idle", "queued", "hashed", "changed", "persist", "header",
                             "again", "log", "append", "rehash"}]
      /\ Thread = Writer \cup Poller \cup {Main}
      /\ Writer \cap Poller = {} /\ Main \notin Writer \cup Poller
      /\ clock \in Nat
  BY ThreadAssumption, MaxStampAssumption DEF TypeOK, Thread, Stamp
<1>1. ASSUME NEW w \in Writer, Request(w) \/ WriteNothing(w) \/ CommitNext(w)
      PROVE  LogStutters
  BY <1>0, <1>1 DEF Request, WriteNothing, CommitNext, Goto, LogStutters, LogTurns, Writing,
     files, observed
<1>2. ASSUME NEW p \in Poller, ReloadHash(p) \/ ReloadUnchanged(p) \/ ReloadChanged(p)
                                 \/ ReloadMerge(p)
      PROVE  LogStutters
  BY <1>0, <1>2 DEF ReloadHash, ReloadUnchanged, ReloadChanged, ReloadMerge, Goto,
     LogStutters, LogTurns, Writing, files, observed
<1>3. ASSUME NEW p \in Poller, ReloadFails(p) \/ ReloadDone(p) \/ ReloadRehash(p)
      PROVE  LogStutters
  BY <1>0, <1>3 DEF ReloadFails, ReloadDone, ReloadRehash, Goto,
     LogStutters, LogTurns, Writing, files, observed
<1>4. ASSUME NEW t \in Poller \cup {Main}, CommitAll(t) PROVE LogStutters
  BY <1>0, <1>4 DEF CommitAll, Goto, LogStutters, LogTurns, Writing, observed
<1>5. ASSUME NEW t \in Thread, HeaderContended(t) PROVE LogStutters
  BY <1>0, <1>5 DEF HeaderContended, Goto, LogStutters, LogTurns, Writing, files, observed
<1>6. ASSUME Open \/ OpenFails \/ OpenDone \/ OpenRehash PROVE LogStutters
  BY <1>0, <1>6 DEF Open, OpenFails, OpenDone, OpenRehash, Goto, LogStutters, LogTurns,
     Writing, files
<1>7. ASSUME NEW p \in Peer, PeerEdits(p) \/ PeerMerges(p) \/ PeerHidesOrShows(p)
      PROVE  LogStutters
  BY <1>0, <1>7 DEF PeerEdits, PeerMerges, PeerChanges, PeerHidesOrShows, LogStutters,
     LogTurns, Writing
<1>8. CASE UNCHANGED vars
  BY <1>0, <1>8 DEF vars, LogStutters, LogTurns, Writing
<1> QED  BY <1>1, <1>2, <1>3, <1>4, <1>5, <1>6, <1>7, <1>8
         DEF LogStep, Next, WriteStep, ReloadStep, OpenStep, FolderStep, Thread

\* The threads that append hold the history mutex, and no others wait with entries.
LEMMA NextLogTurns == TypeOK /\ Lock /\ LogTurns /\ [Next]_vars => LogTurns'
<1> SUFFICES ASSUME TypeOK, ThreadStates, Locking, LogTurns, LogStutters \/ LogStep
             PROVE  LogTurns'
  BY NextLogStep DEF Lock
<1>0. /\ pc \in [Thread -> {"idle", "queued", "hashed", "changed", "persist", "header",
                             "again", "log", "append", "rehash"}]
      /\ Thread = Writer \cup Poller \cup {Main}
      /\ Writer \cap Poller = {} /\ Main \notin Writer \cup Poller
      /\ lines \in [Thread -> SUBSET Line]
      /\ None \notin Writer \cup Poller \cup {Main}
      /\ historyOwner \in Thread \cup {None}
  BY ThreadAssumption DEF TypeOK, Thread
<1>1. CASE LogStutters
  BY <1>0, <1>1 DEF LogStutters, LogTurns, Writing
<1>2. ASSUME NEW w \in Writer, Change(w) PROVE LogTurns'
  BY <1>0, <1>2 DEF Change, Goto, LogTurns, Writing
<1>3. ASSUME NEW w \in Writer, WriteFails(w) PROVE LogTurns'
  BY <1>0, <1>3 DEF WriteFails, Goto, LogTurns, Writing
<1>4. ASSUME NEW w \in Writer, WriteDone(w) PROVE LogTurns'
  BY <1>0, <1>4 DEF WriteDone, Goto, LogTurns, Writing
<1>5. ASSUME NEW w \in Writer, HandOver(w) PROVE LogTurns'
  BY <1>0, <1>5 DEF HandOver, Goto, LogTurns, Writing
<1>6. ASSUME NEW w \in Writer, WriteLogged(w) PROVE LogTurns'
  BY <1>0, <1>6 DEF WriteLogged, Goto, LogTurns, Writing
<1>7. ASSUME NEW p \in Poller, ReloadLock(p) PROVE LogTurns'
  BY <1>0, <1>7 DEF ReloadLock, Goto, LogTurns, Writing
<1>8. ASSUME NEW p \in Poller, ReloadLogged(p) PROVE LogTurns'
  BY <1>0, <1>8 DEF ReloadLogged, Goto, LogTurns, Writing
<1>9. ASSUME Crash PROVE LogTurns'
  BY <1>0, <1>9 DEF Crash, LogTurns, Writing
<1> QED  BY <1>1, <1>2, <1>3, <1>4, <1>5, <1>6, <1>7, <1>8, <1>9 DEF LogStep

-----------------------------------------------------------------------------
(* Entries and the sidecar's lines *)

\* The entries of one change: one for each entity that differs, with the time of the
\* change, and none younger than the documents it leads from and to.
LEMMA EntriesOfAChange ==
    ASSUME NEW before \in Document, NEW after \in Document, NEW ts, NEW n \in Nat,
           NoneAfter(before, n), NoneAfter(after, n)
    PROVE  \A e, f \in EntriesForChange(before, after, ts) :
             e.when = ts /\ e.stamp <= n /\ (e.id = f.id => e = f)
BY DEF EntriesForChange, NoneAfter

\* Appending adds the entries to the lines; the order of time is kept when they are all
\* of one time, and none of them older than a line.
LEMMA AppendedLines ==
    ASSUME NEW h \in Seq(Line), NEW S \in SUBSET Line
    PROVE  /\ h \o SetToSeq(S) \in Seq(Line)
           /\ ToSet(h \o SetToSeq(S)) = ToSet(h) \cup S
           /\ \A m \in 1..Len(h \o SetToSeq(S)) :
                \/ m \in 1..Len(h) /\ (h \o SetToSeq(S))[m] = h[m] /\ h[m] \in ToSet(h)
                \/ /\ m > Len(h) /\ (h \o SetToSeq(S))[m] \in S
                   /\ \A n \in 1..Len(h \o SetToSeq(S)) :
                        n > Len(h) /\ (h \o SetToSeq(S))[m] = (h \o SetToSeq(S))[n] => m = n
<1> DEFINE s == SetToSeq(S)
           g == h \o s
<1>1. s \in Seq(Line) /\ ToSet(s) = S /\ IsInjective(s)
  BY LinesAreASequence
<1> HIDE DEF s
<1>2. /\ g \in Seq(Line) /\ Len(h) \in Nat /\ Len(s) \in Nat
      /\ Len(g) = Len(h) + Len(s)
      /\ \A m \in 1..Len(g) : g[m] = IF m <= Len(h) THEN h[m] ELSE s[m - Len(h)]
  BY <1>1
<1>3. DOMAIN g = 1..Len(g) /\ DOMAIN h = 1..Len(h) /\ DOMAIN s = 1..Len(s)
  BY <1>1, <1>2
<1>4. ToSet(h) = {h[m] : m \in 1..Len(h)} /\ S = {s[m] : m \in 1..Len(s)}
      /\ ToSet(g) = {g[m] : m \in 1..Len(g)}
  BY <1>1, <1>3 DEF ToSet
<1>5. ASSUME NEW m \in 1..Len(g)
      PROVE  \/ m \in 1..Len(h) /\ g[m] = h[m] /\ h[m] \in ToSet(h)
             \/ m > Len(h) /\ m - Len(h) \in 1..Len(s) /\ g[m] = s[m - Len(h)] /\ g[m] \in S
  BY <1>2, <1>4
<1>6. ASSUME NEW m \in 1..Len(g), NEW n \in 1..Len(g), m > Len(h), n > Len(h), g[m] = g[n]
      PROVE  m = n
  <2>1. s[m - Len(h)] = s[n - Len(h)] /\ m - Len(h) \in DOMAIN s /\ n - Len(h) \in DOMAIN s
    BY <1>2, <1>3, <1>6
  <2>2. m - Len(h) = n - Len(h)
    BY <1>1, <2>1 DEF IsInjective
  <2> QED  BY <2>2, <1>2
<1>7. ToSet(g) = ToSet(h) \cup S
  <2>1. ToSet(g) \subseteq ToSet(h) \cup S
    BY <1>4, <1>5
  <2>2. ASSUME NEW m \in 1..Len(h) PROVE h[m] \in ToSet(g)
    <3>1. m \in 1..Len(g) /\ g[m] = h[m]
      BY <1>2
    <3> QED  BY <3>1, <1>4
  <2>3. ASSUME NEW m \in 1..Len(s) PROVE s[m] \in ToSet(g)
    <3>1. m + Len(h) \in 1..Len(g) /\ g[m + Len(h)] = s[m]
      BY <1>2
    <3> QED  BY <3>1, <1>4
  <2> QED  BY <1>4, <2>1, <2>2, <2>3
<1> QED  BY <1>2, <1>5, <1>6, <1>7 DEF s

-----------------------------------------------------------------------------
(* The order of the lines *)

\* An append keeps the lines in commit order when its entries are of one time and no
\* line is younger.
LEMMA AppendKeepsOrder ==
    ASSUME TypeOK, HistoryInCommitOrder, NEW S \in SUBSET Line,
           \A e, f \in S : e.when = f.when,
           \A e \in S, h \in ToSet(history) : h.when <= e.when,
           history' = history \o SetToSeq(S)
    PROVE  HistoryInCommitOrder'
<1>1. history \in Seq(Line) /\ Len(history) \in Nat /\ history' \in Seq(Line)
  BY AppendedLines DEF TypeOK
<1>2. SUFFICES ASSUME NEW m \in 1..Len(history'), NEW n \in 1..Len(history'), m <= n
               PROVE  history'[m].when <= history'[n].when
  BY DEF HistoryInCommitOrder
<1>3. \A k \in 1..Len(history') :
         \/ k \in 1..Len(history) /\ history'[k] = history[k] /\ history[k] \in ToSet(history)
         \/ k > Len(history) /\ history'[k] \in S
  BY <1>1, AppendedLines
<1>4. m \in Nat /\ n \in Nat
  BY <1>1
<1>5. \A e \in S : e.when \in Nat
  BY MaxStampAssumption DEF Line, Stamp
<1> QED  BY <1>1, <1>2, <1>3, <1>4, <1>5 DEF HistoryInCommitOrder

\* Every step keeps the lines in order.
LEMMA NextLogOrder ==
    TypeOK /\ Lock /\ Young /\ LogTurns /\ LogOrder /\ [Next]_vars => LogOrder'
<1> SUFFICES ASSUME TypeOK, ThreadStates, Locking, Young, LogTurns, LogOrder, [Next]_vars,
                    LogStutters \/ LogStep
             PROVE  LogOrder'
  BY NextLogStep DEF Lock
<1>0. /\ pc \in [Thread -> {"idle", "queued", "hashed", "changed", "persist", "header",
                             "again", "log", "append", "rehash"}]
      /\ Thread = Writer \cup Poller \cup {Main}
      /\ Writer \cap Poller = {} /\ Main \notin Writer \cup Poller
      /\ lines \in [Thread -> SUBSET Line] /\ history \in Seq(Line)
      /\ None \notin Writer \cup Poller \cup {Main}
      /\ clock \in Nat /\ clock' \in Nat
      /\ mem \in Document /\ spare \in Document /\ spare' \in Document
  BY NextType, ThreadAssumption, MaxStampAssumption DEF TypeOK, Thread, Stamp
<1>L. \A e \in Line : e.when \in Nat /\ e.stamp \in Nat
  BY MaxStampAssumption DEF Line, Stamp
<1>H. ToSet(history) \subseteq Line /\ \A t \in Thread : lines[t] \subseteq Line
  BY <1>0 DEF ToSet
<1>1. CASE LogStutters
  BY <1>0, <1>1, <1>L, <1>H DEF LogStutters, LogOrder, HistoryInCommitOrder, DedupKey
<1>2. ASSUME NEW w \in Writer, Change(w) PROVE LogOrder'
  <2>1. lines' = [lines EXCEPT ![w] = EntriesForChange(mem, spare', clock')]
        /\ pc' = [pc EXCEPT ![w] = "persist"] /\ clock' = clock + 1 /\ history' = history
    BY <1>2 DEF Change, Goto, files
  <2>2. NoneAfter(spare', clock') /\ NoneAfter(mem, clock')
    <3>1. Young'
      BY NextYoung
    <3>2. mem' = mem
      BY <1>2 DEF Change
    <3> QED  BY <3>1, <3>2 DEF Young
  <2>3. \A e, f \in lines'[w] : e.when = clock' /\ e.stamp <= clock' /\ (e.id = f.id => e = f)
    BY <1>0, <2>1, <2>2, EntriesOfAChange
  <2>4. \A t \in Thread \ {w} : lines'[t] = lines[t] /\ pc'[t] = pc[t]
    BY <1>0, <2>1
  <2>5. \A t \in Thread \ {w} : \A e \in lines[t] : e.when < clock' /\ e.stamp < clock'
    BY <1>0, <1>L, <1>H, <2>1 DEF LogOrder
  <2>6. \A h \in ToSet(history) : h.when < clock' /\ h.stamp < clock'
    BY <1>0, <1>L, <1>H, <2>1 DEF LogOrder
  <2>7. pc'[w] = "persist"
    BY <1>0, <2>1
  <2> QED  BY <1>0, <1>L, <1>H, <2>1, <2>3, <2>4, <2>5, <2>6, <2>7
           DEF LogOrder, HistoryInCommitOrder, DedupKey
<1>3. ASSUME NEW w \in Writer, WriteFails(w) PROVE LogOrder'
  BY <1>0, <1>3 DEF WriteFails, Goto, files, LogOrder, HistoryInCommitOrder, DedupKey
<1>4. ASSUME NEW w \in Writer, WriteDone(w) PROVE LogOrder'
  BY <1>0, <1>4 DEF WriteDone, Goto, files, LogOrder, HistoryInCommitOrder, DedupKey
<1>5. ASSUME NEW w \in Writer, HandOver(w) PROVE LogOrder'
  <2>1. \A v \in Writer : v # w /\ lines[v] # {} => pc[v] = "append"
    BY <1>0, <1>5 DEF HandOver, Locking, LogTurns, Holds, Writing
  <2>2. \A t \in Thread : t # w => pc'[t] = pc[t]
    BY <1>0, <1>5 DEF HandOver, Goto
  <2>3. pc'[w] = "append" /\ lines' = lines /\ history' = history /\ clock' = clock
    BY <1>0, <1>5 DEF HandOver, Goto, files
  <2> QED  BY <1>0, <2>1, <2>2, <2>3 DEF LogOrder, HistoryInCommitOrder, DedupKey
<1>6. ASSUME NEW t \in Writer \cup Poller, WriteLogged(t) \/ ReloadLogged(t) PROVE LogOrder'
  <2>1. /\ pc[t] = "append" /\ lines' = [lines EXCEPT ![t] = {}] /\ clock' = clock
        /\ \E l \in {"idle", "rehash"} : pc' = [pc EXCEPT ![t] = l]
        /\ history' \in {history, history \o SetToSeq(lines[t])}
    BY <1>6 DEF WriteLogged, ReloadLogged, Goto
  <2>2. \A u \in Thread : pc[u] = "append" => u = t
    BY <1>0, <2>1 DEF LogTurns
  <2>3. \A u \in Thread : lines'[u] = IF u = t THEN {} ELSE lines[u]
    BY <1>0, <2>1
  <2>4. \A u \in Thread : pc'[u] # "append"
    BY <1>0, <2>1, <2>2
  <2>5. \A p \in Poller : lines'[p] = {}
    BY <1>0, <2>2, <2>3 DEF LogTurns
  <2>6. \A w \in Writer : \A e \in lines'[w] : e \in lines[w] /\ \A f \in lines[t] : f.when < e.when
    BY <1>0, <2>1, <2>2, <2>3 DEF LogOrder
  <2>7. ToSet(history') \subseteq ToSet(history) \cup lines[t]
    <3>1. lines[t] \in SUBSET Line
      BY <1>0
    <3>2. ToSet(history \o SetToSeq(lines[t])) = ToSet(history) \cup lines[t]
      BY <1>0, <3>1, AppendedLines
    <3> QED  BY <2>1, <3>2
  <2>8. HistoryInCommitOrder'
    <3>1. CASE history' = history
      BY <3>1 DEF LogOrder, HistoryInCommitOrder
    <3>2. CASE history' = history \o SetToSeq(lines[t])
      <4>1. \A e, f \in lines[t] : e.when = f.when
        BY <1>0 DEF LogOrder
      <4>2. \A e \in lines[t], h \in ToSet(history) : h.when <= e.when
        BY <1>0, <1>L, <1>H DEF LogOrder
      <4>3. lines[t] \in SUBSET Line
        BY <1>0
      <4> QED  BY <3>2, <4>1, <4>2, <4>3, AppendKeepsOrder DEF LogOrder
    <3> QED  BY <2>1, <3>1, <3>2
  <2>9. \A e \in lines[t] : e.when <= clock /\ e.stamp <= clock
    BY <1>0 DEF LogOrder
  <2> QED  BY <1>0, <2>1, <2>3, <2>4, <2>5, <2>6, <2>7, <2>8, <2>9 DEF LogOrder, DedupKey
<1>7. ASSUME NEW p \in Poller, ReloadLock(p) PROVE LogOrder'
  <2>1. lines' = [lines EXCEPT ![p] = Unseen(EntriesForChange(spare, mem, clock))]
        /\ pc' = [pc EXCEPT ![p] = "append"] /\ clock' = clock /\ history' = history
    BY <1>7 DEF ReloadLock, Goto, files
  <2>2. NoneAfter(spare, clock) /\ NoneAfter(mem, clock)
    BY DEF Young
  <2>3. \A e, f \in lines'[p] : e.when = clock /\ e.stamp <= clock /\ (e.id = f.id => e = f)
    <3>1. lines'[p] \subseteq EntriesForChange(spare, mem, clock)
      BY <1>0, <2>1 DEF Unseen
    <3> QED  BY <1>0, <2>2, <3>1, EntriesOfAChange
  <2>4. \A e \in lines'[p], h \in ToSet(history) : DedupKey(h) # DedupKey(e)
    BY <1>0, <2>1 DEF Unseen
  <2>5. \A w \in Writer : lines[w] = {}
    BY <1>0, <1>7 DEF ReloadLock, Locking, LogTurns, Holds, Writing, Reloading
  <2>6. \A t \in Thread \ {p} : lines'[t] = lines[t]
    BY <1>0, <2>1
  <2> QED  BY <1>0, <2>1, <2>3, <2>4, <2>5, <2>6 DEF LogOrder, HistoryInCommitOrder, DedupKey
<1>8. ASSUME Crash PROVE LogOrder'
  BY <1>0, <1>8 DEF Crash, files, LogOrder, HistoryInCommitOrder, DedupKey
<1> QED  BY <1>1, <1>2, <1>3, <1>4, <1>5, <1>6, <1>7, <1>8 DEF LogStep

-----------------------------------------------------------------------------
(* The lines are the durable changes *)

\* What an append does to the lines of the sidecar.
LEMMA LoggedLines ==
    ASSUME TypeOK, NEW t \in Writer \cup Poller,
           history' = history \o SetToSeq(lines[t])
    PROVE  ToSet(history') = ToSet(history) \cup lines[t]
<1>1. lines[t] \in SUBSET Line /\ history \in Seq(Line)
  BY DEF TypeOK, Thread
<1> QED  BY <1>1, AppendedLines

\* Every durable change is in the sidecar or on its way there, and nothing else is.
LEMMA NextLogContents ==
    TypeOK /\ Lock /\ LogTurns /\ LogOrder /\ LogContents /\ [Next]_vars => LogContents'
<1> DEFINE Due(e) == \E t \in Writer \cup Poller : pc[t] \in {"log", "append"} /\ e \in lines[t]
<1>A. LogContents <=> \A e : e \in committed <=> e \in ToSet(history) \/ Due(e)
  BY DEF LogContents
<1>B. LogContents' <=> \A e : e \in committed' <=> e \in ToSet(history') \/ Due(e)'
  BY DEF LogContents
<1> SUFFICES ASSUME TypeOK, ThreadStates, Locking, LogTurns, LogOrder,
                    LogStutters \/ LogStep, NEW e,
                    \A f : f \in committed <=> f \in ToSet(history) \/ Due(f)
             PROVE  e \in committed' <=> e \in ToSet(history') \/ Due(e)'
  BY <1>A, <1>B, NextLogStep DEF Lock
<1>0. /\ pc \in [Thread -> {"idle", "queued", "hashed", "changed", "persist", "header",
                             "again", "log", "append", "rehash"}]
      /\ Thread = Writer \cup Poller \cup {Main}
      /\ Writer \cap Poller = {} /\ Main \notin Writer \cup Poller
      /\ lines \in [Thread -> SUBSET Line] /\ history \in Seq(Line)
  BY ThreadAssumption DEF TypeOK, Thread
<1>L. \A f \in Line : f.when \in Nat
  BY MaxStampAssumption DEF Line, Stamp
<1>1. CASE LogStutters
  BY <1>0, <1>1 DEF LogStutters, LogTurns
<1>2. ASSUME NEW w \in Writer, Change(w) PROVE e \in committed' <=> e \in ToSet(history') \/ Due(e)'
  BY <1>0, <1>2 DEF Change, Goto, files, observed
<1>3. ASSUME NEW w \in Writer, WriteFails(w) PROVE e \in committed' <=> e \in ToSet(history') \/ Due(e)'
  BY <1>0, <1>3 DEF WriteFails, Goto, files
<1>4. ASSUME NEW w \in Writer, WriteDone(w) PROVE e \in committed' <=> e \in ToSet(history') \/ Due(e)'
  BY <1>0, <1>4 DEF WriteDone, Goto, files
<1>5. ASSUME NEW w \in Writer, HandOver(w) PROVE e \in committed' <=> e \in ToSet(history') \/ Due(e)'
  BY <1>0, <1>5 DEF HandOver, Goto, files, observed
<1>6. ASSUME NEW t \in Writer \cup Poller, WriteLogged(t) \/ ReloadLogged(t)
      PROVE  e \in committed' <=> e \in ToSet(history') \/ Due(e)'
  <2>1. /\ pc[t] = "append" /\ lines' = [lines EXCEPT ![t] = {}]
        /\ \E l \in {"idle", "rehash"} : pc' = [pc EXCEPT ![t] = l]
        /\ \/ history' = history \o SetToSeq(lines[t]) /\ committed' = committed
           \/ history' = history /\ committed' = committed \ lines[t]
    BY <1>6 DEF WriteLogged, ReloadLogged, Goto
  <2>2. \A u \in Thread : pc[u] = "append" => u = t
    BY <1>0, <2>1 DEF LogTurns
  <2>3. Due(e)' <=> \E u \in (Writer \cup Poller) \ {t} : pc[u] = "log" /\ e \in lines[u]
    BY <1>0, <2>1, <2>2
  <2>4. Due(e) <=> e \in lines[t] \/ Due(e)'
    BY <1>0, <2>1, <2>2, <2>3
  <2>5. CASE history' = history \o SetToSeq(lines[t]) /\ committed' = committed
    BY <2>4, <2>5, LoggedLines
  <2>6. CASE history' = history /\ committed' = committed \ lines[t]
    <3>1. e \in lines[t] => e \notin ToSet(history)
      BY <1>0, <1>L DEF LogOrder
    <3>2. e \in lines[t] => ~Due(e)'
      <4>1. SUFFICES ASSUME e \in lines[t], NEW u \in (Writer \cup Poller) \ {t},
                            pc[u] = "log", e \in lines[u]
                     PROVE  FALSE
        BY <2>3
      <4>2. u \in Writer
        BY <1>0, <4>1 DEF LogTurns
      <4>3. e.when < e.when /\ e \in Line
        BY <1>0, <2>1, <4>1, <4>2 DEF LogOrder
      <4> QED  BY <1>L, <4>3
    <3> QED  BY <2>4, <2>6, <3>1, <3>2
  <2> QED  BY <2>1, <2>5, <2>6
<1>7. ASSUME NEW p \in Poller, ReloadLock(p) PROVE e \in committed' <=> e \in ToSet(history') \/ Due(e)'
  <2>1. lines[p] = {} /\ pc[p] = "log"
    BY <1>0, <1>7 DEF ReloadLock, LogTurns
  <2>2. pc' = [pc EXCEPT ![p] = "append"] /\ history' = history /\ committed' = committed \cup lines'[p]
        /\ \E S : lines' = [lines EXCEPT ![p] = S]
    BY <1>7 DEF ReloadLock, Goto, files
  <2> QED  BY <1>0, <2>1, <2>2
<1>8. ASSUME Crash PROVE e \in committed' <=> e \in ToSet(history') \/ Due(e)'
  BY <1>0, <1>8 DEF Crash, files
<1> QED  BY <1>1, <1>2, <1>3, <1>4, <1>5, <1>6, <1>7, <1>8 DEF LogStep

-----------------------------------------------------------------------------
(* Deleted versions stay deleted *)

\* What a document has buried is buried in every document that covers it.
LEMMA BuriedStays ==
    ASSUME NEW d \in Document, NEW e \in Document, Covers(d, e),
           NEW S \in SUBSET Line, NEW R \in SUBSET S, NEW F, NEW G, F \subseteq G,
           Buried(e, S, F)
    PROVE  Buried(d, R, G)
<1> SUFFICES ASSUME NEW l \in R, l.kind = "deleted", l.id \notin G
             PROVE  Knows(d, l.id, l.stamp + 1)
  BY DEF Buried
<1>1. Knows(e, l.id, l.stamp + 1) /\ l.id \in Id /\ l.stamp \in Nat
  BY MaxStampAssumption DEF Buried, Line, Stamp
<1>2. l.stamp + 1 \in Stamp
  <2>1. \E s \in Stamp : l.stamp + 1 <= s
    BY <1>1, MaxStampAssumption DEF Knows, Document, Tombstone, Stamp
  <2> QED  BY <1>1, <2>1, MaxStampAssumption DEF Stamp
<1> QED  BY <1>1, <1>2 DEF Covers

\* Every step keeps deleted versions deleted.
LEMMA NextBurials ==
    /\ TypeOK /\ Lock /\ Young /\ Durability
    /\ LogTurns /\ LogContents /\ EditOrder /\ Burials
    /\ [Next]_vars
    => Burials'
<1> SUFFICES ASSUME TypeOK, ThreadStates, Locking, Young, Durability, LogTurns, LogContents,
                    EditOrder, Burials, [Next]_vars
             PROVE  Burials'
  BY DEF Lock
<1>0. /\ pc \in [Thread -> {"idle", "queued", "hashed", "changed", "persist", "header",
                             "again", "log", "append", "rehash"}]
      /\ Thread = Writer \cup Poller \cup {Main}
      /\ Writer \cap Poller = {} /\ Main \notin Writer \cup Poller
      /\ disk \in Document /\ mem \in Document /\ spare \in Document
      /\ PeerDocs \in SUBSET Document
      /\ committed \in SUBSET Line /\ lines \in [Thread -> SUBSET Line]
  BY ThreadAssumption, PeersContentType DEF TypeOK, Thread
<1>T. TypeOK' /\ Durability' /\ disk' \in Document /\ mem' \in Document /\ spare' \in Document
      /\ clock \in Nat
  <2>1. TypeOK' /\ Durability'
    BY NextType, NextDurability DEF Lock
  <2> QED  BY <2>1, MaxStampAssumption DEF TypeOK, Stamp
<1>1. ASSUME NEW w \in Writer, Request(w) \/ WriteNothing(w) PROVE Burials'
  BY <1>0, <1>1 DEF Request, WriteNothing, Goto, Burials, Writing, files, observed
<1>2. ASSUME NEW w \in Writer, Change(w) PROVE Burials'
  <2>1. Buried(spare', lines'[w], forgot)
    <3>1. PICK i \in Id : /\ Live(mem, i)
                              \/ spare' = WithRow(mem, i, clock')
                         /\ spare' \in {WithRow(mem, i, clock'), WithoutRow(mem, i, clock')}
      BY <1>2 DEF Change
    <3>2. lines'[w] = EntriesForChange(mem, spare', clock') /\ clock' = clock + 1
      BY <1>0, <1>2 DEF Change
    <3>3. mem.rows \in [Id -> Nat] /\ \A j \in Id : mem.rows[j] <= clock
      BY <1>0, MaxStampAssumption DEF Document, Stamp, Young, NoneAfter
    <3>4. SUFFICES ASSUME NEW j \in Id, mem.rows[j] # spare'.rows[j], ~Live(spare', j)
                   PROVE  Knows(spare', j, mem.rows[j] + 1)
      BY <3>2 DEF Buried, EntriesForChange
    <3>5. spare' = WithoutRow(mem, i, clock') /\ j = i
      <4>1. CASE spare' = WithRow(mem, i, clock')
        <5>1. spare'.rows = [mem.rows EXCEPT ![i] = clock']
          BY <1>0, <4>1 DEF WithRow, Document
        <5> QED  BY <1>T, <3>2, <3>3, <3>4, <5>1 DEF Live
      <4>2. CASE spare' = WithoutRow(mem, i, clock')
        <5>1. spare'.rows = [mem.rows EXCEPT ![i] = 0]
          BY <4>2 DEF WithoutRow
        <5> QED  BY <3>3, <3>4, <4>2, <5>1
      <4> QED  BY <3>1, <4>1, <4>2
    <3>6. \E t \in spare'.tombs : t.id = i /\ t.at = clock'
      <4>1. [id |-> i, at |-> clock'] \in spare'.tombs
        BY <3>5 DEF WithoutRow
      <4> QED  BY <4>1
    <3> QED  BY <1>T, <3>2, <3>3, <3>5, <3>6 DEF Knows
  <2>2. /\ \A v \in Writer : ~Writing(v)
        /\ \A p \in Poller : ~Reloading(p)
    BY <1>0, <1>2 DEF Change, Locking, Holds, Writing, Reloading
  <2> QED  BY <1>0, <1>2, <2>1, <2>2 DEF Change, Goto, Burials, Writing, Reloading, files, observed
<1>3. ASSUME NEW w \in Writer, CommitNext(w) PROVE Burials'
  <2>1. running /\ mem = snapshot /\ IsChange(mem, spare) /\ Covers(disk, mem)
    BY <1>0, <1>3 DEF CommitNext, Locking, Holds, NoReload, Reloading, Writing, Durability
  <2>2. Covers(disk', spare) /\ Covers(spare, mem)
    BY <1>0, <1>3, <2>1, WriteSinceCovers, ChangeCovers DEF CommitNext
  <2>3. Covers(disk', mem)
    BY <2>2, CoversTransitive
  <2>4. Buried(mem, committed, forgot)
    BY <2>1 DEF Burials
  <2>5. Buried(disk', committed, forgot)
    BY <1>0, <1>T, <2>3, <2>4, BuriedStays
  <2> QED  BY <1>0, <1>3, <2>5 DEF CommitNext, Goto, Burials, Writing, observed
<1>4. ASSUME NEW w \in Writer, WriteFails(w) PROVE Burials'
  <2>1. /\ \A v \in Writer : v # w => ~Writing(v)
        /\ \A p \in Poller : ~Reloading(p)
    BY <1>0, <1>4 DEF WriteFails, Locking, Holds, Writing, Reloading
  <2> QED  BY <1>0, <1>4, <2>1 DEF WriteFails, Goto, Burials, Writing, Reloading, files
<1>5. ASSUME NEW w \in Writer, WriteDone(w) PROVE Burials'
  <2>1. /\ \A v \in Writer : v # w => ~Writing(v)
        /\ \A p \in Poller : ~Reloading(p)
        /\ running /\ Writing(w) /\ mem = snapshot
    BY <1>0, <1>5 DEF WriteDone, Locking, Holds, NoReload, Reloading, Writing, Durability
  <2>2. IsChange(mem, spare) /\ Covers(disk, spare) /\ Covers(spare, mem)
    BY <1>0, <1>5, <2>1, ChangeCovers DEF WriteDone, Durability
  <2>3. Buried(spare, committed, forgot) /\ Buried(spare, lines[w], forgot)
    BY <1>0, <2>1, <2>2, BuriedStays DEF Burials
  <2>4. Buried(spare, committed \cup lines[w], forgot)
    BY <2>3 DEF Buried
  <2>5. committed \cup lines[w] \in SUBSET Line
    BY <1>0
  <2>6. Buried(disk, committed \cup lines[w], forgot)
    BY <1>0, <2>2, <2>4, <2>5, BuriedStays
  <2> QED  BY <1>0, <1>5, <2>1, <2>4, <2>6 DEF WriteDone, Goto, Burials, Writing, Reloading, files
<1>6. ASSUME NEW w \in Writer, HandOver(w) PROVE Burials'
  BY <1>0, <1>6 DEF HandOver, Goto, Burials, Writing, files, observed
<1>7. ASSUME NEW t \in Writer \cup Poller, WriteLogged(t) \/ ReloadLogged(t) PROVE Burials'
  <2>1. committed' \subseteq committed
    BY <1>7 DEF WriteLogged, ReloadLogged
  <2>2. \A d, S : Buried(d, S, forgot) /\ S = committed => Buried(d, committed', forgot)
    BY <2>1 DEF Buried
  <2>3. /\ UNCHANGED <<disk, mem, spare, forgot, running>> /\ pc[t] = "append"
        /\ lines' = [lines EXCEPT ![t] = {}]
        /\ \E l \in {"idle", "rehash"} : pc' = [pc EXCEPT ![t] = l]
    BY <1>7 DEF WriteLogged, ReloadLogged, Goto
  <2> QED  BY <1>0, <2>2, <2>3 DEF Burials, Writing
<1>8. ASSUME NEW p \in Poller, ReloadHash(p) \/ ReloadUnchanged(p) \/ ReloadChanged(p)
      PROVE  Burials'
  BY <1>0, <1>8 DEF ReloadHash, ReloadUnchanged, ReloadChanged, Goto, Burials, Writing, files,
     observed
<1>9. ASSUME NEW p \in Poller, ReloadMerge(p) PROVE Burials'
  <2>1. running /\ pc[Main] = "idle" /\ \A v \in Writer : ~Writing(v)
    BY <1>0, <1>9 DEF ReloadMerge, Locking, Holds, Writing
  <2>2. Covers(mem', mem)
    BY <1>0, <1>9, MergeCovers DEF ReloadMerge
  <2>3. Buried(mem', committed, forgot) /\ Buried(mem, committed, forgot)
    BY <1>0, <1>T, <2>1, <2>2, BuriedStays DEF Burials
  <2> QED  BY <1>0, <1>9, <2>1, <2>3 DEF ReloadMerge, Goto, Burials, Writing, files
<1>10. ASSUME NEW t \in Poller \cup {Main}, CommitAll(t) PROVE Burials'
  <2>1. running \/ pc[Main] # "idle"
    BY <1>0, <1>10 DEF CommitAll, Locking
  <2> QED  BY <1>0, <1>10, <2>1 DEF CommitAll, Goto, Burials, Writing, observed
<1>11. ASSUME NEW t \in Thread, HeaderContended(t) PROVE Burials'
  BY <1>0, <1>11 DEF HeaderContended, Goto, Burials, Writing, files, observed
<1>12. ASSUME NEW p \in Poller, ReloadFails(p) PROVE Burials'
  <2>1. /\ \A v \in Writer : ~Writing(v)
        /\ \A q \in Poller : q # p => ~Reloading(q)
    BY <1>0, <1>12 DEF ReloadFails, Locking, Holds, Writing, Reloading
  <2> QED  BY <1>0, <1>12, <2>1 DEF ReloadFails, Goto, Burials, Writing, Reloading, files
<1>13. ASSUME NEW p \in Poller, ReloadDone(p) PROVE Burials'
  BY <1>0, <1>13 DEF ReloadDone, Goto, Burials, Writing, files
<1>14. ASSUME NEW p \in Poller, ReloadLock(p) PROVE Burials'
  <2>1. /\ running /\ pc[Main] = "idle" /\ \A v \in Writer : ~Writing(v)
        /\ \A q \in Poller : q # p => ~Reloading(q)
        /\ disk = mem /\ Covers(mem, spare)
    BY <1>0, <1>14 DEF ReloadLock, Locking, Holds, Writing, Reloading, Durability
  <2>2. Buried(mem, lines'[p], forgot)
    <3>1. lines'[p] \subseteq EntriesForChange(spare, mem, clock)
      BY <1>0, <1>14 DEF ReloadLock, Unseen
    <3>2. SUFFICES ASSUME NEW j \in Id, Live(spare, j), ~Live(mem, j)
                   PROVE  Knows(mem, j, spare.rows[j] + 1)
      BY <3>1 DEF Buried, EntriesForChange, Live
    <3>3. /\ spare.rows[j] \in Stamp /\ spare.rows[j] \in Nat /\ mem.rows[j] = 0
          /\ spare.rows[j] # 0 /\ \A t \in mem.tombs : t.at \in Nat
      BY <1>0, <3>2, MaxStampAssumption DEF Document, Tombstone, Stamp, Live
    <3>4. Knows(spare, j, spare.rows[j])
      BY <3>3 DEF Knows
    <3>5. PICK t \in mem.tombs : t.id = j /\ spare.rows[j] <= t.at
      BY <2>1, <3>3, <3>4 DEF Covers, Knows
    <3>6. spare.rows[j] # t.at
      BY <3>5 DEF EditOrder, Apart, Docs
    <3> QED  BY <3>3, <3>5, <3>6 DEF Knows
  <2>3. Buried(mem, committed', forgot)
    BY <1>14, <2>1, <2>2 DEF ReloadLock, Burials, Buried
  <2> QED  BY <1>0, <1>14, <2>1, <2>3 DEF ReloadLock, Goto, Burials, Writing, Reloading, files
<1>15. ASSUME NEW p \in Poller, ReloadRehash(p) PROVE Burials'
  <2>1. /\ \A v \in Writer : ~Writing(v)
        /\ \A q \in Poller : q # p => ~Reloading(q)
    BY <1>0, <1>15 DEF ReloadRehash, Locking, Holds, Writing, Reloading
  <2> QED  BY <1>0, <1>15, <2>1 DEF ReloadRehash, Goto, Burials, Writing, Reloading, files
<1>16. ASSUME Open PROVE Burials'
  <2>1. ~running /\ \A v \in Writer \cup Poller : pc[v] = "idle"
    BY <1>16 DEF Open, Locking
  <2>2. OpenDocs \in SUBSET Document
    BY <1>0 DEF OpenDocs
  <2>3. Buried(mem', committed, forgot')
    <3>1. CASE disk \in OpenDocs
      <4>1. Covers(mem', disk) /\ forgot' = forgot
        BY <1>16, <2>2, <3>1, MergeCovers DEF Open
      <4> QED  BY <1>0, <1>T, <4>1, BuriedStays DEF Burials
    <3>2. CASE disk \notin OpenDocs
      <4>1. \A i \in Id : disk.rows[i] = 0
        BY <3>2 DEF OpenDocs, HasData, Live
      <4>2. forgot' = forgot \cup {t.id : t \in disk.tombs}
        BY <1>16, <3>2 DEF Open
      <4>3. \A e \in committed : e.id \in Id /\ e.stamp \in Nat
        BY <1>0, MaxStampAssumption DEF Line, Stamp
      <4>4. ASSUME NEW e \in committed, e.kind = "deleted", e.id \notin forgot' PROVE FALSE
        <5>1. Knows(disk, e.id, e.stamp + 1) /\ \A t \in disk.tombs : t.id # e.id
          BY <4>2, <4>4 DEF Burials, Buried
        <5> QED  BY <4>1, <4>3, <5>1 DEF Knows
      <4> QED  BY <4>4 DEF Buried
    <3> QED  BY <3>1, <3>2
  <2>4. Buried(disk, committed, forgot')
    BY <1>16 DEF Open, Burials, Buried
  <2> QED  BY <1>0, <1>16, <2>1, <2>3, <2>4 DEF Open, Goto, Burials, Writing, files
<1>17. ASSUME OpenFails \/ OpenDone \/ OpenRehash PROVE Burials'
  BY <1>0, <1>17 DEF OpenFails, OpenDone, OpenRehash, Goto, Burials, Locking, Writing, files
<1>18. ASSUME Crash PROVE Burials'
  <2>1. committed' \subseteq committed
    BY <1>18 DEF Crash, LogContents
  <2>2. Buried(disk, committed', forgot)
    BY <2>1 DEF Burials, Buried
  <2> QED  BY <1>0, <1>18, <2>2 DEF Crash, Burials, Writing, files
<1>19. ASSUME NEW p \in Peer, PeerEdits(p) \/ PeerMerges(p) \/ PeerHidesOrShows(p)
       PROVE  Burials'
  BY <1>0, <1>19 DEF PeerEdits, PeerMerges, PeerHidesOrShows, PeerChanges, Burials, Writing
<1>20. CASE UNCHANGED vars
  BY <1>20 DEF vars, Burials, Writing
<1> QED  BY <1>1, <1>2, <1>3, <1>4, <1>5, <1>6, <1>7, <1>8, <1>9, <1>10, <1>11, <1>12,
            <1>13, <1>14, <1>15, <1>16, <1>17, <1>18, <1>19, <1>20
         DEF Next, WriteStep, ReloadStep, OpenStep, FolderStep, Thread

-----------------------------------------------------------------------------
(* No change is recorded twice *)

\* Every step keeps the lines different.
LEMMA NextKeysOnce ==
    /\ TypeOK /\ Lock /\ Young
    /\ LogTurns /\ LogOrder /\ LogContents /\ EditOrder /\ Burials /\ KeysOnce
    /\ [Next]_vars
    => KeysOnce'
<1> SUFFICES ASSUME TypeOK, ThreadStates, Locking, Young, LogTurns, LogOrder, LogContents,
                    EditOrder, Burials, KeysOnce, [Next]_vars, LogStutters \/ LogStep
             PROVE  KeysOnce'
  BY NextLogStep DEF Lock
<1>0. /\ pc \in [Thread -> {"idle", "queued", "hashed", "changed", "persist", "header",
                             "again", "log", "append", "rehash"}]
      /\ Thread = Writer \cup Poller \cup {Main}
      /\ Writer \cap Poller = {} /\ Main \notin Writer \cup Poller
      /\ None \notin Thread /\ mem \in Document /\ clock \in Nat
      /\ history \in Seq(Line) /\ lines \in [Thread -> SUBSET Line]
  BY ThreadAssumption, MaxStampAssumption DEF TypeOK, Thread, Stamp
<1>L. (\A e \in Line : e.stamp \in Nat /\ e.id \in Id) /\ committed \subseteq Line
  BY MaxStampAssumption DEF TypeOK, Line, Stamp
<1>1. CASE LogStutters
  BY <1>0, <1>1 DEF LogStutters, KeysOnce, DedupKey
<1>2. ASSUME NEW w \in Writer, Change(w) PROVE KeysOnce'
  <2>1. PICK i \in Id : \/ spare' = WithRow(mem, i, clock')
                        \/ Live(mem, i) /\ spare' = WithoutRow(mem, i, clock')
    BY <1>2 DEF Change
  <2>2. /\ lines' = [lines EXCEPT ![w] = EntriesForChange(mem, spare', clock')]
        /\ clock' = clock + 1 /\ history' = history /\ forgot' = forgot /\ running
        /\ lines[w] = {}
        /\ \A u \in Thread : lines[u] # {} => pc[u] = "append"
    BY <1>0, <1>2 DEF Change, Goto, files, observed, Locking, Holds, LogTurns, Writing
  <2>3. \A u \in Thread : lines[u] \subseteq committed
    BY <1>0, <2>2 DEF LogContents, LogTurns
  <2>4. ToSet(history) \subseteq committed
    BY DEF LogContents
  <2>5. \A h \in committed : h.stamp <= clock
    <3>1. \A h \in committed : h \in ToSet(history) \/ \E t \in Thread : h \in lines[t]
      BY <1>0 DEF LogContents
    <3> QED  BY <3>1 DEF LogOrder
  <2>6. mem.rows \in [Id -> Nat] /\ \A j \in Id : mem.rows[j] <= clock
    BY <1>0, MaxStampAssumption DEF Document, Stamp, Young, NoneAfter
  <2>7. ASSUME NEW l \in lines'[w], NEW h \in committed, DedupKey(l) = DedupKey(h)
        PROVE  l.id \in forgot
    <3>1. l.id = h.id /\ l.kind = h.kind /\ l.stamp = h.stamp
      BY <2>7 DEF DedupKey
    <3>2. l \in EntriesForChange(mem, spare', clock')
      BY <1>0, <2>2
    <3>3. CASE Live(spare', l.id)
      <4>1. l.stamp = spare'.rows[l.id] /\ l.id \in Id /\ mem.rows[l.id] # spare'.rows[l.id]
        BY <3>2, <3>3 DEF EntriesForChange
      <4>2. spare'.rows[l.id] = clock'
        <5>1. CASE spare' = WithRow(mem, i, clock')
          <6>1. spare'.rows = [mem.rows EXCEPT ![i] = clock']
            BY <1>0, <5>1 DEF WithRow, Document
          <6> QED  BY <2>6, <4>1, <6>1
        <5>2. CASE spare' = WithoutRow(mem, i, clock')
          <6>1. spare'.rows = [mem.rows EXCEPT ![i] = 0]
            BY <5>2 DEF WithoutRow
          <6> QED  BY <2>6, <3>3, <4>1, <6>1 DEF Live
        <5> QED  BY <2>1, <5>1, <5>2
      <4>3. h.stamp = clock + 1
        BY <2>2, <3>1, <4>1, <4>2
      <4>4. h.stamp <= clock
        BY <2>5
      <4> QED  BY <1>0, <4>3, <4>4
    <3>4. CASE ~Live(spare', l.id)
      <4>1. /\ l.id \in Id /\ mem.rows[l.id] # 0 /\ l.kind = "deleted"
            /\ l.stamp = mem.rows[l.id]
        BY <3>2, <3>4 DEF EntriesForChange, Live
      <4>2. h.id \notin forgot => Knows(mem, l.id, mem.rows[l.id] + 1)
        BY <2>2, <3>1, <4>1 DEF Burials, Buried
      <4>3. \A t \in mem.tombs : t.id = l.id => t.at < mem.rows[l.id] /\ t.at \in Nat
        BY <1>0, <4>1, MaxStampAssumption
           DEF EditOrder, RowsOutliveTombs, Live, Document, Tombstone, Stamp
      <4> QED  BY <2>6, <3>1, <4>1, <4>2, <4>3 DEF Knows
    <3> QED  BY <3>3, <3>4
  <2>8. \A u \in Thread \ {w} : lines'[u] = lines[u]
    BY <1>0, <2>2
  <2> QED  BY <1>0, <2>2, <2>3, <2>4, <2>7, <2>8 DEF KeysOnce, DedupKey
<1>3. ASSUME NEW w \in Writer, WriteFails(w) \/ WriteDone(w) \/ HandOver(w) PROVE KeysOnce'
  <2>1. /\ history' = history /\ forgot' = forgot
        /\ lines' = lines \/ lines' = [lines EXCEPT ![w] = {}]
    BY <1>3 DEF WriteFails, WriteDone, HandOver, files, observed
  <2>2. \A t \in Thread : lines'[t] \subseteq lines[t]
    BY <1>0, <2>1
  <2> QED  BY <1>0, <2>1, <2>2 DEF KeysOnce, DedupKey
<1>4. ASSUME NEW t \in Writer \cup Poller, WriteLogged(t) \/ ReloadLogged(t) PROVE KeysOnce'
  <2>1. /\ lines' = [lines EXCEPT ![t] = {}] /\ forgot' = forgot
        /\ history' \in {history, history \o SetToSeq(lines[t])}
    BY <1>4 DEF WriteLogged, ReloadLogged
  <2>2. \A u \in Thread : lines'[u] = IF u = t THEN {} ELSE lines[u]
    BY <1>0, <2>1
  <2>3. ToSet(history') \subseteq ToSet(history) \cup lines[t]
    BY <2>1, LoggedLines
  <2>4. ASSUME NEW m \in 1..Len(history'), NEW n \in 1..Len(history'),
               DedupKey(history'[m]) = DedupKey(history'[n]), m # n
        PROVE  history'[m].id \in forgot
    <3>1. CASE history' = history
      BY <2>4, <3>1 DEF KeysOnce, DedupKey
    <3>2. CASE history' = history \o SetToSeq(lines[t])
      <4>1. lines[t] \in SUBSET Line
        BY <1>0
      <4>2. \A k \in 1..Len(history') :
              \/ k \in 1..Len(history) /\ history'[k] = history[k] /\ history[k] \in ToSet(history)
              \/ /\ k > Len(history) /\ history'[k] \in lines[t]
                 /\ \A j \in 1..Len(history') :
                      j > Len(history) /\ history'[k] = history'[j] => k = j
        BY <1>0, <3>2, <4>1, AppendedLines
      <4>3. \A e \in lines[t], h \in ToSet(history) : DedupKey(e) = DedupKey(h) => e.id \in forgot
        BY <1>0 DEF KeysOnce, LogOrder
      <4>4. \A e, f \in lines[t] : DedupKey(e) = DedupKey(f) => e = f
        BY <1>0 DEF LogOrder, DedupKey
      <4>5. history'[m].id = history'[n].id
        BY <2>4 DEF DedupKey
      <4>6. CASE m \in 1..Len(history) /\ n \in 1..Len(history)
        BY <2>4, <4>2, <4>6 DEF KeysOnce
      <4>7. CASE m \notin 1..Len(history) /\ n \notin 1..Len(history)
        BY <2>4, <4>2, <4>4, <4>7
      <4>8. CASE m \in 1..Len(history) /\ n \notin 1..Len(history)
        BY <2>4, <4>2, <4>3, <4>5, <4>8
      <4>9. CASE m \notin 1..Len(history) /\ n \in 1..Len(history)
        BY <2>4, <4>2, <4>3, <4>5, <4>9
      <4> QED  BY <4>6, <4>7, <4>8, <4>9
    <3> QED  BY <2>1, <3>1, <3>2
  <2> QED  BY <1>0, <2>1, <2>2, <2>3, <2>4 DEF KeysOnce, DedupKey
<1>5. ASSUME NEW p \in Poller, ReloadLock(p) PROVE KeysOnce'
  <2>1. /\ history' = history /\ forgot' = forgot
        /\ \E S : lines' = [lines EXCEPT ![p] = S]
    BY <1>5 DEF ReloadLock, files
  <2>2. \A u \in Thread : lines[u] = {}
    BY <1>0, <1>5 DEF ReloadLock, Locking, LogTurns, Holds, Writing, Reloading
  <2> QED  BY <1>0, <2>1, <2>2 DEF KeysOnce, DedupKey
<1>6. ASSUME Crash PROVE KeysOnce'
  BY <1>0, <1>6 DEF Crash, files, KeysOnce, DedupKey
<1> QED  BY <1>1, <1>2, <1>3, <1>4, <1>5, <1>6 DEF LogStep

-----------------------------------------------------------------------------
(* The theorems about the history *)

\* At first nothing is logged.
LEMMA InitLogInv == Init => LogInv
<1> SUFFICES ASSUME Init PROVE LogInv
  OBVIOUS
<1>0. Thread = Writer \cup Poller \cup {Main} /\ None \notin Thread /\ ToSet(<<>>) = {}
  BY ThreadAssumption DEF Thread, ToSet
<1>1. LogTurns /\ LogOrder /\ LogContents /\ KeysOnce
  BY <1>0 DEF Init, LogTurns, LogOrder, LogContents, KeysOnce, HistoryInCommitOrder, DedupKey
<1>2. Burials
  BY <1>0 DEF Init, Burials, Buried, Writing
<1> QED  BY <1>1, <1>2 DEF LogInv

\* Every step keeps what the history's theorems rest on.
LEMMA NextLogInv == IInv /\ LogInv /\ [Next]_vars => LogInv'
BY NextLogTurns, NextLogOrder, NextLogContents, NextBurials, NextKeysOnce
   DEF IInv, Lock, LogInv

\* The invariant of the history.
LEMMA LogInvariance == Spec => []LogInv
<1>1. Init => LogInv
  BY InitLogInv
<1>2. IInv /\ LogInv /\ [Next]_vars => LogInv'
  BY NextLogInv
<1> QED  BY <1>1, <1>2, Invariance, PTL DEF Spec

\* Lines land in the sidecar in commit order: a write's entries after those of every
\* earlier commit, although it appends them after `inner' is released (AppState::write,
\* reload_replicas_if_changed, append_history).
THEOREM CommitOrder == Spec => []HistoryInCommitOrder
<1>1. LogInv => HistoryInCommitOrder
  BY DEF LogInv, LogOrder
<1> QED  BY <1>1, LogInvariance, PTL

\* The sidecar and the entries due are exactly the durable changes, none recorded twice:
\* a failed write or merge leaves no line, a reload repeats none of a write, and a version
\* whose deletion is recorded is never deleted again, unless start-up forgot it.
THEOREM ExactHistory == Spec => []HistoryIsTheCommits
<1>1. LogInv => HistoryIsTheCommits
  BY DEF LogInv, LogContents, KeysOnce, HistoryIsTheCommits
<1> QED  BY <1>1, LogInvariance, PTL

-----------------------------------------------------------------------------
(* The store as its users see it *)

\* The stamps of an entity in a document, 0 for a row that is not there.
StampsIn(d, i) == {d.rows[i]} \cup {t.at : t \in TombsOf({d}, i)}

\* The version of an entity is that of its greatest stamp.
LEMMA VersionIs ==
    ASSUME NEW d \in Document, NEW i \in Id
    PROVE  /\ StampsIn(d, i) \in SUBSET (Stamp \cup {0})
           /\ VersionIn(d, i) \in Store!Version
           /\ VersionIn(d, i) = [at |-> VersionIn(d, i).at, live |-> Live(d, i)]
           /\ VersionIn(d, i).at \in StampsIn(d, i)
           /\ \A s \in StampsIn(d, i) : s <= VersionIn(d, i).at
           /\ \A n \in Nat : n \in StampsIn(d, i) /\ (\A s \in StampsIn(d, i) : s <= n)
                => VersionIn(d, i).at = n
<1>1. StampsIn(d, i) \in SUBSET (Stamp \cup {0}) /\ StampsIn(d, i) # {}
  BY DEF StampsIn, TombsOf, Document, Tombstone
<1>2. Max(StampsIn(d, i)) \in StampsIn(d, i) /\ \A s \in StampsIn(d, i) : s <= Max(StampsIn(d, i))
  BY <1>1, MaxOfStamps
<1>3. VersionIn(d, i) = [at |-> Max(StampsIn(d, i)), live |-> Live(d, i)]
  BY DEF VersionIn, StampsIn, TombsOf
<1>4. \A s \in Stamp \cup {0} : s \in 0..MaxStamp
  BY MaxStampAssumption DEF Stamp
<1>5. VersionIn(d, i) \in Store!Version
  <2>1. Max(StampsIn(d, i)) \in 0..MaxStamp /\ Live(d, i) \in BOOLEAN
    BY <1>1, <1>2, <1>4 DEF Live
  <2> QED  BY <1>3, <2>1 DEF Store!Version
<1>6. VersionIn(d, i).at = Max(StampsIn(d, i))
  BY <1>3
<1>7. ASSUME NEW n \in Nat, n \in StampsIn(d, i), \A s \in StampsIn(d, i) : s <= n
      PROVE  VersionIn(d, i).at = n
  <2>1. Max(StampsIn(d, i)) \in Nat
    BY <1>1, <1>2, <1>4
  <2> QED  BY <1>2, <1>6, <1>7, <2>1
<1> QED  BY <1>1, <1>2, <1>3, <1>5, <1>6, <1>7

\* A stamp that the document knows is no later than the version.
LEMMA KnownIsServed ==
    ASSUME NEW d \in Document, NEW i \in Id, NEW s \in Stamp \cup {0}
    PROVE  Knows(d, i, s) <=> s <= VersionIn(d, i).at
<1>1. /\ StampsIn(d, i) \in SUBSET (Stamp \cup {0})
      /\ VersionIn(d, i).at \in StampsIn(d, i)
      /\ \A x \in StampsIn(d, i) : x <= VersionIn(d, i).at
  BY VersionIs
<1>2. \A x \in Stamp \cup {0} : x \in Nat
  BY MaxStampAssumption DEF Stamp
<1>3. d.rows[i] \in StampsIn(d, i) /\ \A t \in d.tombs : t.id = i => t.at \in StampsIn(d, i)
  BY DEF StampsIn, TombsOf
<1>4. \A x \in StampsIn(d, i) : x = d.rows[i] \/ \E t \in d.tombs : t.id = i /\ t.at = x
  BY DEF StampsIn, TombsOf
<1>5. ASSUME Knows(d, i, s) PROVE s <= VersionIn(d, i).at
  <2>1. CASE s = 0
    <3>1. VersionIn(d, i).at \in Nat
      BY <1>1, <1>2
    <3> QED  BY <2>1, <3>1
  <2>2. CASE s # 0
    <3>1. PICK x \in StampsIn(d, i) : s <= x
      BY <1>3, <1>5, <2>2 DEF Knows
    <3> QED  BY <1>1, <1>2, <3>1
  <2> QED  BY <2>1, <2>2
<1>6. ASSUME s <= VersionIn(d, i).at PROVE Knows(d, i, s)
  BY <1>1, <1>4, <1>6 DEF Knows
<1> QED  BY <1>5, <1>6

\* Readers are shown a document as the abstract store serves it.
LEMMA ShowingServes ==
    ASSUME NEW d \in Document, NEW i \in Id, NEW n \in Stamp \cup {0}
    PROVE  Max({n, d.rows[i]} \cup {t.at : t \in TombsOf({d}, i)})
             = IF n < VersionIn(d, i).at THEN VersionIn(d, i).at ELSE n
<1> DEFINE S == {n} \cup StampsIn(d, i)
<1>1. S = {n, d.rows[i]} \cup {t.at : t \in TombsOf({d}, i)}
  BY DEF StampsIn
<1>2. /\ StampsIn(d, i) \in SUBSET (Stamp \cup {0})
      /\ VersionIn(d, i).at \in StampsIn(d, i)
      /\ \A x \in StampsIn(d, i) : x <= VersionIn(d, i).at
  BY VersionIs
<1>3. S \in SUBSET (Stamp \cup {0}) /\ S # {}
  BY <1>2
<1>4. Max(S) \in S /\ \A y \in S : y <= Max(S)
  BY <1>3, MaxOfStamps
<1>5. \A x \in Stamp \cup {0} : x \in Nat
  BY MaxStampAssumption DEF Stamp
<1>6. Max(S) \in Nat /\ VersionIn(d, i).at \in Nat /\ n \in Nat
  BY <1>2, <1>3, <1>4, <1>5
<1>7. Max(S) = n \/ Max(S) <= VersionIn(d, i).at
  BY <1>2, <1>4
<1>8. n <= Max(S) /\ VersionIn(d, i).at <= Max(S)
  BY <1>2, <1>4
<1>9. Max(S) = IF n < VersionIn(d, i).at THEN VersionIn(d, i).at ELSE n
  BY <1>6, <1>7, <1>8
<1> QED  BY <1>1, <1>9

\* An empty document serves nothing.
LEMMA NothingIsServed ==
    ASSUME NEW i \in Id
    PROVE  VersionIn(EmptyDocument, i) = Store!Never
<1>1. StampsIn(EmptyDocument, i) = {0}
  BY DEF StampsIn, TombsOf, EmptyDocument
<1>2. VersionIn(EmptyDocument, i).at = 0
  BY <1>1, EmptyDocumentType, VersionIs
<1>3. ~Live(EmptyDocument, i)
  BY DEF Live, EmptyDocument
<1> QED  BY <1>2, <1>3, EmptyDocumentType, VersionIs DEF Store!Never

\* A change of the document is one of the abstract store's.
LEMMA ChangeServes ==
    ASSUME NEW d \in Document, NEW e \in Document, IsChange(d, e)
    PROVE  \E i \in Id, v \in Store!Version :
             /\ \A j \in Id : VersionIn(d, j).at < v.at
             /\ VersionIn(d, i).live \/ v.live
             /\ [j \in Id |-> VersionIn(e, j)] = [[j \in Id |-> VersionIn(d, j)] EXCEPT ![i] = v]
<1>1. PICK i \in Id, s \in Stamp :
           /\ NoneAfter(d, s - 1)
           /\ \/ e = WithRow(d, i, s)
              \/ Live(d, i) /\ e = WithoutRow(d, i, s)
  BY DEF IsChange
<1>2. s \in Nat /\ s # 0
  BY MaxStampAssumption DEF Stamp
<1>3. ASSUME NEW j \in Id PROVE VersionIn(d, j).at < s /\ \A x \in StampsIn(d, j) : x < s /\ x \in Nat
  <2>1. \A x \in StampsIn(d, j) : x <= s - 1 /\ x \in Nat
    BY <1>1, <1>2, VersionIs, MaxStampAssumption DEF NoneAfter, StampsIn, TombsOf, Stamp
  <2> QED  BY <1>2, <2>1, VersionIs
<1>4. ASSUME NEW j \in Id, j # i PROVE VersionIn(e, j) = VersionIn(d, j)
  <2>1. e.rows[j] = d.rows[j] /\ {u \in e.tombs : u.id = j} = {u \in d.tombs : u.id = j}
    <3>1. CASE e = WithRow(d, i, s)
      BY <1>4, <3>1 DEF WithRow, Document
    <3>2. CASE e = WithoutRow(d, i, s)
      <4>1. e.rows[j] = d.rows[j]
        BY <1>4, <3>2 DEF WithoutRow, Document
      <4>2. e.tombs = d.tombs \cup {[id |-> i, at |-> s]}
        BY <3>2 DEF WithoutRow
      <4> QED  BY <1>4, <4>1, <4>2
    <3> QED  BY <1>1, <3>1, <3>2
  <2> QED  BY <2>1 DEF VersionIn, Live
<1>5. /\ VersionIn(e, i).at = s
      /\ Live(d, i) \/ Live(e, i)
  <2>1. CASE e = WithRow(d, i, s)
    <3>1. e.rows[i] = s /\ e.tombs = d.tombs
      BY <2>1 DEF WithRow, Document
    <3>2. s \in StampsIn(e, i) /\ \A x \in StampsIn(e, i) : x <= s
      BY <1>2, <1>3, <3>1 DEF StampsIn, TombsOf
    <3> QED  BY <1>2, <3>1, <3>2, VersionIs DEF Live
  <2>2. CASE Live(d, i) /\ e = WithoutRow(d, i, s)
    <3>1. e.rows[i] = 0 /\ e.tombs = d.tombs \cup {[id |-> i, at |-> s]}
      BY <2>2 DEF WithoutRow, Document
    <3>2. s \in StampsIn(e, i)
      <4>1. [id |-> i, at |-> s] \in TombsOf({e}, i)
        BY <3>1 DEF TombsOf
      <4>2. \A t \in TombsOf({e}, i) : t.at \in StampsIn(e, i)
        BY DEF StampsIn
      <4>3. [id |-> i, at |-> s].at = s
        OBVIOUS
      <4> QED  BY <4>1, <4>2, <4>3
    <3>3. \A x \in StampsIn(e, i) : x \in StampsIn(d, i) \cup {0, s}
      BY <3>1 DEF StampsIn, TombsOf
    <3>4. \A x \in StampsIn(e, i) : x <= s
      BY <1>2, <1>3, <3>3
    <3> QED  BY <1>2, <2>2, <3>2, <3>4, VersionIs
  <2> QED  BY <1>1, <2>1, <2>2
<1>6. VersionIn(e, i) \in Store!Version /\ VersionIn(e, i).live = Live(e, i)
      /\ VersionIn(d, i).live = Live(d, i)
  BY VersionIs
<1>7. [j \in Id |-> VersionIn(e, j)] = [[j \in Id |-> VersionIn(d, j)] EXCEPT ![i] = VersionIn(e, i)]
  BY <1>4
<1> QED  BY <1>3, <1>5, <1>6, <1>7

\* What covers a document serves its versions or newer ones: no two documents put
\* different edits under one stamp, and a row in memory is newer than its tombstones.
LEMMA CoveringServes ==
    ASSUME NEW d \in Document, NEW e \in Document, Covers(d, e), Apart({d, e}),
           RowsOutliveTombs(d), RowsOutliveTombs(e),
           NEW i \in Id, VersionIn(d, i) # VersionIn(e, i)
    PROVE  VersionIn(e, i).at < VersionIn(d, i).at
<1> DEFINE m == VersionIn(e, i).at
           n == VersionIn(d, i).at
<1>1. /\ m \in StampsIn(e, i) /\ n \in StampsIn(d, i) /\ m \in Nat /\ n \in Nat
      /\ m \in Stamp \cup {0}
      /\ VersionIn(e, i) = [at |-> m, live |-> Live(e, i)]
      /\ VersionIn(d, i) = [at |-> n, live |-> Live(d, i)]
  BY VersionIs, MaxStampAssumption DEF Stamp
<1>2. m <= n
  <2>1. CASE m = 0
    BY <1>1, <2>1
  <2>2. CASE m # 0
    <3>1. Knows(e, i, m) /\ m \in Stamp
      BY <1>1, <2>2, KnownIsServed
    <3>2. Knows(d, i, m)
      BY <3>1 DEF Covers
    <3> QED  BY <1>1, <3>2, KnownIsServed
  <2> QED  BY <2>1, <2>2
<1>3. ASSUME m = n PROVE Live(d, i) = Live(e, i)
  <2>1. \A x \in {d, e} : Live(x, i) => x.rows[i] = m
    <3> SUFFICES ASSUME NEW x \in {d, e}, Live(x, i) PROVE x.rows[i] = m
      OBVIOUS
    <3>1. m \in StampsIn(x, i) /\ x.rows[i] <= m /\ x.rows[i] \in Nat
      <4>1. x \in Document /\ m = VersionIn(x, i).at
        BY <1>3
      <4>2. m \in StampsIn(x, i) /\ \A y \in StampsIn(x, i) : y <= m
        BY <4>1, VersionIs
      <4>3. x.rows[i] \in StampsIn(x, i) /\ x.rows[i] \in Nat
        BY <4>1, MaxStampAssumption DEF StampsIn, Document, Stamp
      <4> QED  BY <4>2, <4>3
    <3>2. m = x.rows[i] \/ \E t \in x.tombs : t.id = i /\ t.at = m
      BY <3>1 DEF StampsIn, TombsOf
    <3>3. \A t \in x.tombs : t.id = i => t.at < x.rows[i]
      BY DEF RowsOutliveTombs
    <3> QED  BY <1>1, <3>1, <3>2, <3>3
  <2>2. \A x \in {d, e} : ~Live(x, i) => m = 0 \/ \E t \in x.tombs : t.id = i /\ t.at = m
    BY <1>1, <1>3 DEF StampsIn, TombsOf, Live
  <2>3. \A x, y \in {d, e} : Live(x, i) /\ ~Live(y, i) => FALSE
    <3> SUFFICES ASSUME NEW x \in {d, e}, NEW y \in {d, e}, Live(x, i), ~Live(y, i) PROVE FALSE
      OBVIOUS
    <3>1. x.rows[i] = m /\ m # 0
      BY <2>1 DEF Live
    <3>2. PICK t \in y.tombs : t.id = i /\ t.at = m
      BY <2>2, <3>1
    <3>3. x.rows[t.id] # t.at
      BY DEF Apart
    <3> QED  BY <3>1, <3>2, <3>3
  <2> QED  BY <2>3 DEF Live
<1> QED  BY <1>1, <1>2, <1>3
-----------------------------------------------------------------------------
(* The steps, and the theorem *)

Stages   == [w \in Writer |-> Stage(w)]
Versions == [i \in Id |-> VersionIn(snapshot, i)]

\* A new document is shown as the abstract store serves it.
LEMMA PublishingServes ==
    ASSUME TypeOK, snapshot' \in Document, Showing(snapshot')
    PROVE  /\ Versions' \in [Id -> Store!Version]
           /\ shown' = [i \in Id |-> IF shown[i] < Versions'[i].at THEN Versions'[i].at
                                     ELSE shown[i]]
<1>1. Versions' = [i \in Id |-> VersionIn(snapshot', i)]
  BY DEF Versions, VersionIn, Live
<1>2. ASSUME NEW i \in Id
      PROVE  /\ VersionIn(snapshot', i) \in Store!Version
             /\ Max({shown[i], snapshot'.rows[i]} \cup {t.at : t \in TombsOf({snapshot'}, i)})
                 = IF shown[i] < VersionIn(snapshot', i).at THEN VersionIn(snapshot', i).at ELSE shown[i]
  <2>1. shown[i] \in Stamp \cup {0}
    BY DEF TypeOK
  <2> QED  BY <2>1, VersionIs, ShowingServes
<1> QED  BY <1>1, <1>2 DEF Showing

\* What is not published is not seen.
LEMMA UnseenStutters ==
    ASSUME UNCHANGED <<running, snapshot, shown, forgot>>
    PROVE  Versions' = Versions
BY DEF Versions, VersionIn, Live
\* The variables of the abstract store.
Shown == <<running, Stages, Versions, shown, forgot>>

\* A call of w that goes from one stage to another.
LEMMA StageMoves ==
    ASSUME TypeOK, NEW w \in Writer, NEW l, pc' = [pc EXCEPT ![w] = l]
    PROVE  /\ l = "idle" => Stages' = [Stages EXCEPT ![w] = "idle"]
           /\ l \in {"queued", "persist", "header", "again"} =>
                Stages' = [Stages EXCEPT ![w] = "called"]
           /\ l \in {"log", "append"} => Stages' = [Stages EXCEPT ![w] = "done"]
<1>1. w \in Thread /\ Writer \subseteq Thread /\ DOMAIN pc = Thread
  BY DEF TypeOK, Thread
<1>2. pc'[w] = l /\ \A v \in Writer : v # w => pc'[v] = pc[v]
  BY <1>1
<1>3. /\ l = "idle" => Stage(w)' = "idle"
      /\ l \in {"queued", "persist", "header", "again"} => Stage(w)' = "called"
      /\ l \in {"log", "append"} => Stage(w)' = "done"
      /\ \A v \in Writer : v # w => Stage(v)' = Stage(v)
  BY <1>2 DEF Stage
<1>4. Stages' = [v \in Writer |-> Stage(v)']
  BY DEF Stages
<1> QED  BY <1>3, <1>4 DEF Stages

\* Threads that do not write have no stage.
LEMMA OthersHaveNoStage ==
    ASSUME TypeOK, NEW t \in Poller \cup {Main}, NEW l, pc' = [pc EXCEPT ![t] = l]
    PROVE  Stages' = Stages
<1>1. t \in Thread /\ Writer \subseteq Thread /\ DOMAIN pc = Thread /\ t \notin Writer
  BY ThreadAssumption DEF TypeOK, Thread
<1>2. \A v \in Writer : pc'[v] = pc[v]
  BY <1>1
<1>3. \A v \in Writer : Stage(v)' = Stage(v)
  BY <1>2 DEF Stage
<1> QED  BY <1>3 DEF Stages

\* A write is called, takes effect when it is published, and returns.
LEMMA WriterServes ==
    ASSUME IInv, NEW w \in Writer, Request(w) \/ WriteStep(w)
    PROVE  Store!Call(w) \/ Store!TakeEffect(w) \/ Store!Return(w) \/ UNCHANGED Shown
<1>1. TypeOK /\ ThreadStates /\ Locking
  BY DEF IInv
<1>2. w \in Thread /\ pc \in [Thread -> {"idle", "queued", "hashed", "changed", "persist",
                                       "header", "again", "log", "append", "rehash"}]
  BY <1>1 DEF TypeOK, Thread
<1>3. Stages[w] = Stage(w) /\ Stages \in [Writer -> {"idle", "called", "done"}]
  <2>1. \A v \in Writer : pc[v] \in {"idle", "queued", "persist", "header", "again", "log", "append"}
    BY <1>1 DEF ThreadStates
  <2>2. \A v \in Writer : Stage(v) \in {"idle", "called", "done"}
    BY <2>1 DEF Stage
  <2> QED  BY <2>2 DEF Stages
<1>4. pc[w] # "idle" => running
  BY <1>1 DEF Locking
<1>5. CASE Request(w)
  <2>1. Stages' = [Stages EXCEPT ![w] = "called"] /\ Stages[w] = "idle" /\ running
    <3>1. pc' = [pc EXCEPT ![w] = "queued"] /\ pc[w] = "idle" /\ running
      BY <1>5 DEF Request, Goto
    <3>2. Stages' = [Stages EXCEPT ![w] = "called"]
      BY <1>1, <3>1, StageMoves
    <3>3. Stages[w] = "idle"
      BY <1>3, <3>1 DEF Stage
    <3> QED  BY <3>1, <3>2, <3>3
  <2>2. UNCHANGED <<running, snapshot, shown, forgot>>
    BY <1>5 DEF Request, observed
  <2>3. Versions' = Versions
    BY <2>2, UnseenStutters
  <2>4. Store!Call(w)
    BY <2>1, <2>2, <2>3 DEF Store!Call, Stages, Versions
  <2> QED  BY <2>4
<1>6. ASSUME WriteNothing(w) \/ WriteFails(w) \/ WriteLogged(w) PROVE Store!Return(w)
  <2>1. Stages' = [Stages EXCEPT ![w] = "idle"] /\ Stages[w] # "idle" /\ running
    <3>1. pc' = [pc EXCEPT ![w] = "idle"] /\ pc[w] \in {"queued", "persist", "again", "append"}
      BY <1>6 DEF WriteNothing, WriteFails, WriteLogged, Goto
    <3>2. pc[w] # "idle" /\ running
      BY <1>4, <3>1
    <3> QED  BY <1>1, <1>3, <3>1, <3>2, StageMoves DEF Stage
  <2>2. UNCHANGED <<running, snapshot, shown, forgot>>
    BY <1>6 DEF WriteNothing, WriteFails, WriteLogged, observed
  <2>3. Versions' = Versions
    BY <2>2, UnseenStutters
  <2> QED  BY <2>1, <2>2, <2>3 DEF Store!Return, Stages, Versions
<1>7. ASSUME Change(w) \/ CommitNext(w) \/ HeaderContended(w) \/ HandOver(w)
      PROVE  UNCHANGED Shown
  <2>1. Stages' = Stages
    <3>1. \/ pc[w] \in {"queued", "persist", "again", "header"}
             /\ \E l \in {"persist", "header", "again"} : pc' = [pc EXCEPT ![w] = l]
          \/ pc[w] = "log" /\ pc' = [pc EXCEPT ![w] = "append"]
      BY <1>7 DEF Change, CommitNext, HeaderContended, HandOver, Goto
    <3>2. CASE pc[w] = "log" /\ pc' = [pc EXCEPT ![w] = "append"]
      <4>1. Stages' = [Stages EXCEPT ![w] = "done"]
        BY <1>1, <3>2, StageMoves
      <4>2. Stages[w] = "done"
        BY <1>3, <3>2 DEF Stage
      <4> QED  BY <1>3, <4>1, <4>2
    <3>3. ASSUME pc[w] \in {"queued", "persist", "again", "header"},
                 NEW l \in {"persist", "header", "again"}, pc' = [pc EXCEPT ![w] = l]
          PROVE  Stages' = Stages
      <4>1. Stages' = [Stages EXCEPT ![w] = "called"]
        BY <1>1, <3>3, StageMoves
      <4>2. Stages[w] = "called"
        BY <1>3, <3>3 DEF Stage
      <4> QED  BY <1>3, <4>1, <4>2
    <3> QED  BY <3>1, <3>2, <3>3
  <2>2. UNCHANGED <<running, snapshot, shown, forgot>>
    BY <1>7 DEF Change, CommitNext, HeaderContended, HandOver, observed
  <2>3. Versions' = Versions
    BY <2>2, UnseenStutters
  <2> QED  BY <2>1, <2>2, <2>3 DEF Shown
<1>8. CASE WriteDone(w)
  <2>1. pc[w] = "header" /\ pc' = [pc EXCEPT ![w] = "log"] /\ snapshot' = spare
        /\ Showing(snapshot') /\ UNCHANGED <<running, forgot>>
    BY <1>8 DEF WriteDone, Goto
  <2>2. Stages' = [Stages EXCEPT ![w] = "done"] /\ Stages[w] = "called" /\ running
    BY <1>1, <1>3, <1>4, <2>1, StageMoves DEF Stage
  <2>3. Holds(w) /\ NoReload
    <3>1. Holds(w)
      BY <1>1, <2>1 DEF Locking, Writing
    <3>2. \A p \in Poller : Reloading(p) => FALSE
      BY <1>1, <3>1, ThreadAssumption DEF Locking, Holds
    <3> QED  BY <3>1, <3>2 DEF NoReload
  <2>4. IsChange(mem, spare) /\ mem = snapshot /\ snapshot \in Document /\ spare \in Document
    BY <1>1, <2>1, <2>2, <2>3 DEF IInv, Durability, Writing, TypeOK
  <2>5. Versions' = [i \in Id |-> VersionIn(spare, i)]
    BY <2>1 DEF Versions, VersionIn, Live
  <2>6. \E i \in Id, v \in Store!Version :
             /\ \A j \in Id : Versions[j].at < v.at
             /\ Versions[i].live \/ v.live
             /\ Versions' = [Versions EXCEPT ![i] = v]
    <3>1. PICK i \in Id, v \in Store!Version :
             /\ \A j \in Id : VersionIn(snapshot, j).at < v.at
             /\ VersionIn(snapshot, i).live \/ v.live
             /\ [j \in Id |-> VersionIn(spare, j)]
                  = [[j \in Id |-> VersionIn(snapshot, j)] EXCEPT ![i] = v]
      BY <2>4, ChangeServes
    <3> QED  BY <2>5, <3>1 DEF Versions
  <2>7. /\ Versions' \in [Id -> Store!Version]
        /\ shown' = [i \in Id |-> IF shown[i] < Versions'[i].at THEN Versions'[i].at ELSE shown[i]]
    BY <1>1, <2>1, <2>4, PublishingServes
  <2>8. Store!TakeEffect(w)
    BY <2>1, <2>2, <2>6, <2>7 DEF Store!TakeEffect, Store!Serve, Stages, Versions
  <2> QED  BY <2>8
<1> QED  BY <1>5, <1>6, <1>7, <1>8 DEF WriteStep
\* A reload is seen when it publishes what it merged.
LEMMA PollerServes ==
    ASSUME IInv, NEW p \in Poller, ReloadHash(p) \/ ReloadStep(p)
    PROVE  Store!Absorb \/ UNCHANGED Shown
<1>1. TypeOK /\ ThreadStates /\ Locking
  BY DEF IInv
<1>2. PICK l : pc' = [pc EXCEPT ![p] = l]
  BY DEF ReloadHash, ReloadStep, ReloadUnchanged, ReloadChanged, ReloadMerge, CommitAll,
     HeaderContended, ReloadFails, ReloadDone, ReloadLock, ReloadLogged, ReloadRehash, Goto
<1>3. Stages' = Stages
  BY <1>1, <1>2, OthersHaveNoStage
<1>4. CASE ~ReloadRehash(p)
  <2>1. UNCHANGED <<running, snapshot, shown, forgot>>
    BY <1>4 DEF ReloadHash, ReloadStep, ReloadUnchanged, ReloadChanged, ReloadMerge, CommitAll,
       HeaderContended, ReloadFails, ReloadDone, ReloadLock, ReloadLogged, observed
  <2>2. Versions' = Versions
    BY <2>1, UnseenStutters
  <2> QED  BY <1>3, <2>1, <2>2 DEF Shown
<1>5. CASE ReloadRehash(p)
  <2>1. pc[p] = "rehash" /\ snapshot' = mem /\ Showing(snapshot') /\ UNCHANGED <<running, forgot>>
    BY <1>5 DEF ReloadRehash
  <2>2. Reloading(p)
    BY <2>1 DEF Reloading
  <2>3. running
    BY <1>1, <2>1 DEF Locking
  <2>4. spare = snapshot /\ Covers(mem, spare) /\ mem \in Document /\ spare \in Document
    BY <1>1, <2>2 DEF IInv, Durability, TypeOK
  <2>5. Apart({mem, spare}) /\ RowsOutliveTombs(mem) /\ RowsOutliveTombs(spare)
    BY DEF IInv, EditOrder, Apart, Docs
  <2>6. Versions' = [i \in Id |-> VersionIn(mem, i)]
    BY <2>1 DEF Versions, VersionIn, Live
  <2>7. \A i \in Id : Versions'[i] # Versions[i] => Versions[i].at < Versions'[i].at
    BY <2>4, <2>5, <2>6, CoveringServes DEF Versions
  <2>8. /\ Versions' \in [Id -> Store!Version]
        /\ shown' = [i \in Id |-> IF shown[i] < Versions'[i].at THEN Versions'[i].at ELSE shown[i]]
    BY <1>1, <2>1, <2>4, PublishingServes
  <2>9. CASE <<Versions, shown>>' = <<Versions, shown>>
    BY <1>3, <2>1, <2>9 DEF Shown
  <2>10. CASE <<Versions, shown>>' # <<Versions, shown>>
    BY <1>3, <2>1, <2>3, <2>7, <2>8, <2>10 DEF Store!Absorb, Store!Serve, Stages, Versions
  <2> QED  BY <2>9, <2>10
<1> QED  BY <1>4, <1>5

\* A start is seen when the store opens, and loses only tombstones that it leaves out.
LEMMA OpeningServes ==
    ASSUME IInv, OpenStep
    PROVE  Store!Start \/ Store!Forget \/ UNCHANGED Shown
<1>1. TypeOK /\ ThreadStates /\ Locking
  BY DEF IInv
<1>2. Main \in Poller \cup {Main}
  OBVIOUS
<1>3. PICK l : pc' = [pc EXCEPT ![Main] = l]
  BY DEF OpenStep, Open, CommitAll, HeaderContended, OpenFails, OpenDone, OpenRehash, Goto
<1>4. Stages' = Stages
  BY <1>1, <1>2, <1>3, OthersHaveNoStage
<1>5. CASE Open
  <2>1. ~running /\ UNCHANGED <<running, snapshot, shown>>
    BY <1>5 DEF Open
  <2>2. Versions' = Versions
    BY <2>1 DEF Versions, VersionIn, Live
  <2>3. forgot \subseteq forgot' /\ forgot' \subseteq Id
    <3>1. forgot' = forgot \/ forgot' = forgot \cup {t.id : t \in disk.tombs}
      BY <1>5 DEF Open
    <3>2. forgot \subseteq Id /\ {t.id : t \in disk.tombs} \subseteq Id
      BY <1>1 DEF TypeOK, Document, Tombstone
    <3> QED  BY <3>1, <3>2
  <2> QED  BY <1>4, <2>1, <2>2, <2>3 DEF Store!Forget, Stages, Versions
<1>6. CASE OpenRehash
  <2>1. pc[Main] = "rehash" /\ snapshot' = mem /\ Showing(snapshot') /\ running' = TRUE
        /\ UNCHANGED forgot
    BY <1>6 DEF OpenRehash
  <2>2. ~running /\ KnowsShown(mem) /\ mem \in Document
    BY <1>1, <2>1 DEF IInv, Durability, Locking, TypeOK
  <2>3. Versions' = [i \in Id |-> VersionIn(mem, i)]
    BY <2>1 DEF Versions, VersionIn, Live
  <2>4. \A i \in Id \ forgot : shown[i] <= Versions'[i].at
    <3>1. ASSUME NEW i \in Id \ forgot PROVE shown[i] <= VersionIn(mem, i).at
      <4>1. shown[i] \in Stamp \cup {0} /\ Knows(mem, i, shown[i])
        BY <1>1, <2>2 DEF TypeOK, KnowsShown
      <4> QED  BY <2>2, <4>1, KnownIsServed
    <3> QED  BY <2>3, <3>1
  <2>5. /\ Versions' \in [Id -> Store!Version]
        /\ shown' = [i \in Id |-> IF shown[i] < Versions'[i].at THEN Versions'[i].at ELSE shown[i]]
    BY <1>1, <2>1, <2>2, PublishingServes
  <2> QED  BY <1>4, <2>1, <2>2, <2>4, <2>5 DEF Store!Start, Store!Serve, Stages, Versions
<1>7. CASE ~Open /\ ~OpenRehash
  <2>1. UNCHANGED <<running, snapshot, shown, forgot>>
    BY <1>7 DEF OpenStep, CommitAll, HeaderContended, OpenFails, OpenDone, observed
  <2>2. Versions' = Versions
    BY <2>1, UnseenStutters
  <2> QED  BY <1>4, <2>1, <2>2 DEF Shown
<1> QED  BY <1>5, <1>6, <1>7

\* A crash ends every call and what is served.
LEMMA CrashServes ==
    ASSUME Crash
    PROVE  Store!Stop
<1>1. running' = FALSE /\ snapshot' = EmptyDocument /\ UNCHANGED <<shown, forgot>>
      /\ pc' = [t \in Thread |-> "idle"]
  BY DEF Crash
<1>2. Stages' = Store!NoWrite
  BY <1>1 DEF Stages, Stage, Thread, Store!NoWrite
<1>3. Versions' = Store!Nothing
  <2>1. Versions' = [i \in Id |-> VersionIn(EmptyDocument, i)]
    BY <1>1 DEF Versions, VersionIn, Live
  <2> QED  BY <2>1, NothingIsServed DEF Store!Nothing
<1> QED  BY <1>1, <1>2, <1>3 DEF Store!Stop, Stages, Versions

\* Peers and the sync client are not seen until a merge.
LEMMA FolderServes ==
    ASSUME FolderStep
    PROVE  UNCHANGED Shown
<1>1. UNCHANGED <<running, snapshot, shown, forgot, pc>>
  BY DEF FolderStep, PeerEdits, PeerMerges, PeerHidesOrShows, PeerChanges
<1>2. Versions' = Versions
  BY <1>1, UnseenStutters
<1>3. Stages' = Stages
  BY <1>1 DEF Stages, Stage
<1> QED  BY <1>1, <1>2, <1>3 DEF Shown

\* Every step is one of the abstract store or leaves it alone.
LEMMA StepServes == IInv /\ [Next]_vars => [Store!DurableNext]_Shown
<1> SUFFICES ASSUME IInv, [Next]_vars PROVE Store!DurableNext \/ UNCHANGED Shown
  OBVIOUS
<1>1. ASSUME NEW w \in Writer, Request(w) \/ WriteStep(w)
      PROVE  Store!DurableNext \/ UNCHANGED Shown
  BY <1>1, WriterServes DEF Store!DurableNext
<1>2. ASSUME NEW p \in Poller, ReloadHash(p) \/ ReloadStep(p)
      PROVE  Store!DurableNext \/ UNCHANGED Shown
  BY <1>2, PollerServes DEF Store!DurableNext
<1>3. ASSUME OpenStep PROVE Store!DurableNext \/ UNCHANGED Shown
  BY <1>3, OpeningServes DEF Store!DurableNext
<1>4. ASSUME Crash PROVE Store!DurableNext
  BY <1>4, CrashServes DEF Store!DurableNext
<1>5. ASSUME FolderStep PROVE UNCHANGED Shown
  BY <1>5, FolderServes
<1>6. ASSUME UNCHANGED vars PROVE UNCHANGED Shown
  BY <1>6 DEF vars, Shown, Stages, Stage, Versions, VersionIn, Live
<1> QED  BY <1>1, <1>2, <1>3, <1>4, <1>5, <1>6 DEF Next

\* At first nothing is served.
LEMMA StartServes == Init => Store!DurableInit
<1> SUFFICES ASSUME Init PROVE Store!DurableInit
  OBVIOUS
<1>1. running = FALSE /\ snapshot = EmptyDocument /\ shown = [i \in Id |-> 0] /\ forgot = {}
      /\ pc = [t \in Thread |-> "idle"]
  BY DEF Init
<1>2. Stages = Store!NoWrite
  BY <1>1 DEF Stages, Stage, Thread, Store!NoWrite
<1>3. Versions = Store!Nothing
  BY <1>1, NothingIsServed DEF Versions, Store!Nothing
<1> QED  BY <1>1, <1>2, <1>3 DEF Store!DurableInit, Stages, Versions

\* To readers and writers the store is one document that each write changes at one moment
\* between its call and its return, that a merge only makes newer, and that no restart takes
\* back (AppState::write, read, open and reload_replicas_if_changed), for any number of
\* writers, reload threads, peers, edits and crashes.
THEOREM StoreServes == Spec => StoreIsDurable
<1>1. Init => Store!DurableInit
  BY StartServes
<1>2. IInv /\ [Next]_vars => [Store!DurableNext]_Shown
  BY StepServes
<1>3. [Store!DurableNext]_Shown => [Store!DurableNext]_(Store!durableVars)
  BY DEF Shown, Store!durableVars, Stages, Versions
<1> QED  BY <1>1, <1>2, <1>3, Invariance, PTL DEF Spec, StoreIsDurable, Store!DurableSpec
===============================================================================
