------------------------------ MODULE Documents ------------------------------
(***************************************************************************)
(* Replicated documents and the two operations the store builds on them:   *)
(* the merge of several replicas into one (model.rs, merge_documents) and  *)
(* the SQLite write that replaces one document by another in a replica     *)
(* file, either by the rows that differ or by all rows (db.rs,             *)
(* write_document_once).                                                   *)
(*                                                                         *)
(* An entity (task, tag or template) is its id; the version of it that a   *)
(* document holds is the stamp of the edit that made it, 0 when the        *)
(* document has no such row.  Distinct edits have distinct stamps here, so *)
(* a stamp identifies a version.  The order of the rows, and stamps that   *)
(* collide, are not modelled in this module.                               *)
(***************************************************************************)
EXTENDS Integers, FiniteSets, FiniteSetsExt

CONSTANTS
    Id,         \* the ids of entities
    MaxStamp    \* the bound on edit stamps

ASSUME IdAssumption == IsFiniteSet(Id)
ASSUME MaxStampAssumption == MaxStamp \in Nat \ {0}

Stamp == 1..MaxStamp

\* model.rs: Tombstone
Tombstone == [id : Id, at : Stamp]

\* model.rs: Document.  `tombs' is the deleted_* list; a Vec there, so one id may
\* occur twice in it.
Document == [rows : [Id -> Stamp \cup {0}], tombs : SUBSET Tombstone]

EmptyDocument == [rows |-> [i \in Id |-> 0], tombs |-> {}]

Live(d, i) == d.rows[i] # 0

HasData(d) == \E i \in Id : Live(d, i)

-----------------------------------------------------------------------------
(* Merging *)

RowStamps(docs, i) == {d.rows[i] : d \in docs}

TombsOf(docs, i) == {t \in UNION {d.tombs : d \in docs} : t.id = i}

NewestRow(docs, i) == Max(RowStamps(docs, i))

\* latest_tombstones: the greatest deleted_at, 0 when no replica has a tombstone.
LatestTomb(docs, i) == Max({t.at : t \in TombsOf(docs, i)} \cup {0})

\* merge_documents: the newest row of each entity, unless a tombstone is at least as
\* new; of each entity's tombstones the latest.
Merge(docs) ==
    [rows  |-> [i \in Id |-> IF LatestTomb(docs, i) < NewestRow(docs, i)
                               THEN NewestRow(docs, i)
                               ELSE 0],
     tombs |-> {t \in UNION {d.tombs : d \in docs} : t.at = LatestTomb(docs, t.id)}]

\* d holds the edit of entity i that was stamped s, or a newer edit or deletion of it.
Knows(d, i, s) ==
    \/ s <= d.rows[i]
    \/ \E t \in d.tombs : t.id = i /\ s <= t.at
    \/ s = 0

\* d holds everything of every entity that e holds, or something newer.
Covers(d, e) == \A i \in Id, s \in Stamp : Knows(e, i, s) => Knows(d, i, s)

\* d is what merging e into d gives: e has no newer row and no later tombstone.
Absorbs(d, e) ==
    /\ \A i \in Id : Knows(d, i, e.rows[i])
    /\ \A u \in e.tombs : \E t \in d.tombs : t.id = u.id /\ u.at <= t.at

\* A row in d is newer than every deletion of its entity that d knows of.
RowsOutliveTombs(d) ==
    \A i \in Id : Live(d, i) => \A t \in d.tombs : t.id = i => t.at < d.rows[i]

\* No edit in d is younger than n.
NoneAfter(d, n) ==
    /\ \A i \in Id : d.rows[i] <= n
    /\ \A t \in d.tombs : t.at <= n

-----------------------------------------------------------------------------
(* The write closures *)

\* add_task_record, update_task_record: row i is now the edit stamped s.
WithRow(d, i, s) == [d EXCEPT !.rows[i] = s]

\* delete_task_record: the row goes and a tombstone is pushed; an older tombstone of
\* the same id stays in the list.
WithoutRow(d, i, s) == [rows  |-> [d.rows EXCEPT ![i] = 0],
                        tombs |-> d.tombs \cup {[id |-> i, at |-> s]}]

\* next is prev with one entity edited or deleted, by the youngest edit of all.
IsChange(prev, next) ==
    \E i \in Id, s \in Stamp :
        /\ NoneAfter(prev, s - 1)
        /\ \/ next = WithRow(prev, i, s)
           \/ Live(prev, i) /\ next = WithoutRow(prev, i, s)

-----------------------------------------------------------------------------
(* Writing a document to its replica file *)

\* The primary key (kind, id) of the tombstones table: write_all_rows INSERTs every
\* tombstone and fails on a second one of the same id.
Writable(d) == \A t, u \in d.tombs : t.id = u.id => t = u

\* rows_delta on an entity table: `true' at once when the lists are equal, else the
\* rows it deletes and updates must be in the file, those it inserts must not, and the
\* ids read back must be those of `next'.  That is: the file's ids are prev's.
RowsDeltaApplies(file, prev, next) ==
    \/ prev.rows = next.rows
    \/ \A i \in Id : Live(file, i) <=> Live(prev, i)

\* rows_delta on the tombstones table; a list that names an id twice never matches.
TombsDeltaApplies(file, prev, next) ==
    \/ prev.tombs = next.tombs
    \/ /\ Writable(next)
       /\ {t.id : t \in file.tombs} = {t.id : t \in prev.tombs}

\* Mutant of Patch: the tombstones are not written.
PatchRows(file, prev, next) ==
    [rows  |-> [i \in Id |-> IF prev.rows[i] = next.rows[i] THEN file.rows[i]
                                                            ELSE next.rows[i]],
     tombs |-> file.tombs]

\* What the file holds after write_delta: the rows that differ between prev and next
\* are replaced, the others stay as the FILE has them.
Patch(file, prev, next) ==
    [rows  |-> [i \in Id |-> IF prev.rows[i] = next.rows[i] THEN file.rows[i]
                                                            ELSE next.rows[i]],
     tombs |-> LET changed == {t.id : t \in (prev.tombs \ next.tombs)
                                              \cup (next.tombs \ prev.tombs)}
               IN  {t \in file.tombs : t.id \notin changed}
                     \cup {t \in next.tombs : t.id \in changed}]

DeltaApplies(file, prev, next) ==
    RowsDeltaApplies(file, prev, next) /\ TombsDeltaApplies(file, prev, next)

\* write_document_once with a `prev': the delta, or every row in the same transaction.
WriteSince(file, prev, next) ==
    IF DeltaApplies(file, prev, next) THEN Patch(file, prev, next) ELSE next

\* ... which fails when it falls back to write_all_rows and that violates the key.
WriteSinceFails(file, prev, next) ==
    ~DeltaApplies(file, prev, next) /\ ~Writable(next)
=============================================================================
