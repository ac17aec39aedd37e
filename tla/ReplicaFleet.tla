----------------------------- MODULE ReplicaFleet -----------------------------
(***************************************************************************)
(* Several devices that keep one document by merging each other's replicas *)
(* (model.rs, merge_documents): the commands that edit tasks, tags and     *)
(* time entries, the cloud folder that carries the replicas, the reload of *)
(* peers and the restart.  The threads, locks and failed persists of one   *)
(* device are in ReplicaStore; a command, a reload or a start-up is one    *)
(* step here.                                                              *)
(*                                                                         *)
(* A version of an entity is the edit that made it, named by its tick.     *)
(* Ticks are the milliseconds of the code: in memory a stamp is the tick,  *)
(* on disk it is cut to the second, TicksPerSecond ticks.  The devices'    *)
(* clocks agree.  Templates merge as tasks without time entries do, and    *)
(* attachments as time entries with tombstones: both are left out.         *)
(***************************************************************************)
EXTENDS Integers, Sequences, FiniteSets, FiniteSetsExt

CONSTANTS
    Device,         \* numbers, in the order of the replicas' file names
    Task, Tag,      \* entity ids, every one of them on all devices at first
    Late,           \* the entities that do not exist at first
    TicksPerSecond,
    MaxTick,        \* bound on edits
    MaxRestarts,    \* bound on restarts
    MaxEntries,     \* bound on the time entries a user gives one task
    Absent          \* no row

ASSUME FleetAssumption ==
    /\ Device \subseteq Nat /\ IsFiniteSet(Device)
    /\ Task \cap Tag = {} /\ IsFiniteSet(Task \cup Tag) /\ Late \subseteq Task \cup Tag
    /\ MaxTick \in Nat /\ MaxEntries \in Nat /\ MaxRestarts \in Nat
    /\ TicksPerSecond \in 1..MaxTick

VARIABLES
    doc,    \* each device's document, in memory
    view,   \* the peers' replicas as the cloud client has brought them to a device
    seen,   \* the peers' replicas a device merged last (peers_hash)
    clock,
    restarts

vars == <<doc, view, seen, clock, restarts>>

Item == Task \cup Tag
Tick == 1..MaxTick

\* model.rs: TimeEntry, named by the tick that made it; the running timer is open.
Entry == [id : Tick, open : BOOLEAN]

\* model.rs: Task and Tag.  `refs' is tag_ids; a tag has neither refs nor entries.
Row == [stamp : Tick, edit : Tick, refs : SUBSET Tag, entries : SUBSET Entry]

ASSUME RowAssumption == Absent \notin Row

\* An edit as the user made it.
Edit == [item : Item, at : Tick, kind : {"put", "delete", "add", "remove"}, entry : Tick \cup {0}]

\* model.rs: Document, one tombstone stamp per entity, 0 for none.  `edits' only
\* observes: the edits that went into the document, whatever became of them.
Document == [row : [Item -> Row \cup {Absent}], tomb : [Item -> Tick \cup {0}],
             edits : SUBSET Edit]

Peers(d) == Device \ {d}

TypeOK ==
    /\ clock \in Tick /\ restarts \in 0..MaxRestarts
    /\ doc \in [Device -> Document]
    /\ \A d \in Device : view[d] \in [Peers(d) -> Document] /\ seen[d] \in [Peers(d) -> Document]
-----------------------------------------------------------------------------
Live(d, i) == d.row[i] # Absent
HasData(d) == \E i \in Item : Live(d, i)

Puts(d, i) == {e \in d.edits : e.item = i /\ e.kind # "delete"}
Deletions(d, i) == {e \in d.edits : e.item = i /\ e.kind = "delete"}

\* Mutant of OnDisk: always the second before.
OnDiskEarly(stamp) == stamp - TicksPerSecond

\* iso_secs: the stamp a replica file holds.
OnDisk(stamp) == stamp - (stamp % TicksPerSecond)

\* The replica file of a document.
Replica(d) ==
    [d EXCEPT !.row = [i \in Item |-> IF Live(d, i) THEN [d.row[i] EXCEPT !.stamp = OnDisk(@)]
                                                    ELSE Absent],
              !.tomb = [i \in Item |-> OnDisk(d.tomb[i])]]

Rank(names, p) == Cardinality({q \in names : q <= p})
NameAt(names, n) == CHOOSE p \in names : Rank(names, p) = n

\* collect_peer_docs: in the order of the file names.
InNameOrder(docs) == [n \in 1..Cardinality(DOMAIN docs) |-> docs[NameAt(DOMAIN docs, n)]]
-----------------------------------------------------------------------------
(* merge_documents of a sequence of documents *)

\* Mutant of Leads: the later of two equally old replicas wins.
LeadsOnTie(docs, i) ==
    {n \in DOMAIN docs :
        /\ Live(docs[n], i)
        /\ \A m \in 1..(n - 1) : Live(docs[m], i) => docs[m].row[i].stamp <= docs[n].row[i].stamp}

\* The documents whose row of i is newer than those of all documents before.
Leads(docs, i) ==
    {n \in DOMAIN docs :
        /\ Live(docs[n], i)
        /\ \A m \in 1..(n - 1) : Live(docs[m], i) => docs[m].row[i].stamp < docs[n].row[i].stamp}

Ids(entries) == {e.id : e \in entries}

\* Mutant of Bearer: always the first copy.
BearerFirst(docs, i, id) ==
    Min({n \in DOMAIN docs : Live(docs[n], i) /\ id \in Ids(docs[n].row[i].entries)})

\* merge_time_entries: of an entry, the copy that comes with the last row to take the
\* lead; of the entries that no leading row has, the first copy.
Bearer(docs, i, id) ==
    LET has == {n \in DOMAIN docs : Live(docs[n], i) /\ id \in Ids(docs[n].row[i].entries)}
    IN  IF has \cap Leads(docs, i) = {} THEN Min(has) ELSE Max(has \cap Leads(docs, i))

\* Mutant of AllEntries: the losing rows' entries are dropped.
LeadersEntries(docs, i) == docs[Max(Leads(docs, i))].row[i].entries

AllEntries(docs, i) ==
    UNION {{e \in docs[n].row[i].entries : Bearer(docs, i, e.id) = n} :
              n \in {m \in DOMAIN docs : Live(docs[m], i)}}

\* The loop of merge_documents over one entity's rows, and_modify and or_insert: the
\* operators above say what it computes (MergeIsTheLoop).
Union(into, from) ==
    [into EXCEPT !.entries = @ \cup {e \in from.entries : e.id \notin Ids(into.entries)}]

TakeIn(acc, row) ==
    IF row = Absent THEN acc
    ELSE IF acc = Absent THEN row
    ELSE IF row.stamp > acc.stamp THEN Union(row, acc) ELSE Union(acc, row)

\* What the loop leaves in its accumulator.
Loop(docs, i) ==
    LET acc[n \in 0..Len(docs)] ==
            IF n = 0 THEN Absent ELSE TakeIn(acc[n - 1], docs[n].row[i])
    IN  acc[Len(docs)]

Tomb(docs, i) == Max({docs[n].tomb[i] : n \in DOMAIN docs} \cup {0})

\* Mutant of Survives: tombstones suppress nothing.
SurvivesAlways(docs, i) == Leads(docs, i) # {}

\* No tombstone is as new as the newest row.
Survives(docs, i) ==
    Leads(docs, i) # {} /\ Tomb(docs, i) < docs[Max(Leads(docs, i))].row[i].stamp

\* Mutant of Merge: references to tags that did not survive are kept.
MergeKeepingRefs(docs) ==
    [row   |-> [i \in Item |->
                  IF Survives(docs, i)
                    THEN [docs[Max(Leads(docs, i))].row[i] EXCEPT !.entries = AllEntries(docs, i)]
                    ELSE Absent],
     tomb  |-> [i \in Item |-> Tomb(docs, i)],
     edits |-> UNION {docs[n].edits : n \in DOMAIN docs}]

\* References to tags that did not survive are stripped, without a new stamp.
Merge(docs) ==
    [row   |-> [i \in Item |->
                  IF Survives(docs, i)
                    THEN [docs[Max(Leads(docs, i))].row[i] EXCEPT
                            !.refs = {g \in @ : Survives(docs, g)},
                            !.entries = AllEntries(docs, i)]
                    ELSE Absent],
     tomb  |-> [i \in Item |-> Tomb(docs, i)],
     edits |-> UNION {docs[n].edits : n \in DOMAIN docs}]
-----------------------------------------------------------------------------
Shared ==
    [row   |-> [i \in Item |-> IF i \in Late THEN Absent
                               ELSE [stamp |-> TicksPerSecond, edit |-> TicksPerSecond,
                                     refs |-> IF i \in Task THEN Tag \ Late ELSE {},
                                     entries |-> {}]],
     tomb  |-> [i \in Item |-> 0],
     edits |-> {[item |-> i, at |-> TicksPerSecond, kind |-> "put", entry |-> 0] :
                   i \in Item \ Late}]

Init ==
    /\ doc = [d \in Device |-> Shared]
    /\ view = [d \in Device |-> [p \in Peers(d) |-> Shared]]
    /\ seen = view
    /\ clock = TicksPerSecond /\ restarts = 0
-----------------------------------------------------------------------------
(* The commands, on device d *)

\* A command gets the next stamp.
Stamps(d) ==
    /\ clock < MaxTick
    /\ clock' = clock + 1
    /\ UNCHANGED <<view, seen, restarts>>

NewEdit(i, kind, entry) == [item |-> i, at |-> clock', kind |-> kind, entry |-> entry]

\* Row i of d becomes `row', restamped; how the user would describe it: `what'.
Write(d, i, row, what) ==
    doc' = [doc EXCEPT ![d].row[i] = [row EXCEPT !.stamp = clock', !.edit = clock'],
                       ![d].edits = @ \cup what]

\* add_task_record, add_tag.
AddItem(d, i) ==
    /\ \A e \in Device : Puts(doc[e], i) = {} /\ \A p \in Peers(e) : Puts(view[e][p], i) = {}
    /\ Stamps(d)
    /\ \E refs \in SUBSET (IF i \in Task THEN {g \in Tag : Live(doc[d], g)} ELSE {}) :
         Write(d, i, [stamp |-> clock', edit |-> clock', refs |-> refs, entries |-> {}],
               {NewEdit(i, "put", 0)})

\* update_task_record, update_tag; set_task_done of a task whose timer is not running,
\* update_time_entry that moves an entry.
EditItem(d, i) ==
    /\ Live(doc[d], i)
    /\ Stamps(d)
    /\ \E refs \in SUBSET (IF i \in Task THEN {g \in Tag : Live(doc[d], g)} ELSE {}) :
         Write(d, i, [doc[d].row[i] EXCEPT !.refs = refs], {NewEdit(i, "put", 0)})

\* delete_task_record.  A second tombstone of one task cannot be written to the replica
\* file, which fails the command.
DeleteTask(d, t) ==
    /\ Live(doc[d], t) /\ doc[d].tomb[t] = 0
    /\ Stamps(d)
    /\ doc' = [doc EXCEPT ![d].row[t] = Absent, ![d].tomb[t] = clock',
                          ![d].edits = @ \cup {NewEdit(t, "delete", 0)}]

\* Mutant of DeleteTag: no tombstone is left.
DeleteTagOnly(d, g) ==
    /\ Live(doc[d], g) /\ doc[d].tomb[g] = 0
    /\ Stamps(d)
    /\ LET tasks == {t \in Task : Live(doc[d], t)}
       IN  doc' = [doc EXCEPT
             ![d].row = [i \in Item |->
                           IF i = g THEN Absent
                           ELSE IF i \in tasks
                             THEN [doc[d].row[i] EXCEPT !.stamp = clock', !.edit = clock',
                                                        !.refs = @ \ {g}]
                             ELSE doc[d].row[i]],
             ![d].edits = @ \cup {NewEdit(g, "delete", 0)} \cup {NewEdit(t, "put", 0) : t \in tasks}]

\* delete_tag: all tasks lose it, and all are restamped.
DeleteTag(d, g) ==
    /\ Live(doc[d], g) /\ doc[d].tomb[g] = 0
    /\ Stamps(d)
    /\ LET tasks == {t \in Task : Live(doc[d], t)}
       IN  doc' = [doc EXCEPT
             ![d].row = [i \in Item |->
                           IF i = g THEN Absent
                           ELSE IF i \in tasks
                             THEN [doc[d].row[i] EXCEPT !.stamp = clock', !.edit = clock',
                                                        !.refs = @ \ {g}]
                             ELSE doc[d].row[i]],
             ![d].tomb[g] = clock',
             ![d].edits = @ \cup {NewEdit(g, "delete", 0)} \cup {NewEdit(t, "put", 0) : t \in tasks}]

Open(row) == {e \in row.entries : e.open}
Closed(entries) == {[e EXCEPT !.open = FALSE] : e \in entries}

\* start_timer and add_time_entry.
AddEntry(d, t, open) ==
    /\ Live(doc[d], t)
    /\ open => Open(doc[d].row[t]) = {}
    /\ Cardinality(doc[d].row[t].entries) < MaxEntries
    /\ Stamps(d)
    /\ Write(d, t, [doc[d].row[t] EXCEPT !.entries = @ \cup {[id |-> clock', open |-> open]}],
             {NewEdit(t, "add", clock')})

\* stop_timer, set_task_done of a task whose timer is running, update_time_entry that
\* ends it.
StopTimer(d, t) ==
    /\ Live(doc[d], t) /\ Open(doc[d].row[t]) # {}
    /\ Stamps(d)
    /\ Write(d, t, [doc[d].row[t] EXCEPT !.entries = Closed(@)], {NewEdit(t, "put", 0)})

\* delete_time_entry.
DeleteEntry(d, t) ==
    /\ Live(doc[d], t)
    /\ Stamps(d)
    /\ \E e \in doc[d].row[t].entries :
         Write(d, t, [doc[d].row[t] EXCEPT !.entries = @ \ {e}], {NewEdit(t, "remove", e.id)})

\* discard_running_afk: the timers started since `away' go, the others end then.
DiscardAfk(d) ==
    /\ Stamps(d)
    /\ \E away \in 1..clock :
         LET tasks   == {t \in Task : Live(doc[d], t) /\ Open(doc[d].row[t]) # {}}
             gone(t) == {e \in Open(doc[d].row[t]) : e.id >= away}
         IN  /\ tasks # {}
             /\ doc' = [doc EXCEPT
                  ![d].row = [i \in Item |->
                      IF i \in tasks
                        THEN [doc[d].row[i] EXCEPT !.stamp = clock', !.edit = clock',
                                                   !.entries = Closed(@ \ gone(i))]
                        ELSE doc[d].row[i]],
                  ![d].edits = @ \cup {NewEdit(t, "put", 0) : t \in tasks}
                      \cup UNION {{NewEdit(t, "remove", e.id) : e \in gone(t)} : t \in tasks}]
-----------------------------------------------------------------------------
(* Synchronisation *)

\* The cloud client brings p's replica, as it is now, to d.
Deliver(d, p) ==
    /\ view[d][p] # Replica(doc[p])
    /\ view' = [view EXCEPT ![d][p] = Replica(doc[p])]
    /\ UNCHANGED <<doc, seen, clock, restarts>>

\* Mutant of Reload: our own document does not take part.
ReloadPeersOnly(d) ==
    /\ seen[d] # view[d]
    /\ doc' = [doc EXCEPT ![d] = Merge(InNameOrder(view[d]))]
    /\ seen' = [seen EXCEPT ![d] = view[d]]
    /\ UNCHANGED <<view, clock, restarts>>

\* reload_replicas_if_changed: the peers, in name order, and our document last.
Reload(d) ==
    /\ seen[d] # view[d]
    /\ doc' = [doc EXCEPT ![d] = Merge(Append(InNameOrder(view[d]), doc[d]))]
    /\ seen' = [seen EXCEPT ![d] = view[d]]
    /\ UNCHANGED <<view, clock, restarts>>

\* AppState::open, with our document read back from its file; one that holds no task
\* and no tag is not merged.
Restart(d) ==
    /\ restarts < MaxRestarts /\ restarts' = restarts + 1
    /\ LET own == Replica(doc[d])
           docs == InNameOrder(view[d])
       IN  doc' = [doc EXCEPT ![d] = Merge(IF HasData(own) \/ docs = <<>>
                                             THEN Append(docs, own) ELSE docs)]
    /\ seen' = [seen EXCEPT ![d] = view[d]]
    /\ UNCHANGED <<view, clock>>

Command(d) ==
    \/ \E i \in Item : AddItem(d, i) \/ EditItem(d, i)
    \/ \E t \in Task : \/ DeleteTask(d, t) \/ StopTimer(d, t) \/ DeleteEntry(d, t)
                       \/ \E open \in BOOLEAN : AddEntry(d, t, open)
    \/ \E g \in Tag : DeleteTag(d, g)
    \/ DiscardAfk(d)

Next ==
    \E d \in Device : \/ Command(d) \/ Reload(d) \/ Restart(d)
                      \/ \E p \in Peers(d) : Deliver(d, p)

Spec == Init /\ [][Next]_vars

\* The cloud client delivers in the end, and every device polls.
FairSpec ==
    /\ Spec
    /\ \A d \in Device : WF_vars(Reload(d)) /\ \A p \in Peers(d) : WF_vars(Deliver(d, p))
-----------------------------------------------------------------------------
(* Properties *)

\* Every device has merged every other device's present replica.
Settled == \A d \in Device : seen[d] = view[d] /\ \A p \in Peers(d) : view[d][p] = Replica(doc[p])

\* What a user sees.
Visible(d) == [row |-> [i \in Item |-> IF Live(d, i)
                          THEN [edit |-> d.row[i].edit, refs |-> d.row[i].refs,
                                entries |-> d.row[i].entries]
                          ELSE Absent]]

\* Once all replicas are delivered and merged all devices show the same document, in
\* whatever order edits, deletions, deliveries and restarts happened.
SettledFleetAgrees ==
    Settled => \A d, e \in Device : Visible(doc[d]) = Visible(doc[e])

\* A document is the evaluation of the edits that went into it: an entity is shown in
\* its newest edit, or not at all when a deletion is as new; never in an older edit, and
\* never back from a deletion, whichever replicas came first.  Expected to fail when two
\* edits fall into one second: "the one with the greater edit stamp wins the fields"
\* (openspec/specs/multi-device-sync/spec.md, newer edit wins).
LastWriterWins ==
    \A d \in Device, i \in Item :
        LET newest == Max({e.at : e \in Puts(doc[d], i)} \cup {0})
            gone   == Max({e.at : e \in Deletions(doc[d], i)} \cup {0})
        IN  IF newest > gone THEN Live(doc[d], i) /\ doc[d].row[i].edit = newest
                             ELSE ~Live(doc[d], i)

\* "union time entries by id when merging replicas, so a concurrent addition on a losing
\* replica is not lost": of a task that was never deleted no entry gets lost unless a
\* user removed it.
AdditionsSurvive ==
    \A d \in Device, t \in Task :
        Live(doc[d], t) /\ doc[d].tomb[t] = 0 =>
            \A e \in doc[d].edits :
                e.item = t /\ e.kind = "add" =>
                    \/ e.entry \in Ids(doc[d].row[t].entries)
                    \/ \E r \in doc[d].edits : r.kind = "remove" /\ r.entry = e.entry

\* A task shows no tag that is gone: "merging ... tags so they do not dangle".
TagsDoNotDangle ==
    \A d \in Device, t \in Task :
        Live(doc[d], t) => \A g \in doc[d].row[t].refs : Live(doc[d], g)

\* What Merge says of rows and time entries, without an order of evaluation, is what the
\* loop of merge_documents leaves in its accumulator, in every merge a device may make.
MergeIsTheLoop ==
    \A d \in Device, i \in Item :
        LET docs == Append(InNameOrder(view[d]), doc[d])
        IN  IF Leads(docs, i) = {} THEN Loop(docs, i) = Absent
            ELSE Loop(docs, i) = [docs[Max(Leads(docs, i))].row[i] EXCEPT !.entries = AllEntries(docs, i)]

\* Once users make no more edits and restarts, every entity is shown everywhere in the
\* same edit for good, although what goes without a stamp (stripped tags, copies of
\* one time entry) may go on changing hands.
NewestEditsArrive ==
    <>[](\A d, e \in Device, i \in Item :
            IF Live(doc[d], i) THEN Live(doc[e], i) /\ doc[d].row[i].edit = doc[e].row[i].edit
                               ELSE ~Live(doc[e], i))
=============================================================================
