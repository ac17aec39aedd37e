-------------------------------- MODULE Records --------------------------------
(***************************************************************************)
(* The document of one device under its commands: tasks, tags, templates,  *)
(* tracked time and conflict copies (commands.rs, task_ops.rs, model.rs,   *)
(* conflict.rs), read back through the views of the MCP server             *)
(* (task_query.rs, logical_day.rs).                                        *)
(*                                                                         *)
(* A command is one write of the store: it checks, then changes, and a     *)
(* refused one changes nothing (ReplicaStore), so refusals are guards.     *)
(* MCP tools look tags up by name before their write.  Titles, notes,      *)
(* colours and stamps are left out, attachments are in DataFolder.  Time   *)
(* is local and has no leap: TicksPerDay ticks make a day, days count from *)
(* 1, and 0 is a date or time that is absent.                              *)
(***************************************************************************)
EXTENDS Integers, Sequences, FiniteSets, SequencesExt

CONSTANTS
    Name,           \* tag names, up to case
    MaxId,          \* bound on the ids given out
    MaxTick, TicksPerDay,
    DayStart,       \* day_start_hour, in ticks
    Horizon,        \* upcoming_days
    MaxLimit,       \* the most rows that a page of list_tasks can hold
    MaxOps          \* bound on commands

ASSUME RecordsAssumption ==
    /\ Name # {} /\ MaxId \in Nat /\ MaxId >= 6 /\ MaxTick \in Nat \ {0} /\ TicksPerDay \in Nat \ {0}
    /\ DayStart \in 0..(TicksPerDay - 1) /\ Horizon \in Nat \ {0}
    /\ MaxLimit \in Nat \ {0} /\ MaxOps \in Nat

VARIABLES
    tasks, tags, templates, \* the lists of the document
    deletedTags,            \* ids of the tombstones among deleted_tags
    copy,                   \* the document of a conflict copy, <<>> when there is none
    asked,                  \* the ids of the tasks that the conflict view shows
    doomed,                 \* the ids that the user last decided to lose there
    call,                   \* an MCP tool between its look at the tags and its write
    now,                    \* the clock
    fresh,                  \* the next id
    ops                     \* commands so far

recVars == <<tasks, tags, templates, deletedTags, copy, asked, doomed, call, now, fresh, ops>>
Doc     == <<tasks, tags, templates, deletedTags>>
Dialog  == <<copy, asked, doomed>>

Id   == 1..MaxId
Day  == 1..((MaxTick \div TicksPerDay) + 2)
Time == 1..MaxTick
Opt(S) == {0} \cup S

Entry  == [id : Id, start : Time, end : Opt(Time)]
Dates  == [due : Opt(Day), dueTime : BOOLEAN, start : Opt(Day), startTime : BOOLEAN]
NoDate == [due |-> 0, dueTime |-> FALSE, start |-> 0, startTime |-> FALSE]
Action == {"keep_mine", "keep_theirs", "keep_both", "drop"}

Ids(list) == {list[i].id : i \in DOMAIN list}
Get(list, id) == list[CHOOSE i \in DOMAIN list : list[i].id = id]
Put(list, rec) == [i \in DOMAIN list |-> IF list[i].id = rec.id THEN rec ELSE list[i]]

\* The records of the list at these indices, in order.
At(list, I) == FlattenSeq([i \in DOMAIN list |-> IF i \in I THEN <<list[i]>> ELSE <<>>])

Without(list, id) == At(list, {i \in DOMAIN list : list[i].id # id})
-----------------------------------------------------------------------------
(* Views *)

LogicalDay(t) ==
    LET day == (t - 1) \div TicksPerDay + 1
    IN IF (t - 1) % TicksPerDay < DayStart THEN day - 1 ELSE day

Today == (now - 1 - DayStart + TicksPerDay) \div TicksPerDay

CoversToday(t) == IF t.start > 0 THEN t.start <= Today ELSE t.due > 0 /\ t.due <= Today

TrackedToday(t) ==
    \E e \in t.entries : e.end = 0 \/ LogicalDay(e.start) = Today \/ LogicalDay(e.end) = Today

InInbox(t) == ~\E i \in DOMAIN tags : tags[i].pinned /\ tags[i].id \in t.tags

InUpcoming(t) == \E d \in 1..Horizon : t.start = Today + d \/ t.due = Today + d

View == {"all", "completed", "today", "inbox", "upcoming"}

InView(t, view) ==
    CASE view = "all"       -> t.done = 0
      [] view = "completed" -> t.done > 0
      [] view = "today"     -> t.done = 0 /\ (CoversToday(t) \/ TrackedToday(t))
      [] view = "inbox"     -> t.done = 0 /\ InInbox(t)
      [] view = "upcoming"  -> t.done = 0 /\ InUpcoming(t)

\* tags_by_name: of tags with one name, the last.
Filter(name) == LET I == {i \in DOMAIN tags : tags[i].name = name}
                IN {tags[i].id : i \in {i \in I : \A j \in I : j <= i}}

Unfiltered == "any"

Matches(view, name) ==
    At(tasks, {i \in DOMAIN tasks : /\ InView(tasks[i], view)
                                    /\ name # Unfiltered => tasks[i].tags \cap Filter(name) # {}})

\* Mutant of Page: what is left is counted after the rows are skipped.
PageCountsRest(found, limit, offset) ==
    [rows |-> SubSeq(found, offset + 1, IF offset + limit < Len(found) THEN offset + limit ELSE Len(found)),
     truncated |-> Len(found) - offset > offset + limit]

\* list_tasks: the rows from offset on, and whether more matched.
Page(found, limit, offset) ==
    [rows |-> SubSeq(found, offset + 1, IF offset + limit < Len(found) THEN offset + limit ELSE Len(found)),
     truncated |-> Len(found) > offset + limit]
-----------------------------------------------------------------------------
(* Tasks *)

\* One write of the store.
Saved(ids) ==
    /\ ops < MaxOps /\ ops' = ops + 1
    /\ fresh + ids <= MaxId + 1 /\ fresh' = fresh + ids

Known(ids) == ids \cap Ids(tags)

NewTask(id, dates, ids) ==
    [id |-> id, tags |-> Known(ids), done |-> 0, entries |-> {}, due |-> dates.due,
     dueTime |-> dates.due > 0 /\ dates.dueTime, start |-> dates.start,
     startTime |-> dates.start > 0 /\ dates.startTime]

\* update_task_record: a time goes with its date.
Edited(t, dates) ==
    [t EXCEPT !.due = dates.due, !.start = dates.start,
              !.dueTime = dates.due > 0 /\ dates.dueTime,
              !.startTime = dates.start > 0 /\ dates.startTime]

\* Mutant of Tagged: the ids are taken as they were looked up.
TaggedAsAsked(t, ids) == [t EXCEPT !.tags = ids]

Tagged(t, ids) == [t EXCEPT !.tags = Known(ids)]

\* The times that a form can hold: it sends a time without its date as well.
Inputs == {d \in Dates : d.due \in {0, 2} /\ d.start \in {0, 1} /\ (d.startTime => d.start > 0)}

AddTask ==
    /\ Saved(1)
    /\ \E d \in Inputs, ids \in SUBSET Ids(tags) : tasks' = Append(tasks, NewTask(fresh, d, ids))
    /\ UNCHANGED <<tags, templates, deletedTags, Dialog, call, now>>

UpdateTask ==
    /\ Saved(0)
    /\ \E id \in Ids(tasks) :
         \/ \E d \in Inputs : tasks' = Put(tasks, Edited(Get(tasks, id), d))
         \/ \E ids \in SUBSET Ids(tags) : tasks' = Put(tasks, Tagged(Get(tasks, id), ids))
    /\ UNCHANGED <<tags, templates, deletedTags, Dialog, call, now>>

\* Task::stop_timer: a clock that went back cannot record negative time.
StopAll(es) == {[e EXCEPT !.end = IF @ > 0 THEN @ ELSE IF now > e.start THEN now ELSE e.start] : e \in es}

SetDone ==
    /\ Saved(0)
    /\ \E id \in Ids(tasks), done \in BOOLEAN :
         LET t == Get(tasks, id)
         IN /\ (t.done > 0) # done
            /\ tasks' = Put(tasks, IF done THEN [t EXCEPT !.done = now, !.entries = StopAll(t.entries)]
                                   ELSE [t EXCEPT !.done = 0])
    /\ UNCHANGED <<tags, templates, deletedTags, Dialog, call, now>>

DeleteTask ==
    /\ Saved(0)
    /\ \E id \in Ids(tasks) : tasks' = Without(tasks, id)
    /\ UNCHANGED <<tags, templates, deletedTags, Dialog, call, now>>

DuplicateTask ==
    /\ Saved(1)
    /\ \E id \in Ids(tasks) :
         LET t == Get(tasks, id)
         IN tasks' = Append(tasks, [t EXCEPT !.id = fresh, !.tags = Known(t.tags), !.done = 0,
                                             !.entries = {}])
    /\ UNCHANGED <<tags, templates, deletedTags, Dialog, call, now>>
-----------------------------------------------------------------------------
(* Tracked time *)

Running(t) == {e \in t.entries : e.end = 0}

\* time_entry_overlaps; an open entry has no end.
Overlaps(t, start, end, except) ==
    \E e \in t.entries : e.id # except /\ (e.end = 0 \/ start < e.end) /\ (end = 0 \/ e.start < end)

\* The entries that a command leaves on the task.
Timed(t, es) ==
    /\ tasks' = Put(tasks, [t EXCEPT !.entries = es])
    /\ UNCHANGED <<tags, templates, deletedTags, Dialog, call, now>>

StartTimer ==
    /\ Saved(1)
    /\ \E id \in Ids(tasks) :
         LET t == Get(tasks, id)
         IN Running(t) = {} /\ Timed(t, t.entries \cup {[id |-> fresh, start |-> now, end |-> 0]})

StopTimer ==
    /\ Saved(0)
    /\ \E id \in Ids(tasks) :
         LET t == Get(tasks, id) IN Running(t) # {} /\ Timed(t, StopAll(t.entries))

AddTimeEntry ==
    /\ Saved(1)
    /\ \E id \in Ids(tasks), start \in Time, end \in Time :
         LET t == Get(tasks, id)
         IN /\ start < end /\ ~Overlaps(t, start, end, 0)
            /\ Timed(t, t.entries \cup {[id |-> fresh, start |-> start, end |-> end]})

\* update_time_entry: an end can be set, never cleared.
UpdateTimeEntry ==
    /\ Saved(0)
    /\ \E id \in Ids(tasks) :
         LET t == Get(tasks, id)
         IN \E e \in t.entries, start \in Time, end \in Opt(Time) :
              /\ (end = 0 => e.end = 0) /\ (end > 0 => start < end)
              /\ ~Overlaps(t, start, end, e.id)
              /\ Timed(t, (t.entries \ {e}) \cup {[e EXCEPT !.start = start, !.end = end]})

DeleteTimeEntry ==
    /\ Saved(0)
    /\ \E id \in Ids(tasks) :
         LET t == Get(tasks, id) IN \E e \in t.entries : Timed(t, t.entries \ {e})

\* discard_running_afk, on every task.
Discarded(es, afk) == {[e EXCEPT !.end = IF @ = 0 THEN afk ELSE @] :
                         e \in {e \in es : e.end > 0 \/ e.start < afk}}

DiscardAfk ==
    /\ Saved(0)
    /\ \E afk \in Time :
         tasks' = [i \in DOMAIN tasks |-> [tasks[i] EXCEPT !.entries = Discarded(tasks[i].entries, afk)]]
    /\ UNCHANGED <<tags, templates, deletedTags, Dialog, call, now>>

Tick == /\ now < MaxTick /\ now' = now + 1
        /\ UNCHANGED <<Doc, Dialog, call, fresh, ops>>
-----------------------------------------------------------------------------
(* Templates *)

\* validate_recurrence_tag, and no tag without a schedule.
Scheduled(t, recurs, tag) ==
    IF recurs THEN {u \in {[t EXCEPT !.recurs = TRUE, !.recTag = tag]} : tag \in t.tags}
    ELSE {[t EXCEPT !.recurs = FALSE, !.recTag = 0]}

AddTemplate ==
    /\ Saved(1)
    /\ \E ids \in SUBSET Ids(tags), recurs \in BOOLEAN, tag \in Opt(Ids(tags)), due \in {0, 1} :
         \E t \in Scheduled([id |-> fresh, tags |-> Known(ids), due |-> due, recurs |-> FALSE,
                             recTag |-> 0], recurs, tag) :
           templates' = Append(templates, t)
    /\ UNCHANGED <<tasks, tags, deletedTags, Dialog, call, now>>

\* The schedule, changed or not, is checked against the final tags.
UpdateTemplate ==
    /\ Saved(0)
    /\ \E id \in Ids(templates) :
         LET t == Get(templates, id)
         IN \E ids \in {t.tags} \cup SUBSET Ids(tags), recurs \in BOOLEAN,
               tag \in {t.recTag} \cup Opt(Ids(tags)) :
              \E u \in Scheduled(Tagged(t, ids), recurs, tag) : templates' = Put(templates, u)
    /\ UNCHANGED <<tasks, tags, deletedTags, Dialog, call, now>>

DeleteTemplate ==
    /\ Saved(0)
    /\ \E id \in Ids(templates) : templates' = Without(templates, id)
    /\ UNCHANGED <<tasks, tags, deletedTags, Dialog, call, now>>

\* duplicate_template_record: a tag that is no longer the template's own is dropped.
DuplicateTemplate ==
    /\ Saved(1)
    /\ \E id \in Ids(templates) :
         LET t == Get(templates, id)
         IN templates' = Append(templates, [t EXCEPT !.id = fresh, !.tags = Known(t.tags),
                           !.recTag = IF t.recurs /\ @ \in Known(t.tags) THEN @ ELSE 0])
    /\ UNCHANGED <<tasks, tags, deletedTags, Dialog, call, now>>

SpawnRecurring ==
    /\ Saved(1)
    /\ \E id \in Ids(templates), occurrence \in {1, 2} :
         LET t == Get(templates, id)
         IN tasks' = Append(tasks, NewTask(fresh, [NoDate EXCEPT !.start = occurrence,
                                  !.due = IF t.due = 0 THEN 0 ELSE occurrence + t.due], t.tags))
    /\ UNCHANGED <<tags, templates, deletedTags, Dialog, call, now>>
-----------------------------------------------------------------------------
(* Tags *)

AddTag ==
    /\ Saved(1)
    /\ \E n \in Name, p \in BOOLEAN : tags' = Append(tags, [id |-> fresh, name |-> n, pinned |-> p])
    /\ UNCHANGED <<tasks, templates, deletedTags, Dialog, call, now>>

UpdateTag ==
    /\ Saved(0)
    /\ \E id \in Ids(tags), n \in Name, p \in BOOLEAN :
         tags' = Put(tags, [id |-> id, name |-> n, pinned |-> p])
    /\ UNCHANGED <<tasks, templates, deletedTags, Dialog, call, now>>

Untagged(list, id) == [i \in DOMAIN list |-> [list[i] EXCEPT !.tags = @ \ {id}]]

\* delete_tag: the tag leaves every task and template, not their recurrence tags.
DeleteTag ==
    /\ Saved(0)
    /\ \E id \in Ids(tags) :
         /\ tags' = Without(tags, id) /\ deletedTags' = deletedTags \cup {id}
         /\ tasks' = Untagged(tasks, id) /\ templates' = Untagged(templates, id)
    /\ UNCHANGED <<Dialog, call, now>>
-----------------------------------------------------------------------------
(* MCP tools *)

NoCall == [at |-> "none", task |-> 0, tags |-> {}]

\* resolve_tag_names: of tags with one name, the first.
Named(name) == LET I == {i \in DOMAIN tags : tags[i].name = name}
               IN {tags[i].id : i \in {i \in I : \A j \in I : i <= j}}

\* create_task and update_task look the tags up; unknown names are refused.
McpLookUp ==
    /\ call = NoCall /\ ops < MaxOps
    /\ \E names \in SUBSET {tags[i].name : i \in DOMAIN tags}, id \in Opt(Ids(tasks)) :
         call' = [at |-> "resolved", task |-> id, tags |-> UNION {Named(n) : n \in names}]
    /\ UNCHANGED <<Doc, Dialog, now, fresh, ops>>

McpCreate ==
    /\ call.at = "resolved" /\ call.task = 0 /\ call' = NoCall /\ Saved(1)
    /\ tasks' = Append(tasks, NewTask(fresh, NoDate, call.tags))
    /\ UNCHANGED <<tags, templates, deletedTags, Dialog, now>>

McpUpdate ==
    /\ call.at = "resolved" /\ call.task \in Ids(tasks) /\ call' = NoCall /\ Saved(0)
    /\ tasks' = Put(tasks, Tagged(Get(tasks, call.task), call.tags))
    /\ UNCHANGED <<tags, templates, deletedTags, Dialog, now>>

\* The task is gone, or the server is stopping: the tool fails.
McpFails ==
    /\ call.at = "resolved" /\ call' = NoCall
    /\ UNCHANGED <<Doc, Dialog, now, fresh, ops>>
-----------------------------------------------------------------------------
(* Conflict copies *)

\* diff_tasks: the tasks on one side only, and those that differ.
Differ(mine, theirs) ==
    {id \in Ids(mine) \cup Ids(theirs) :
        id \in Ids(mine) \cap Ids(theirs) => Get(mine, id) # Get(theirs, id)}

ReadConflict ==
    /\ copy # <<>> /\ asked' = Differ(tasks, copy.tasks)
    /\ UNCHANGED <<Doc, copy, doomed, call, now, fresh, ops>>

\* apply_decisions on a task of ours; a second copy takes a fresh id.
Keep(t, action) ==
    CASE action = "keep_mine"   -> <<t>>
      [] action = "keep_theirs" -> <<IF t.id \in Ids(copy.tasks) THEN Get(copy.tasks, t.id) ELSE t>>
      [] action = "keep_both"   -> IF t.id \in Ids(copy.tasks)
                                     THEN <<t, [Get(copy.tasks, t.id) EXCEPT !.id = fresh]>> ELSE <<t>>
      [] action = "drop"        -> <<>>

\* What is not decided stays on both sides.
Decided(d, id, default) == IF id \in DOMAIN d THEN d[id] ELSE default

OnlyTheirs == {i \in DOMAIN copy.tasks : copy.tasks[i].id \notin Ids(tasks)}
BringIn    == {"keep_theirs", "keep_both"}

\* Mutant of Resolved: tasks of theirs come in when they are decided on.
ResolvedMine(d) ==
    FlattenSeq([i \in DOMAIN tasks |-> Keep(tasks[i], Decided(d, tasks[i].id, "keep_mine"))])
        \o At(copy.tasks, {i \in OnlyTheirs : Decided(d, copy.tasks[i].id, "drop") \in BringIn})

Resolved(d) ==
    FlattenSeq([i \in DOMAIN tasks |-> Keep(tasks[i], Decided(d, tasks[i].id, "keep_mine"))])
        \o At(copy.tasks, {i \in OnlyTheirs : Decided(d, copy.tasks[i].id, "keep_theirs") \in BringIn})

\* tags_to_merge: the tags of theirs that the tasks carry and we lack.
TagsToMerge(list) ==
    At(copy.tags, {k \in DOMAIN copy.tags : /\ copy.tags[k].id \notin Ids(tags)
                                            /\ \E i \in DOMAIN list : copy.tags[k].id \in list[i].tags})

\* At most one task is on both sides (RecInit), so one fresh id is enough.
Resolve ==
    /\ copy # <<>> /\ Saved(1)
    /\ \E D \in SUBSET asked : \E d \in [D -> Action] :
         /\ tasks' = Resolved(d) /\ tags' = tags \o TagsToMerge(Resolved(d))
         /\ doomed' = {id \in D : d[id] = "drop" \/ (d[id] = "keep_mine" /\ id \notin Ids(tasks))}
    /\ copy' = <<>> /\ asked' = {}
    /\ UNCHANGED <<templates, deletedTags, call, now>>

Dismiss ==
    /\ copy # <<>> /\ copy' = <<>> /\ asked' = {}
    /\ UNCHANGED <<doomed, Doc, call, now, fresh, ops>>
-----------------------------------------------------------------------------
(* A device whose task 2 is timed, and a conflict copy in which another device edited that
   task and added task 4 and their tag 3. *)
TaskOf(id, ids) == [id |-> id, tags |-> ids, done |-> 0, entries |-> {}, due |-> 0,
                    dueTime |-> FALSE, start |-> 0, startTime |-> FALSE]

RecInit ==
    /\ tags = <<[id |-> 1, name |-> (CHOOSE n \in Name : TRUE), pinned |-> TRUE]>>
    /\ tasks = <<[TaskOf(2, {1}) EXCEPT !.entries = {[id |-> 6, start |-> 1, end |-> 0]}]>>
    /\ templates = <<[id |-> 5, tags |-> {1}, due |-> 1, recurs |-> TRUE, recTag |-> 1]>>
    /\ deletedTags = {}
    /\ copy = [tasks |-> <<[TaskOf(2, {1, 3}) EXCEPT !.due = 1], TaskOf(4, {3})>>,
               tags |-> tags \o <<[id |-> 3, name |-> (CHOOSE n \in Name : TRUE), pinned |-> FALSE]>>]
    /\ asked = {} /\ doomed = {} /\ call = NoCall /\ now = 1 /\ fresh = 7 /\ ops = 0

RecNext ==
    \/ AddTask \/ UpdateTask \/ SetDone \/ DeleteTask \/ DuplicateTask
    \/ StartTimer \/ StopTimer \/ AddTimeEntry \/ UpdateTimeEntry \/ DeleteTimeEntry \/ DiscardAfk
    \/ Tick
    \/ AddTemplate \/ UpdateTemplate \/ DeleteTemplate \/ DuplicateTemplate \/ SpawnRecurring
    \/ AddTag \/ UpdateTag \/ DeleteTag
    \/ McpLookUp \/ McpCreate \/ McpUpdate \/ McpFails
    \/ ReadConflict \/ Resolve \/ Dismiss

RecSpec == RecInit /\ [][RecNext]_recVars
-----------------------------------------------------------------------------
(* Properties *)

Distinct(list) == \A i, j \in DOMAIN list : list[i].id = list[j].id => i = j

\* The document is sound after any commands: ids are unique, tag references hold, a time
\* has its date, a task times at most once and never backwards, and a schedule names a tag
\* of its template - unless that tag was deleted since (delete_tag leaves the name).
DocumentSound ==
    /\ Distinct(tasks) /\ Distinct(tags) /\ Distinct(templates)
    /\ \A i \in DOMAIN tasks : LET t == tasks[i] IN
         /\ t.tags \subseteq Ids(tags)
         /\ (t.dueTime => t.due > 0) /\ (t.startTime => t.start > 0)
         /\ Cardinality(Running(t)) <= 1
         /\ \A e \in t.entries : e \in Entry /\ (e.end > 0 => e.start <= e.end)
    /\ \A i \in DOMAIN templates : LET t == templates[i] IN
         /\ t.tags \subseteq Ids(tags)
         /\ t.recurs => \/ t.recTag \in t.tags \cup deletedTags
                        \/ t.recTag = 0 /\ deletedTags # {}
         /\ ~t.recurs => t.recTag = 0

\* Resolving a conflict loses only what the user decided to lose, and changes nothing the
\* user was not asked about, also when the document changed after the conflict was shown.
ResolutionLosesNothing ==
    [][copy # <<>> /\ copy' = <<>> /\ ops' # ops =>
         /\ (Ids(tasks) \cup Ids(copy.tasks)) \ Ids(tasks') \subseteq doomed'
         /\ \A id \in Ids(tasks) \ asked : Get(tasks', id) = Get(tasks, id)]_recVars

\* A client that asks for the next page as long as the answer is truncated gets the whole
\* view, in order and once; and every task is in "all" or in "completed".
Pages(found, limit) ==
    LET last == CHOOSE k \in 0..Len(found) :
                  /\ ~Page(found, limit, k * limit).truncated
                  /\ \A j \in 0..(k - 1) : Page(found, limit, j * limit).truncated
    IN FlattenSeq([k \in 1..(last + 1) |-> Page(found, limit, (k - 1) * limit).rows])

PagesCoverTheViews ==
    /\ \A view \in View, name \in Name \cup {Unfiltered}, limit \in 1..MaxLimit :
         LET found == Matches(view, name)
         IN Pages(found, limit) = found
    /\ \A i \in DOMAIN tasks : InView(tasks[i], "all") # InView(tasks[i], "completed")
=============================================================================
