--------------------------------- MODULE Window ---------------------------------
(***************************************************************************)
(* How the window learns that the document changed (store_notify.rs) and   *)
(* reloads it, and how it waits for a data folder that is not mounted yet  *)
(* (src/state/store.ts with try_open_data and open_default_store).         *)
(*                                                                         *)
(* The store is the number of documents it published, 0 while it is the    *)
(* pending stand-in: ReplicaStore and DataFolder say what is in them.      *)
(* Events are delivered by the main thread, which also runs try_open_data, *)
(* so an answer to it is not overtaken by what that thread does later.     *)
(***************************************************************************)
EXTENDS Integers

CONSTANTS
    MaxRev,         \* bound on published documents
    MaxDropped,     \* bound on writes that the stand-in accepts
    MAX_ATTEMPTS, SHOW_FALLBACK_FROM

ASSUME WindowAssumption ==
    /\ MaxRev \in Nat \ {0} /\ MaxDropped \in Nat
    /\ MAX_ATTEMPTS \in Nat /\ SHOW_FALLBACK_FROM \in Nat /\ MAX_ATTEMPTS > 1

VARIABLES
    ready,      \* the data folder is there
    rev,        \* the documents published by the real store
    dropped,    \* the writes that the stand-in accepted
    owed,       \* changes that are published or dropped, and not yet notified
    throttle,   \* StoreChangedThrottle
    events,     \* events on their way to the window
    fetch,      \* the reload in flight, and whether another must follow
    shown,      \* the document on screen, 0 for none
    screen,     \* the loading screen
    attempts,   \* retryCountRef
    timers,     \* retries scheduled, by the attempts completed
    calls,      \* retries waiting for tryOpenData, likewise
    silent      \* observation: the store opened, and no event says so

uiVars == <<ready, rev, dropped, owed, throttle, events, fetch, shown, screen, attempts,
            timers, calls, silent>>

store   == <<ready, rev, dropped, owed, throttle>>
retries == <<screen, attempts, timers, calls>>

Attempt == 1..(MAX_ATTEMPTS - 1)
Chains  == 0..(MaxDropped + 1)

NoFetch == [at |-> "none", doc |-> 0, again |-> FALSE]
Loaded  == [waiting |-> FALSE, fallback |-> FALSE, gaveUp |-> FALSE]

WindowTypeOK ==
    /\ ready \in BOOLEAN /\ silent \in BOOLEAN
    /\ rev \in 0..MaxRev /\ shown \in 0..MaxRev /\ dropped \in 0..MaxDropped
    /\ owed \in 0..(MaxRev + MaxDropped) /\ events \in 0..(MaxRev + MaxDropped + 1)
    /\ throttle \in [recent : BOOLEAN, trailing : BOOLEAN]
    /\ fetch \in [at : {"none", "asked", "answered"}, doc : 0..MaxRev, again : BOOLEAN]
    /\ screen \in [waiting : BOOLEAN, fallback : BOOLEAN, gaveUp : BOOLEAN]
    /\ attempts \in 0..MAX_ATTEMPTS
    /\ {timers, calls} \subseteq [Attempt -> Chains]

Pending == rev = 0

\* The window opens and loads the document once.
UiInit ==
    /\ ready \in BOOLEAN /\ rev = (IF ready THEN 1 ELSE 0)
    /\ dropped = 0 /\ owed = 0 /\ events = 0
    /\ throttle = [recent |-> FALSE, trailing |-> FALSE]
    /\ fetch = [NoFetch EXCEPT !.at = "asked"]
    /\ shown = 0 /\ screen = Loaded /\ attempts = 0
    /\ timers = [c \in Attempt |-> 0] /\ calls = [c \in Attempt |-> 0]
    /\ silent = FALSE
-----------------------------------------------------------------------------
(* Changes and their events *)

\* A command, an MCP tool or a reload publishes a document.
Commit ==
    /\ ~Pending /\ rev < MaxRev /\ rev' = rev + 1 /\ owed' = owed + 1
    /\ UNCHANGED <<ready, dropped, throttle, events, fetch, shown, retries, silent>>

\* The stand-in accepts writes of MCP tools.
CommitPending ==
    /\ Pending /\ dropped < MaxDropped /\ dropped' = dropped + 1 /\ owed' = owed + 1
    /\ UNCHANGED <<ready, rev, throttle, events, fetch, shown, retries, silent>>

\* Mutant of Notify: a change within the window has no event of its own.
NotifyLeading ==
    /\ owed > 0 /\ owed' = owed - 1
    /\ throttle' = [throttle EXCEPT !.recent = TRUE]
    /\ events' = IF throttle.recent THEN events ELSE events + 1
    /\ UNCHANGED <<ready, rev, dropped, fetch, shown, retries, silent>>

\* emit_store_changed: at once, or by a trailing event that covers all changes before it.
Notify ==
    /\ owed > 0 /\ owed' = owed - 1
    /\ throttle' = IF throttle.recent THEN [throttle EXCEPT !.trailing = TRUE]
                                      ELSE [throttle EXCEPT !.recent = TRUE]
    /\ events' = IF throttle.recent THEN events ELSE events + 1
    /\ UNCHANGED <<ready, rev, dropped, fetch, shown, retries, silent>>

\* STORE_CHANGED_WINDOW is over: the trailing event opens the next one.
WindowEnds ==
    /\ throttle.recent
    /\ throttle' = [recent |-> throttle.trailing, trailing |-> FALSE]
    /\ events' = IF throttle.trailing THEN events + 1 ELSE events
    /\ UNCHANGED <<ready, rev, dropped, owed, fetch, shown, retries, silent>>
-----------------------------------------------------------------------------
(* Loading the document *)

\* refresh: one load at a time, and one more after it for all events that came meanwhile.
Refreshed ==
    IF fetch.at = "none" THEN [NoFetch EXCEPT !.at = "asked"] ELSE [fetch EXCEPT !.again = TRUE]

Deliver ==
    /\ events > 0 /\ events' = events - 1
    /\ fetch' = Refreshed
    /\ UNCHANGED <<store, shown, retries, silent>>

\* get_document: the published document, or the refusal of the stand-in.
Answer ==
    /\ fetch.at = "asked"
    /\ fetch' = [fetch EXCEPT !.at = "answered", !.doc = rev]
    /\ silent' = (silent /\ Pending)
    /\ UNCHANGED <<store, events, shown, retries>>

\* load: a document clears the loading screen; a refusal starts the retries over, beside
\* those there are.
Land ==
    /\ fetch.at = "answered"
    /\ fetch' = IF fetch.again THEN [NoFetch EXCEPT !.at = "asked"] ELSE NoFetch
    /\ IF fetch.doc > 0
         THEN /\ shown' = fetch.doc /\ screen' = Loaded /\ attempts' = 0
              /\ UNCHANGED <<timers, calls>>
         ELSE /\ attempts' = 1
              /\ screen' = [screen EXCEPT !.waiting = TRUE]
              /\ timers' = [timers EXCEPT ![1] = @ + 1]
              /\ UNCHANGED <<shown, calls>>
    /\ UNCHANGED <<store, events, silent>>
-----------------------------------------------------------------------------
(* Waiting for the folder *)

FolderAppears ==
    /\ ~ready /\ ready' = TRUE
    /\ UNCHANGED <<rev, dropped, owed, throttle, events, fetch, shown, retries, silent>>

\* Mutant of TimerFires: the timer is an interval.
TimerRepeats(c) ==
    /\ timers[c] > 0
    /\ attempts' = c + 1
    /\ calls' = [calls EXCEPT ![c] = @ + 1]
    /\ UNCHANGED <<store, events, fetch, shown, screen, timers, silent>>

TimerFires(c) ==
    /\ timers[c] > 0 /\ timers' = [timers EXCEPT ![c] = @ - 1]
    /\ attempts' = c + 1
    /\ calls' = [calls EXCEPT ![c] = @ + 1]
    /\ UNCHANGED <<store, events, fetch, shown, screen, silent>>

\* Mutant of ScheduleRetry: an attempt is repeated when the first has just failed.
ScheduleRetryOnce ==
    timers' = IF attempts = 1 THEN [timers EXCEPT ![1] = @ + 1] ELSE timers

\* scheduleRetry starts from the shared count.
ScheduleRetry ==
    timers' = IF attempts \in Attempt THEN [timers EXCEPT ![attempts] = @ + 1] ELSE timers

Retried(c, ok) ==
    /\ calls[c] > 0 /\ calls' = [calls EXCEPT ![c] = @ - 1]
    /\ IF ok THEN UNCHANGED <<screen, timers>>
       ELSE /\ screen' = [screen EXCEPT !.fallback = @ \/ c + 1 >= SHOW_FALLBACK_FROM,
                                        !.gaveUp   = @ \/ c + 1 >= MAX_ATTEMPTS]
            /\ IF c + 1 >= MAX_ATTEMPTS THEN UNCHANGED timers ELSE ScheduleRetry

\* Mutant of TryOpen: a store that is open is reported as not opened.
TryOpenPendingOnly(c) ==
    /\ Retried(c, FALSE)
    /\ UNCHANGED <<store, events, fetch, shown, attempts, silent>>

\* try_open_data: the store is open, or opens when the folder is there and can be read;
\* opening it has an event of its own.
TryOpen(c) ==
    /\ \/ /\ ~Pending /\ Retried(c, TRUE)
          /\ fetch' = Refreshed /\ UNCHANGED <<rev, events>>
       \/ /\ Pending /\ ready /\ Retried(c, TRUE)
          /\ rev' = 1 /\ events' = events + 1 /\ fetch' = Refreshed
       \/ /\ Pending /\ Retried(c, FALSE) /\ UNCHANGED <<rev, events, fetch>>
    /\ UNCHANGED <<ready, dropped, owed, throttle, shown, attempts, silent>>

\* createNewData: the store opens at the default folder; when the setting cannot be saved
\* there is no event.
OpenDefault ==
    /\ screen.fallback /\ Pending /\ rev' = 1
    /\ \/ events' = events + 1 /\ UNCHANGED silent
       \/ silent' = TRUE /\ UNCHANGED events
    /\ UNCHANGED <<ready, dropped, owed, throttle, fetch, shown, retries>>

UiNext ==
    \/ Commit \/ CommitPending \/ Notify \/ WindowEnds
    \/ Deliver \/ Answer \/ Land
    \/ FolderAppears \/ OpenDefault
    \/ \E c \in Attempt : TimerFires(c) \/ TryOpen(c)

\* Threads run, timers fire, the main thread delivers events and runs commands.
UiFairness ==
    /\ WF_uiVars(Notify) /\ WF_uiVars(WindowEnds)
    /\ WF_uiVars(Deliver) /\ WF_uiVars(Answer) /\ WF_uiVars(Land)
    /\ \A c \in Attempt : WF_uiVars(TimerFires(c)) /\ WF_uiVars(TryOpen(c))

UiSpec == UiInit /\ [][UiNext]_uiVars /\ UiFairness
-----------------------------------------------------------------------------
(* Properties *)

\* "The last change is always followed by an event" (store_notify.rs) and "responses
\* cannot land out of order" (store.ts): the window implements Display.  A store that was
\* opened without an event counts as published from the next load on.
D == INSTANCE Display WITH rev <- IF silent THEN 0 ELSE rev, shown <- shown
WindowImplementsDisplay == D!Spec

\* A window that has a document shows it: no retry that is still scheduled, or comes back
\* late, puts the loading screen over it (App.tsx shows that whenever a flag is set).
LoadedMeansVisible == shown > 0 => screen = Loaded

\* The user is not left with a spinner: a window that waits gets the document or the
\* offer to give up, however retry chains disturb each other's count.
WaitingEnds == screen.waiting ~> (shown > 0 \/ screen.gaveUp)
=============================================================================
