----------------------------- MODULE DurableStore -----------------------------
(***************************************************************************)
(* What a device's store promises to those who read and write it, whatever *)
(* threads, files, peers and crashes are behind it.  One document at a     *)
(* time is served.  A write takes effect at one moment between its call    *)
(* and its return, on the document that is served then, or not at all.  A  *)
(* merge only brings newer versions.  What was served once is served after *)
(* a restart, or something newer.                                          *)
(***************************************************************************)
EXTENDS Integers

CONSTANTS
    Writer,     \* who writes
    Id,         \* the ids of entities
    MaxStamp    \* the bound on edits

VARIABLES
    open,       \* the store can be read and written
    stage,      \* of each writer: no write, one that was called, one that took effect
    served,     \* of each entity the version that readers are served
    newest,     \* of each entity the newest edit ever served
    forgotten   \* the entities whose deletion a start may have lost

durableVars == <<open, stage, served, newest, forgotten>>

\* A version is the edit that made it, the latest one or a deletion.
Version == [at : 0..MaxStamp, live : BOOLEAN]
Never   == [at |-> 0, live |-> FALSE]

NoWrite == [w \in Writer |-> "idle"]
Nothing == [i \in Id |-> Never]

DurableInit ==
    /\ open = FALSE /\ stage = NoWrite /\ served = Nothing
    /\ newest = [i \in Id |-> 0] /\ forgotten = {}

\* Readers are served something else.
Serve ==
    /\ served' \in [Id -> Version]
    /\ newest' = [i \in Id |-> IF newest[i] < served'[i].at THEN served'[i].at ELSE newest[i]]

Call(w) ==
    /\ open /\ stage[w] = "idle" /\ stage' = [stage EXCEPT ![w] = "called"]
    /\ UNCHANGED <<open, served, newest, forgotten>>

\* One entity is added, edited or deleted, by an edit newer than all that is served.
TakeEffect(w) ==
    /\ open /\ stage[w] = "called" /\ stage' = [stage EXCEPT ![w] = "done"]
    /\ \E i \in Id, v \in Version :
         /\ \A j \in Id : served[j].at < v.at
         /\ served[i].live \/ v.live
         /\ served' = [served EXCEPT ![i] = v]
    /\ Serve
    /\ UNCHANGED <<open, forgotten>>

\* A write that took effect succeeds; one that did not has failed, or changed nothing.
Return(w) ==
    /\ open /\ stage[w] # "idle" /\ stage' = [stage EXCEPT ![w] = "idle"]
    /\ UNCHANGED <<open, served, newest, forgotten>>

\* A merge replaces some versions, each by one of a newer edit.
Absorb ==
    /\ open /\ <<served, newest>>' # <<served, newest>> /\ Serve
    /\ \A i \in Id : served'[i] # served[i] => served[i].at < served'[i].at
    /\ UNCHANGED <<open, stage, forgotten>>

\* The program ends, and calls with it.
Stop ==
    /\ open' = FALSE /\ stage' = NoWrite /\ served' = Nothing
    /\ UNCHANGED <<newest, forgotten>>

\* A start that reads only peers' data leaves this device's deletions behind.
Forget ==
    /\ ~open /\ forgotten \subseteq forgotten' /\ forgotten' \subseteq Id
    /\ UNCHANGED <<open, stage, served, newest>>

Start ==
    /\ ~open /\ open' = TRUE /\ Serve
    /\ \A i \in Id \ forgotten : newest[i] <= served'[i].at
    /\ UNCHANGED <<stage, forgotten>>

DurableNext ==
    \/ \E w \in Writer : Call(w) \/ TakeEffect(w) \/ Return(w)
    \/ Absorb \/ Stop \/ Forget \/ Start

DurableSpec == DurableInit /\ [][DurableNext]_durableVars
=============================================================================
