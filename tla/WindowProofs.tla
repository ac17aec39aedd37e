------------------------------ MODULE WindowProofs ------------------------------
(***************************************************************************)
(* Proofs about Window, for every bound: a document is never covered by    *)
(* the loading screen, every step is one of Display or a stutter, and      *)
(* retry chains do not pile up.                                            *)
(***************************************************************************)
EXTENDS Window, FiniteSetTheorems, TLAPS

\* The types that the proofs need.
Counted ==
    /\ rev \in Nat /\ shown \in Nat /\ silent \in BOOLEAN
    /\ fetch \in [at : {"none", "asked", "answered"}, doc : Nat, again : BOOLEAN]

\* What is on screen, or about to be, was published; a load under way is not older than
\* what is on screen, so one that was refused found no document there; and a store that
\* opened silently was not shown yet.
InOrder ==
    /\ fetch.doc <= rev /\ shown <= rev
    /\ fetch.at = "answered" => shown <= fetch.doc
    /\ silent => shown = 0 /\ (fetch.at = "answered" => fetch.doc = 0)

WindowInv == Counted /\ InOrder /\ LoadedMeansVisible

LEMMA UiStarts == UiInit => WindowInv
<1> SUFFICES ASSUME UiInit PROVE WindowInv
  OBVIOUS
<1>1. fetch = [at |-> "asked", doc |-> 0, again |-> FALSE]
  BY DEF UiInit, NoFetch
<1>2. rev \in Nat /\ shown = 0 /\ silent \in BOOLEAN /\ ~silent
  BY DEF UiInit
<1> QED BY <1>1, <1>2 DEF WindowInv, Counted, InOrder, LoadedMeansVisible

\* A reload that is asked for leaves the one under way as it is.
LEMMA AskingKeepsTheLoad ==
    ASSUME Counted
    PROVE  /\ Refreshed \in [at : {"none", "asked", "answered"}, doc : Nat, again : BOOLEAN]
           /\ Refreshed.doc \in {0, fetch.doc}
           /\ Refreshed.at = "answered" => fetch.at = "answered" /\ Refreshed.doc = fetch.doc
  BY DEF Counted, Refreshed, NoFetch

LEMMA WindowStep == WindowInv /\ [UiNext]_uiVars => WindowInv'
<1> SUFFICES ASSUME WindowInv, [UiNext]_uiVars PROVE WindowInv'
  OBVIOUS
<1> USE DEF WindowInv, Counted, InOrder, LoadedMeansVisible
<1>1. CASE Commit BY <1>1 DEF Commit, retries
<1>2. CASE CommitPending BY <1>2 DEF CommitPending, retries
<1>3. CASE Notify BY <1>3 DEF Notify, retries
<1>4. CASE WindowEnds BY <1>4 DEF WindowEnds, retries
<1>5. CASE Deliver
  BY <1>5, AskingKeepsTheLoad DEF Deliver, store, retries
<1>6. CASE Answer
  <2>1. fetch' = [fetch EXCEPT !.at = "answered", !.doc = rev]
        /\ UNCHANGED <<rev, shown, screen>>
    BY <1>6 DEF Answer, store, retries
  <2>2. silent' = (silent /\ rev = 0)
    BY <1>6 DEF Answer, Pending
  <2>3. silent' \in BOOLEAN /\ (silent' => silent /\ rev = 0)
    BY <2>2, Zenon
  <2>4. fetch' = [at |-> "answered", doc |-> rev, again |-> fetch.again]
    BY <2>1
  <2> QED BY <2>1, <2>3, <2>4
<1>7. CASE Land
  <2>1. /\ fetch' \in [at : {"none", "asked", "answered"}, doc : Nat, again : BOOLEAN]
        /\ fetch'.at # "answered" /\ fetch'.doc = 0
        /\ UNCHANGED <<rev, silent>> /\ fetch.at = "answered"
    BY <1>7 DEF Land, store, NoFetch
  <2>2. CASE fetch.doc > 0
    <3>1. shown' = fetch.doc /\ screen' = Loaded
      BY <1>7, <2>2 DEF Land
    <3> QED BY <2>1, <2>2, <3>1
  <2>3. CASE ~(fetch.doc > 0)
    <3>1. shown' = shown /\ shown = 0
      BY <1>7, <2>1, <2>3 DEF Land
    <3> QED BY <2>1, <2>3, <3>1
  <2> QED BY <2>2, <2>3
<1>8. CASE FolderAppears BY <1>8 DEF FolderAppears, retries
<1>9. CASE OpenDefault
  <2>1. rev = 0 /\ rev' = 1 /\ silent' \in BOOLEAN /\ UNCHANGED <<fetch, shown, screen>>
    BY <1>9 DEF OpenDefault, Pending, retries
  <2> QED BY <2>1
<1>10. ASSUME NEW c \in Attempt, TimerFires(c) PROVE WindowInv'
  BY <1>10 DEF TimerFires, store
<1>11. ASSUME NEW c \in Attempt, TryOpen(c) PROVE WindowInv'
  <2>1. UNCHANGED <<shown, silent>>
    BY <1>11 DEF TryOpen
  <2>2. CASE ~Pending /\ Retried(c, TRUE) /\ fetch' = Refreshed /\ UNCHANGED <<rev, events>>
    <3>1. UNCHANGED screen
      BY <2>2 DEF Retried
    <3> QED BY <2>1, <2>2, <3>1, AskingKeepsTheLoad
  <2>3. CASE Pending /\ Retried(c, TRUE) /\ rev' = 1 /\ fetch' = Refreshed
    <3>1. UNCHANGED screen
      BY <2>3 DEF Retried
    <3> QED BY <2>1, <2>3, <3>1, AskingKeepsTheLoad DEF Pending
  <2>4. CASE Pending /\ UNCHANGED <<rev, events, fetch>>
    BY <2>1, <2>4 DEF Pending
  <2> QED BY <1>11, <2>2, <2>3, <2>4 DEF TryOpen
<1>12. CASE UNCHANGED uiVars BY <1>12 DEF uiVars
<1> QED BY <1>1, <1>2, <1>3, <1>4, <1>5, <1>6, <1>7, <1>8, <1>9, <1>10, <1>11, <1>12 DEF UiNext

\* The documents that Display knows of.
Known == IF silent THEN 0 ELSE rev

\* A step publishes or shows, or Display does not see it.
LEMMA StepIsDisplays ==
    ASSUME WindowInv, WindowInv', [UiNext]_uiVars
    PROVE  [D!Next]_<<Known, shown>>
<1> USE DEF WindowInv, Counted, InOrder, Known, D!Next, D!Publish, D!Show
<1>1. CASE Commit BY <1>1 DEF Commit
<1>2. CASE CommitPending BY <1>2 DEF CommitPending
<1>3. CASE Notify BY <1>3 DEF Notify
<1>4. CASE WindowEnds BY <1>4 DEF WindowEnds
<1>5. CASE Deliver BY <1>5 DEF Deliver, store
<1>6. CASE Answer BY <1>6 DEF Answer, store, Pending
<1>7. CASE Land
  <2>1. UNCHANGED <<rev, silent>> /\ fetch.at = "answered" /\ shown' \in {shown, fetch.doc}
    BY <1>7 DEF Land, store
  <2>2. CASE silent BY <2>1, <2>2
  <2>3. CASE ~silent BY <2>1, <2>3
  <2> QED BY <2>2, <2>3
<1>8. CASE FolderAppears BY <1>8 DEF FolderAppears
<1>9. CASE OpenDefault BY <1>9 DEF OpenDefault, Pending
<1>10. ASSUME NEW c \in Attempt, TimerFires(c) PROVE UNCHANGED <<Known, shown>>
  BY <1>10 DEF TimerFires, store
<1>11. ASSUME NEW c \in Attempt, TryOpen(c) PROVE [D!Next]_<<Known, shown>>
  <2>1. UNCHANGED <<shown, silent>> /\ (UNCHANGED rev \/ (rev = 0 /\ rev' = 1))
    BY <1>11 DEF TryOpen, Pending
  <2> QED BY <2>1
<1>12. CASE UNCHANGED uiVars BY <1>12 DEF uiVars
<1> QED BY <1>1, <1>2, <1>3, <1>4, <1>5, <1>6, <1>7, <1>8, <1>9, <1>10, <1>11, <1>12 DEF UiNext

\* Every reachable window keeps its documents in order.
LEMMA WindowInvariance == UiSpec => []WindowInv
  BY UiStarts, WindowStep, PTL DEF UiSpec

\* Once a document is on screen the loading screen stays away, however many retries are
\* scheduled or come back late (src/state/store.ts).
THEOREM DocumentStaysVisible == UiSpec => []LoadedMeansVisible
  BY WindowInvariance, PTL DEF WindowInv

\* The window shows published documents only, in the order they were published: every
\* step is one of Display or a stutter (store_notify.rs, refresh in src/state/store.ts).
THEOREM WindowStepsImplementDisplay == UiSpec => D!Init /\ [][D!Next]_<<Known, shown>>
<1>1. UiInit => D!Init
  BY DEF UiInit, D!Init
<1>2. WindowInv /\ WindowInv' /\ [UiNext]_uiVars => [D!Next]_<<Known, shown>>
  BY StepIsDisplays
<1> QED BY <1>1, <1>2, WindowInvariance, PTL DEF UiSpec
-----------------------------------------------------------------------------
(* How many retry chains there are *)

\* The retries that f counts, one by one.
Each(f) == {t \in Attempt \X Nat : 1 <= t[2] /\ t[2] <= f[t[1]]}

Countable(f) == f \in [Attempt -> Nat] /\ IsFiniteSet(Each(f))

Count(f) == Cardinality(Each(f))

\* No retry, none to count.
LEMMA NoneToCount ==
    ASSUME NEW f, f = [c \in Attempt |-> 0]
    PROVE  Countable(f) /\ Count(f) = 0
<1>1. f \in [Attempt -> Nat] /\ Each(f) = {}
  BY DEF Each
<1> QED  BY <1>1, FS_EmptySet DEF Countable, Count

\* One more retry after an attempt.
LEMMA OneMore ==
    ASSUME NEW f, Countable(f), NEW c \in Attempt, NEW g, g = [f EXCEPT ![c] = f[c] + 1]
    PROVE  Countable(g) /\ Count(g) = Count(f) + 1 /\ Count(f) \in Nat
<1>1. f \in [Attempt -> Nat] /\ IsFiniteSet(Each(f)) /\ g \in [Attempt -> Nat] /\ f[c] \in Nat
  BY DEF Countable
<1> DEFINE x == <<c, f[c] + 1>>
<1>2. x \notin Each(f)
  BY <1>1 DEF Each
<1>3. Each(g) = Each(f) \cup {x}
  <2>1. ASSUME NEW a \in Attempt, NEW k \in Nat
        PROVE  <<a, k>> \in Each(g) <=> (<<a, k>> \in Each(f) \/ <<a, k>> = x)
    <3>1. CASE a = c
      <4>1. g[a] = f[a] + 1 /\ f[a] \in Nat
        BY <1>1, <3>1
      <4> QED  BY <3>1, <4>1 DEF Each
    <3>2. CASE a # c
      <4>1. g[a] = f[a]
        BY <1>1, <3>2
      <4> QED  BY <3>2, <4>1 DEF Each
    <3> QED  BY <3>1, <3>2
  <2>2. x \in Attempt \X Nat
    BY <1>1
  <2> HIDE DEF x
  <2>3. Each(g) \subseteq Attempt \X Nat /\ Each(f) \subseteq Attempt \X Nat
    BY DEF Each
  <2>4. ASSUME NEW t \in Attempt \X Nat PROVE t \in Each(g) <=> t \in Each(f) \cup {x}
    <3>1. t = <<t[1], t[2]>> /\ t[1] \in Attempt /\ t[2] \in Nat
      OBVIOUS
    <3>2. <<t[1], t[2]>> \in Each(g) <=> (<<t[1], t[2]>> \in Each(f) \/ <<t[1], t[2]>> = x)
      BY <2>1, <3>1
    <3> QED  BY <3>1, <3>2
  <2> QED  BY <2>2, <2>3, <2>4
<1> HIDE DEF x
<1>4. /\ IsFiniteSet(Each(f) \cup {x}) /\ Cardinality(Each(f)) \in Nat
      /\ Cardinality(Each(f) \cup {x}) = Cardinality(Each(f)) + 1
  BY <1>1, <1>2, FS_AddElement, FS_CardinalityType
<1> QED  BY <1>1, <1>3, <1>4 DEF Countable, Count

\* One retry less.
LEMMA OneLess ==
    ASSUME NEW f, Countable(f), NEW c \in Attempt, f[c] > 0, NEW g, g = [f EXCEPT ![c] = f[c] - 1]
    PROVE  Countable(g) /\ Count(f) = Count(g) + 1 /\ Count(g) \in Nat
<1>1. f \in [Attempt -> Nat] /\ IsFiniteSet(Each(f)) /\ g \in [Attempt -> Nat] /\ f[c] \in Nat
      /\ g[c] = f[c] - 1
  BY DEF Countable
<1>2. f = [g EXCEPT ![c] = g[c] + 1]
  <2>1. \A a \in Attempt : f[a] = [g EXCEPT ![c] = g[c] + 1][a]
    BY <1>1
  <2> QED  BY <1>1, <2>1
<1>3. Each(g) \subseteq Each(f)
  <2>1. \A a \in Attempt : g[a] <= f[a] /\ f[a] \in Nat /\ g[a] \in Nat
    BY <1>1
  <2> QED  BY <2>1 DEF Each
<1>4. Countable(g)
  BY <1>1, <1>3, FS_Subset DEF Countable
<1> QED  BY <1>2, <1>4, OneMore

\* No attempt has more retries than there are.
LEMMA AtMostAll ==
    ASSUME NEW f, Countable(f)
    PROVE  Count(f) \in Nat /\ \A c \in Attempt : f[c] \in Nat /\ f[c] <= Count(f)
<1>1. f \in [Attempt -> Nat] /\ IsFiniteSet(Each(f)) /\ Count(f) \in Nat
  BY FS_CardinalityType DEF Countable, Count
<1>2. ASSUME NEW c \in Attempt PROVE f[c] <= Count(f)
  <2> DEFINE S == {t \in Each(f) : t[1] = c}
             b == [k \in 1..f[c] |-> <<c, k>>]
  <2>1. S \subseteq Each(f) /\ IsFiniteSet(S) /\ Cardinality(S) <= Count(f) /\ f[c] \in Nat
    BY <1>1, FS_Subset DEF Count
  <2>2. \A t \in S : t[2] \in 1..f[c] /\ t = <<c, t[2]>>
    BY <1>1 DEF Each
  <2>3. \A k \in 1..f[c] : <<c, k>> \in S
    BY <1>1 DEF Each
  <2> HIDE DEF S
  <2>4. b \in Bijection(1..f[c], S)
    BY <2>2, <2>3 DEF Bijection, Injection, Surjection, IsInjective
  <2>5. Cardinality(S) = f[c]
    BY <2>1, <2>4, FS_CountingElements, Zenon DEF ExistsBijection
  <2> QED  BY <2>1, <2>5
<1> QED  BY <1>1, <1>2

\* Retries that are scheduled or on their way.
Retries == Count(timers) + Count(calls)

Loading  == IF fetch.at # "none" THEN 1 ELSE 0
Again    == IF fetch.again THEN 1 ELSE 0
Trailing == IF throttle.trailing THEN 1 ELSE 0
Refused  == IF fetch.at = "answered" /\ fetch.doc = 0 THEN 1 ELSE 0

\* Events on their way, and to come of what was published or dropped.
Due == owed + events + Trailing

\* What may still be refused: loads under way and events to come, while the store is not
\* open, and then at most an answer that is on its way.
Refusals ==
    IF rev = 0
      THEN Loading + Again + Due + (MaxDropped - dropped)
      ELSE Refused

Flags ==
    /\ ready \in BOOLEAN /\ silent \in BOOLEAN
    /\ throttle \in [recent : BOOLEAN, trailing : BOOLEAN]
    /\ fetch \in [at : {"none", "asked", "answered"}, doc : 0..MaxRev, again : BOOLEAN]
    /\ screen \in [waiting : BOOLEAN, fallback : BOOLEAN, gaveUp : BOOLEAN]
    /\ attempts \in 0..MAX_ATTEMPTS

Numbers ==
    /\ rev \in 0..MaxRev /\ shown \in 0..MaxRev /\ dropped \in 0..MaxDropped
    /\ owed \in Nat /\ events \in Nat

\* Every event is owed to a document or a dropped write.
FewEvents == Due <= rev + dropped

\* Every retry chain began with a refused load, and every refused load beyond the first with
\* an event about a write that the stand-in accepted.
FewRetries ==
    /\ Countable(timers) /\ Countable(calls)
    /\ Retries + Refusals <= MaxDropped + 1

ChainInv == Flags /\ Numbers /\ FewEvents /\ FewRetries

\* At first a single load is under way.
LEMMA ChainsStart == UiInit => ChainInv
<1> SUFFICES ASSUME UiInit PROVE ChainInv
  OBVIOUS
<1>1. /\ fetch = [at |-> "asked", doc |-> 0, again |-> FALSE]
      /\ throttle = [recent |-> FALSE, trailing |-> FALSE]
      /\ screen = [waiting |-> FALSE, fallback |-> FALSE, gaveUp |-> FALSE]
      /\ ready \in BOOLEAN /\ silent = FALSE /\ rev \in {0, 1} /\ shown = 0 /\ dropped = 0
      /\ owed = 0 /\ events = 0 /\ attempts = 0
      /\ timers = [c \in Attempt |-> 0] /\ calls = [c \in Attempt |-> 0]
  BY DEF UiInit, NoFetch, Loaded
<1>2. Flags
  <2>1. MaxRev \in Nat /\ MAX_ATTEMPTS \in Nat /\ 0 \in 0..MaxRev /\ 0 \in 0..MAX_ATTEMPTS
    BY WindowAssumption
  <2> QED  BY <1>1, <2>1 DEF Flags
<1>3. Numbers
  BY <1>1, WindowAssumption DEF Numbers
<1>4. Trailing = 0 /\ Again = 0 /\ Loading = 1 /\ Refused = 0
  BY <1>1 DEF Trailing, Again, Loading, Refused
<1>10. Due = 0
  BY <1>1, <1>4 DEF Due
<1>5. Countable(timers) /\ Countable(calls) /\ Count(timers) = 0 /\ Count(calls) = 0
  BY <1>1, NoneToCount
<1>6. Refusals <= MaxDropped + 1
  BY <1>1, <1>4, <1>10, WindowAssumption DEF Refusals
<1>7. Refusals \in Nat
  BY <1>1, <1>4, <1>10, WindowAssumption DEF Refusals
<1>8. FewEvents
  BY <1>1, <1>10 DEF FewEvents
<1>9. FewRetries
  BY <1>5, <1>6, <1>7, WindowAssumption DEF FewRetries, Retries
<1> QED  BY <1>2, <1>3, <1>8, <1>9 DEF ChainInv

\* The numbers of the invariant.
LEMMA ChainNumbers ==
    ASSUME ChainInv
    PROVE  /\ rev \in Nat /\ shown \in Nat /\ dropped \in Nat /\ owed \in Nat /\ events \in Nat
           /\ MaxRev \in Nat /\ MaxDropped \in Nat /\ rev <= MaxRev /\ dropped <= MaxDropped
           /\ MaxRev >= 1 /\ fetch.doc \in Nat
           /\ Loading \in {0, 1} /\ Again \in {0, 1} /\ Trailing \in {0, 1} /\ Refused \in {0, 1}
           /\ Due \in Nat /\ Due = owed + events + Trailing /\ Refusals \in Nat /\ Count(timers) \in Nat /\ Count(calls) \in Nat
           /\ Retries + Refusals <= MaxDropped + 1
           /\ Retries = Count(timers) + Count(calls) /\ Countable(timers) /\ Countable(calls)
<1>1. /\ rev \in Nat /\ shown \in Nat /\ dropped \in Nat /\ owed \in Nat /\ events \in Nat
      /\ MaxRev \in Nat /\ MaxDropped \in Nat /\ rev <= MaxRev /\ dropped <= MaxDropped
      /\ MaxRev >= 1
  BY WindowAssumption DEF ChainInv, Numbers
<1>2. fetch.doc \in Nat
  BY <1>1 DEF ChainInv, Flags
<1>3. Loading \in {0, 1} /\ Again \in {0, 1} /\ Trailing \in {0, 1} /\ Refused \in {0, 1}
  BY DEF Loading, Again, Trailing, Refused
<1>4. Due \in Nat /\ Due = owed + events + Trailing
  BY <1>1, <1>3 DEF Due
<1>5. Refusals \in Nat
  BY <1>1, <1>3, <1>4 DEF Refusals
<1> QED  BY <1>1, <1>2, <1>3, <1>4, <1>5, AtMostAll DEF ChainInv, FewRetries, Retries

\* A step that leaves the retries alone and adds nothing that may be refused.
LEMMA NoNewRetry ==
    ASSUME ChainInv, UNCHANGED <<timers, calls>>, Refusals' \in Int, Refusals' <= Refusals
    PROVE  FewRetries'
<1>1. /\ Refusals \in Nat /\ Count(timers) \in Nat /\ Count(calls) \in Nat /\ MaxDropped \in Nat
      /\ Retries + Refusals <= MaxDropped + 1 /\ Retries = Count(timers) + Count(calls)
      /\ Countable(timers) /\ Countable(calls)
  BY ChainNumbers
<1>2. Countable(timers)' /\ Countable(calls)' /\ Retries' = Retries
  BY <1>1 DEF Retries
<1> QED  BY <1>1, <1>2 DEF FewRetries

\* A load that is asked for is one more to be refused, if at all.
LEMMA AskingAddsOne ==
    ASSUME ChainInv, fetch' = Refreshed
    PROVE  /\ fetch' \in [at : {"none", "asked", "answered"}, doc : 0..MaxRev, again : BOOLEAN]
           /\ \E l, a \in {0, 1} : Loading' = l /\ Again' = a /\ l + a <= Loading + Again + 1
           /\ Refused' \in {0, 1} /\ Refused' <= Loading /\ Refused' <= Refused
<1>1. fetch \in [at : {"none", "asked", "answered"}, doc : 0..MaxRev, again : BOOLEAN]
      /\ MaxRev \in Nat /\ 0 \in 0..MaxRev
  BY WindowAssumption DEF ChainInv, Flags
<1>2. CASE fetch.at = "none"
  <2>1. fetch' = [at |-> "asked", doc |-> 0, again |-> FALSE]
    BY <1>2 DEF Refreshed, NoFetch
  <2> QED  BY <1>1, <1>2, <2>1 DEF Loading, Again, Refused
<1>3. CASE fetch.at # "none"
  <2>1. fetch' = [fetch EXCEPT !.again = TRUE]
    BY <1>3 DEF Refreshed
  <2>2. fetch'.at = fetch.at /\ fetch'.doc = fetch.doc /\ fetch'.again = TRUE
    BY <1>1, <2>1
  <2>3. fetch' \in [at : {"none", "asked", "answered"}, doc : 0..MaxRev, again : BOOLEAN]
    BY <1>1, <2>1
  <2> QED  BY <1>1, <1>3, <2>2, <2>3 DEF Loading, Again, Refused
<1> QED  BY <1>2, <1>3

\* A retry that is answered is over, and may schedule one more.
LEMMA RetriedCounts ==
    ASSUME ChainInv, NEW c \in Attempt, NEW ok \in BOOLEAN, Retried(c, ok)
    PROVE  /\ Countable(timers)' /\ Countable(calls)' /\ Retries' \in Nat
           /\ Retries' <= Retries /\ (ok => Retries' = Retries - 1)
           /\ screen' \in [waiting : BOOLEAN, fallback : BOOLEAN, gaveUp : BOOLEAN]
<1>1. /\ Countable(timers) /\ Countable(calls) /\ Count(timers) \in Nat /\ Count(calls) \in Nat
      /\ Retries = Count(timers) + Count(calls)
  BY ChainNumbers
<1>2. calls[c] > 0 /\ calls' = [calls EXCEPT ![c] = calls[c] - 1]
  BY DEF Retried
<1>3. Countable(calls') /\ Count(calls') \in Nat /\ Count(calls) = Count(calls') + 1
  BY <1>1, <1>2, OneLess
<1>4. Countable(timers') /\ Count(timers') \in Nat /\ Count(timers') <= Count(timers) + 1
      /\ (ok => timers' = timers)
  <2>1. CASE timers' = timers
    BY <1>1, <2>1
  <2>2. CASE timers' # timers
    <3>1. ~ok /\ attempts \in Attempt /\ timers' = [timers EXCEPT ![attempts] = timers[attempts] + 1]
      BY <2>2 DEF Retried, ScheduleRetry
    <3>2. Countable(timers') /\ Count(timers') = Count(timers) + 1
      BY <1>1, <3>1, OneMore
    <3> QED  BY <1>1, <3>1, <3>2
  <2> QED  BY <2>1, <2>2
<1>5. screen \in [waiting : BOOLEAN, fallback : BOOLEAN, gaveUp : BOOLEAN]
  BY DEF ChainInv, Flags
<1>6. screen' \in [waiting : BOOLEAN, fallback : BOOLEAN, gaveUp : BOOLEAN]
  <2>1. CASE ok
    BY <1>5, <2>1 DEF Retried
  <2>2. CASE ~ok
    <3>1. PICK a \in BOOLEAN, b \in BOOLEAN : screen' = [screen EXCEPT !.fallback = a, !.gaveUp = b]
      <4>1. screen' = [screen EXCEPT !.fallback = (screen.fallback \/ c + 1 >= SHOW_FALLBACK_FROM),
                                     !.gaveUp   = (screen.gaveUp \/ c + 1 >= MAX_ATTEMPTS)]
        BY <2>2 DEF Retried
      <4>2. (screen.fallback \/ c + 1 >= SHOW_FALLBACK_FROM) \in BOOLEAN
            /\ (screen.gaveUp \/ c + 1 >= MAX_ATTEMPTS) \in BOOLEAN
        BY Zenon
      <4> QED  BY <4>1, <4>2, Zenon
    <3> QED  BY <1>5, <3>1
  <2> QED  BY <2>1, <2>2
<1>7. Retries' = Count(timers') + Count(calls')
  BY DEF Retries
<1> QED  BY <1>1, <1>3, <1>4, <1>6, <1>7

\* Every step keeps the count of retry chains.
LEMMA ChainStep == ChainInv /\ [UiNext]_uiVars => ChainInv'
<1> SUFFICES ASSUME ChainInv, [UiNext]_uiVars PROVE ChainInv'
  OBVIOUS
<1>1. /\ rev \in Nat /\ shown \in Nat /\ dropped \in Nat /\ owed \in Nat /\ events \in Nat
      /\ MaxRev \in Nat /\ MaxDropped \in Nat /\ rev <= MaxRev /\ dropped <= MaxDropped
      /\ MaxRev >= 1 /\ fetch.doc \in Nat
      /\ Loading \in {0, 1} /\ Again \in {0, 1} /\ Trailing \in {0, 1} /\ Refused \in {0, 1}
      /\ Due \in Nat /\ Due = owed + events + Trailing /\ Refusals \in Nat /\ Count(timers) \in Nat /\ Count(calls) \in Nat
      /\ Retries + Refusals <= MaxDropped + 1
      /\ Retries = Count(timers) + Count(calls) /\ Countable(timers) /\ Countable(calls)
  BY ChainNumbers
<1>14. /\ dropped \in Nat /\ MaxDropped \in Nat /\ dropped <= MaxDropped
       /\ Due \in Nat /\ Loading \in Nat /\ Again \in Nat
  BY <1>1
<1>2. /\ Flags /\ Numbers /\ FewEvents /\ FewRetries
      /\ Due <= rev + dropped
  BY DEF ChainInv, FewEvents
<1>3. CASE Commit
  <2>1. /\ rev > 0 /\ rev < MaxRev /\ rev' = rev + 1 /\ owed' = owed + 1
        /\ UNCHANGED <<ready, dropped, throttle, events, fetch, shown, screen, attempts, timers,
                       calls, silent>>
    BY <1>1, <1>3 DEF Commit, retries, Pending
  <2>2. Due' = Due + 1 /\ Refused' = Refused
    BY <1>1, <2>1 DEF Due, Trailing, Refused
  <2>3. Refusals' = Refusals
    BY <1>1, <2>1, <2>2 DEF Refusals
  <2>4. FewRetries'
    BY <1>1, <2>1, <2>3, NoNewRetry
  <2>5. FewEvents' /\ Numbers'
    BY <1>1, <1>2, <2>1, <2>2 DEF FewEvents, Numbers
  <2>6. Flags'
    BY <1>2, <2>1 DEF Flags
  <2> QED  BY <2>4, <2>5, <2>6 DEF ChainInv
<1>4. CASE CommitPending
  <2>1. /\ rev = 0 /\ dropped < MaxDropped /\ dropped' = dropped + 1 /\ owed' = owed + 1
        /\ UNCHANGED <<ready, rev, throttle, events, fetch, shown, screen, attempts, timers,
                       calls, silent>>
    BY <1>4 DEF CommitPending, retries, Pending
  <2>2. Due' = Due + 1 /\ Loading' = Loading /\ Again' = Again
    BY <1>1, <2>1 DEF Due, Trailing, Loading, Again
  <2>3. Refusals' = Refusals
    BY <1>1, <2>1, <2>2 DEF Refusals
  <2>4. FewRetries'
    BY <1>1, <2>1, <2>3, NoNewRetry
  <2>5. FewEvents' /\ Numbers'
    BY <1>1, <1>2, <2>1, <2>2 DEF FewEvents, Numbers
  <2>6. Flags'
    BY <1>2, <2>1 DEF Flags
  <2> QED  BY <2>4, <2>5, <2>6 DEF ChainInv
<1>5. CASE Notify \/ WindowEnds
  <2>1. /\ UNCHANGED <<ready, rev, dropped, fetch, shown, screen, attempts, timers, calls, silent>>
        /\ throttle' \in [recent : BOOLEAN, trailing : BOOLEAN]
        /\ owed' \in Nat /\ events' \in Nat
        /\ Due' \in Nat /\ Due' <= Due
    <3>1. throttle \in [recent : BOOLEAN, trailing : BOOLEAN]
      BY <1>2 DEF Flags
    <3>4. Due' = owed' + events' + Trailing'
      BY DEF Due
    <3>2. CASE Notify
      <4>1. owed > 0 /\ owed' = owed - 1
            /\ UNCHANGED <<ready, rev, dropped, fetch, shown, screen, attempts, timers, calls, silent>>
        BY <3>2 DEF Notify, retries
      <4>2. CASE throttle.recent
        <5>1. throttle' = [throttle EXCEPT !.trailing = TRUE] /\ events' = events
          BY <3>2, <4>2 DEF Notify
        <5>2. throttle' \in [recent : BOOLEAN, trailing : BOOLEAN]
          BY <3>1, <5>1
        <5>3. Trailing' \in {0, 1}
          BY DEF Trailing
        <5> QED  BY <1>1, <3>4, <4>1, <5>1, <5>2, <5>3
      <4>3. CASE ~throttle.recent
        <5>1. throttle' = [throttle EXCEPT !.recent = TRUE] /\ events' = events + 1
          BY <3>2, <4>3 DEF Notify
        <5>2. Trailing' = Trailing
          BY <3>1, <5>1 DEF Trailing
        <5>3. throttle' \in [recent : BOOLEAN, trailing : BOOLEAN]
          BY <3>1, <5>1
        <5> QED  BY <1>1, <3>4, <4>1, <5>1, <5>2, <5>3
      <4> QED  BY <4>2, <4>3
    <3>3. CASE WindowEnds
      <4>1. /\ owed' = owed /\ throttle' = [recent |-> throttle.trailing, trailing |-> FALSE]
            /\ UNCHANGED <<ready, rev, dropped, fetch, shown, screen, attempts, timers, calls, silent>>
            /\ events' = IF throttle.trailing THEN events + 1 ELSE events
        BY <3>3 DEF WindowEnds, retries
      <4>2. events' = events + Trailing /\ Trailing' = 0
        BY <1>1, <4>1 DEF Trailing
      <4> QED  BY <1>1, <3>1, <3>4, <4>1, <4>2
    <3> QED  BY <1>5, <3>2, <3>3
  <2>2. Loading' = Loading /\ Again' = Again /\ Refused' = Refused
    BY <2>1 DEF Loading, Again, Refused
  <2>3. Refusals' \in Nat /\ Refusals' <= Refusals
    <3>1. CASE rev = 0
      <4>1. Refusals = Loading + Again + Due + (MaxDropped - dropped)
        BY <3>1 DEF Refusals
      <4>2. Refusals' = Loading' + Again' + Due' + (MaxDropped - dropped)
        BY <2>1, <3>1 DEF Refusals
      <4>3. PICK due \in Nat : Due' = due /\ due <= Due
        BY <2>1
      <4>4. Refusals' = Loading + Again + due + (MaxDropped - dropped)
        BY <2>2, <4>2, <4>3
      <4> QED  BY <1>14, <4>1, <4>3, <4>4
    <3>2. CASE rev # 0
      BY <1>1, <2>1, <2>2, <3>2 DEF Refusals
    <3> QED  BY <3>1, <3>2
  <2>4. FewRetries'
    BY <1>1, <2>1, <2>3, NoNewRetry
  <2>5. FewEvents'
    BY <1>1, <1>2, <2>1 DEF FewEvents
  <2>7. Numbers'
    BY <1>2, <2>1 DEF Numbers
  <2>6. Flags'
    BY <1>2, <2>1 DEF Flags
  <2> QED  BY <2>4, <2>5, <2>6, <2>7 DEF ChainInv
<1>6. CASE Deliver
  <2>1. /\ events > 0 /\ events' = events - 1 /\ fetch' = Refreshed
        /\ UNCHANGED <<ready, rev, dropped, owed, throttle, shown, screen, attempts, timers, calls,
                       silent>>
    BY <1>6 DEF Deliver, store, retries
  <2>2. /\ fetch' \in [at : {"none", "asked", "answered"}, doc : 0..MaxRev, again : BOOLEAN]
        /\ \E l, a \in {0, 1} : Loading' = l /\ Again' = a /\ l + a <= Loading + Again + 1
        /\ Refused' \in {0, 1} /\ Refused' <= Refused
    BY <2>1, AskingAddsOne
  <2>3. Due' = Due - 1
    BY <1>1, <2>1 DEF Due, Trailing
  <2>4. Refusals' \in Nat /\ Refusals' <= Refusals
    <3>1. CASE rev = 0
      <4>1. Refusals = Loading + Again + Due + (MaxDropped - dropped)
        BY <3>1 DEF Refusals
      <4>2. Refusals' = Loading' + Again' + Due' + (MaxDropped - dropped)
        BY <2>1, <3>1 DEF Refusals
      <4>3. PICK l \in {0, 1}, a \in {0, 1} :
              Loading' = l /\ Again' = a /\ l + a <= Loading + Again + 1
        BY <2>2
      <4>4. PICK due \in Nat : Due' = due /\ due = Due - 1
        BY <1>1, <2>1, <2>3
      <4>5. Refusals' = l + a + due + (MaxDropped - dropped)
        BY <4>2, <4>3, <4>4
      <4> QED  BY <1>14, <4>1, <4>3, <4>4, <4>5
    <3>2. CASE rev # 0
      BY <1>1, <2>1, <2>2, <3>2 DEF Refusals
    <3> QED  BY <3>1, <3>2
  <2>5. FewRetries'
    BY <1>1, <2>1, <2>4, NoNewRetry
  <2>6. FewEvents' /\ Numbers'
    BY <1>1, <1>2, <2>1, <2>3 DEF FewEvents, Numbers
  <2>7. Flags'
    BY <1>2, <2>1, <2>2 DEF Flags
  <2> QED  BY <2>5, <2>6, <2>7 DEF ChainInv
<1>7. CASE Answer
  <2>1. /\ fetch.at = "asked" /\ fetch' = [fetch EXCEPT !.at = "answered", !.doc = rev]
        /\ UNCHANGED <<ready, rev, dropped, owed, throttle, events, shown, screen, attempts, timers,
                       calls>>
        /\ silent' = (silent /\ Pending)
    BY <1>7 DEF Answer, store, retries
  <2>2. /\ fetch \in [at : {"none", "asked", "answered"}, doc : 0..MaxRev, again : BOOLEAN]
        /\ rev \in 0..MaxRev
    BY <1>2 DEF Flags, Numbers
  <2>3. fetch'.at = "answered" /\ fetch'.doc = rev /\ fetch'.again = fetch.again
        /\ fetch' \in [at : {"none", "asked", "answered"}, doc : 0..MaxRev, again : BOOLEAN]
    BY <2>1, <2>2
  <2>4. Loading' = Loading /\ Again' = Again /\ Due' = Due /\ (rev # 0 => Refused' = 0)
    BY <2>1, <2>3 DEF Loading, Again, Due, Trailing, Refused
  <2>5. Refusals' \in Nat /\ Refusals' <= Refusals
    <3>1. CASE rev = 0
      BY <1>1, <2>1, <2>4, <3>1 DEF Refusals
    <3>2. CASE rev # 0
      BY <1>1, <2>1, <2>4, <3>2 DEF Refusals
    <3> QED  BY <3>1, <3>2
  <2>6. FewRetries'
    BY <1>1, <2>1, <2>5, NoNewRetry
  <2>7. FewEvents' /\ Numbers'
    BY <1>1, <1>2, <2>1, <2>4 DEF FewEvents, Numbers
  <2>8. silent' \in BOOLEAN
    BY <2>1, Zenon
  <2>9. Flags'
    BY <1>2, <2>1, <2>3, <2>8 DEF Flags
  <2> QED  BY <2>6, <2>7, <2>9 DEF ChainInv
<1>8. CASE Land
  <2>1. /\ fetch.at = "answered"
        /\ fetch' = IF fetch.again THEN [NoFetch EXCEPT !.at = "asked"] ELSE NoFetch
        /\ UNCHANGED <<ready, rev, dropped, owed, throttle, events, silent>>
    BY <1>8 DEF Land, store
  <2>2. /\ fetch' \in [at : {"none", "asked", "answered"}, doc : 0..MaxRev, again : BOOLEAN]
        /\ fetch'.at # "answered" /\ Loading' = Again /\ Again' = 0 /\ Loading = 1 /\ Refused' = 0
        /\ Due' = Due
    <3>1. 0 \in 0..MaxRev
      BY <1>1
    <3> QED  BY <2>1, <3>1 DEF NoFetch, Loading, Again, Due, Trailing, Refused
  <2>3. FewEvents'
    BY <1>1, <1>2, <2>1, <2>2 DEF FewEvents
  <2>4. screen \in [waiting : BOOLEAN, fallback : BOOLEAN, gaveUp : BOOLEAN]
        /\ fetch.doc \in 0..MaxRev /\ 0 \in 0..MAX_ATTEMPTS /\ 1 \in 0..MAX_ATTEMPTS
        /\ 1 \in Attempt
    BY <1>2, WindowAssumption DEF Flags, Attempt
  <2>5. CASE fetch.doc > 0
    <3>1. shown' = fetch.doc /\ screen' = Loaded /\ attempts' = 0 /\ UNCHANGED <<timers, calls>>
      BY <1>8, <2>5 DEF Land
    <3>2. Refusals' \in Nat /\ Refusals' <= Refusals
      <4>1. CASE rev = 0
        BY <1>1, <2>1, <2>2, <4>1 DEF Refusals
      <4>2. CASE rev # 0
        BY <1>1, <2>1, <2>2, <4>2 DEF Refusals
      <4> QED  BY <4>1, <4>2
    <3>3. FewRetries'
      BY <1>1, <3>1, <3>2, NoNewRetry
    <3>4. Numbers'
      BY <1>2, <2>1, <2>4, <3>1 DEF Numbers
    <3>5. Flags'
      BY <1>2, <2>1, <2>2, <2>4, <3>1 DEF Flags, Loaded
    <3> QED  BY <2>3, <3>3, <3>4, <3>5 DEF ChainInv
  <2>6. CASE ~(fetch.doc > 0)
    <3>1. /\ attempts' = 1 /\ screen' = [screen EXCEPT !.waiting = TRUE]
          /\ timers' = [timers EXCEPT ![1] = timers[1] + 1] /\ UNCHANGED <<shown, calls>>
      BY <1>8, <2>6 DEF Land
    <3>2. Countable(timers') /\ Count(timers') = Count(timers) + 1
      BY <1>1, <2>4, <3>1, OneMore
    <3>3. Refusals' \in Nat /\ Refusals' <= Refusals - 1
      <4>0. Refused = 1
        BY <1>1, <2>1, <2>6 DEF Refused
      <4>1. CASE rev = 0
        BY <1>1, <2>1, <2>2, <4>1 DEF Refusals
      <4>2. CASE rev # 0
        BY <1>1, <2>1, <2>2, <4>0, <4>2 DEF Refusals
      <4> QED  BY <4>1, <4>2
    <3>4. Retries' = Count(timers') + Count(calls') /\ calls' = calls
      BY <3>1 DEF Retries
    <3>5. FewRetries'
      BY <1>1, <3>2, <3>3, <3>4 DEF FewRetries
    <3>6. Numbers'
      BY <1>2, <2>1, <3>1 DEF Numbers
    <3>7. Flags'
      BY <1>2, <2>1, <2>2, <2>4, <3>1 DEF Flags
    <3> QED  BY <2>3, <3>5, <3>6, <3>7 DEF ChainInv
  <2> QED  BY <2>5, <2>6
<1>9. CASE FolderAppears
  <2>1. /\ ready' = TRUE
        /\ UNCHANGED <<rev, dropped, owed, throttle, events, fetch, shown, screen, attempts, timers,
                       calls, silent>>
    BY <1>9 DEF FolderAppears, retries
  <2>2. UNCHANGED <<Loading, Again, Due, Refused>>
    BY <2>1 DEF Loading, Again, Due, Trailing, Refused
  <2>3. Refusals' = Refusals
    BY <2>1, <2>2 DEF Refusals
  <2>4. FewRetries'
    BY <1>1, <2>1, <2>3, NoNewRetry
  <2> QED  BY <1>2, <2>1, <2>2, <2>4 DEF ChainInv, Flags, Numbers, FewEvents
<1>10. CASE OpenDefault
  <2>1. /\ rev = 0 /\ rev' = 1 /\ silent' \in BOOLEAN /\ events' \in {events, events + 1}
        /\ UNCHANGED <<ready, dropped, owed, throttle, fetch, shown, screen, attempts, timers, calls>>
    BY <1>2, <1>10 DEF OpenDefault, retries, Pending, Flags
  <2>9. events' = events => Due' = Due
    BY <1>1, <2>1 DEF Due, Trailing
  <2>10. events' = events + 1 => Due' = Due + 1
    BY <1>1, <2>1 DEF Due, Trailing
  <2>2. UNCHANGED <<Loading, Again, Refused>> /\ Due' \in {Due, Due + 1}
    BY <2>1, <2>9, <2>10 DEF Loading, Again, Refused
  <2>3. Refused <= Loading
    BY DEF Refused, Loading
  <2>4. Refusals' \in Nat /\ Refusals' <= Refusals
    BY <1>1, <2>1, <2>2, <2>3 DEF Refusals
  <2>5. FewRetries'
    BY <1>1, <2>1, <2>4, NoNewRetry
  <2>6. FewEvents'
    BY <1>1, <1>2, <2>1, <2>2 DEF FewEvents
  <2>8. Numbers'
    BY <1>1, <1>2, <2>1 DEF Numbers
  <2>7. Flags'
    BY <1>2, <2>1 DEF Flags
  <2> QED  BY <2>5, <2>6, <2>7, <2>8 DEF ChainInv
<1>11. ASSUME NEW c \in Attempt, TimerFires(c) PROVE ChainInv'
  <2>1. /\ timers[c] > 0 /\ timers' = [timers EXCEPT ![c] = timers[c] - 1] /\ attempts' = c + 1
        /\ calls' = [calls EXCEPT ![c] = calls[c] + 1]
        /\ UNCHANGED <<ready, rev, dropped, owed, throttle, events, fetch, shown, screen, silent>>
    BY <1>11 DEF TimerFires, store
  <2>2. Countable(timers') /\ Count(timers) = Count(timers') + 1 /\ Count(timers') \in Nat
    BY <1>1, <2>1, OneLess
  <2>3. Countable(calls') /\ Count(calls') = Count(calls) + 1
    BY <1>1, <2>1, OneMore
  <2>4. UNCHANGED <<Loading, Again, Due, Refused>>
    BY <2>1 DEF Loading, Again, Due, Trailing, Refused
  <2>5. Refusals' = Refusals
    BY <2>1, <2>4 DEF Refusals
  <2>6. Retries' = Count(timers') + Count(calls')
    BY DEF Retries
  <2>7. FewRetries'
    BY <1>1, <2>2, <2>3, <2>5, <2>6 DEF FewRetries
  <2>8. attempts' \in 0..MAX_ATTEMPTS
    BY <2>1, WindowAssumption DEF Attempt
  <2> QED  BY <1>2, <2>1, <2>4, <2>7, <2>8 DEF ChainInv, Flags, Numbers, FewEvents
<1>12. ASSUME NEW c \in Attempt, TryOpen(c) PROVE ChainInv'
  <2>1. UNCHANGED <<ready, dropped, owed, throttle, shown, attempts, silent>>
    BY <1>12 DEF TryOpen
  <2>2. (events' = events => Due' = Due) /\ (events' = events + 1 => Due' = Due + 1)
    BY <1>1, <2>1 DEF Due, Trailing
  <2>3. CASE Retried(c, TRUE) /\ fetch' = Refreshed
             /\ \/ rev > 0 /\ UNCHANGED <<rev, events>>
                \/ rev = 0 /\ rev' = 1 /\ events' = events + 1
    <3>1. /\ Countable(timers)' /\ Countable(calls)' /\ Retries' \in Nat /\ Retries' = Retries - 1
          /\ screen' \in [waiting : BOOLEAN, fallback : BOOLEAN, gaveUp : BOOLEAN]
      BY <2>3, RetriedCounts
    <3>2. /\ fetch' \in [at : {"none", "asked", "answered"}, doc : 0..MaxRev, again : BOOLEAN]
          /\ Refused' \in {0, 1} /\ Refused' <= Loading /\ Refused' <= Refused
      BY <2>3, AskingAddsOne
    <3>3. rev' \in Nat /\ rev' # 0
      BY <1>1, <2>3
    <3>4. Refusals' = Refused'
      BY <3>3 DEF Refusals
    <3>5. Refusals' \in Nat /\ Refusals' <= Refusals
      <4>1. CASE rev = 0
        BY <1>1, <3>2, <3>4, <4>1 DEF Refusals
      <4>2. CASE rev # 0
        BY <1>1, <3>2, <3>4, <4>2 DEF Refusals
      <4> QED  BY <4>1, <4>2
    <3>6. FewRetries'
      BY <1>1, <3>1, <3>5 DEF FewRetries
    <3>7. Numbers' /\ FewEvents'
      BY <1>1, <1>2, <2>1, <2>2, <2>3 DEF Numbers, FewEvents
    <3>8. Flags'
      BY <1>2, <2>1, <3>1, <3>2 DEF Flags
    <3> QED  BY <3>6, <3>7, <3>8 DEF ChainInv
  <2>4. CASE Retried(c, FALSE) /\ UNCHANGED <<rev, events, fetch>>
    <3>1. /\ Countable(timers)' /\ Countable(calls)' /\ Retries' \in Nat /\ Retries' <= Retries
          /\ screen' \in [waiting : BOOLEAN, fallback : BOOLEAN, gaveUp : BOOLEAN]
      BY <2>4, RetriedCounts
    <3>2. UNCHANGED <<Loading, Again, Refused>>
      BY <2>4 DEF Loading, Again, Refused
    <3>3. Refusals' = Refusals
      <4>2. rev' = rev /\ events' = events
        BY <2>4
      <4>3. owed' = owed /\ throttle' = throttle /\ dropped' = dropped
        BY <2>1
      <4>4. Due' = Due
        BY <4>2, <4>3 DEF Due, Trailing
      <4> QED  BY <3>2, <4>2, <4>3, <4>4 DEF Refusals
    <3>4. FewRetries'
      <4>1. PICK r \in Nat : Retries' = r /\ r <= Retries
        BY <3>1
      <4>2. r + Refusals <= MaxDropped + 1
        BY <1>1, <4>1
      <4> QED  BY <3>1, <3>3, <4>1, <4>2 DEF FewRetries
    <3>5. Flags'
      BY <1>2, <2>1, <2>4, <3>1 DEF Flags
    <3>6. Numbers' /\ FewEvents'
      BY <1>2, <2>1, <2>2, <2>4 DEF Numbers, FewEvents
    <3> QED  BY <3>4, <3>5, <3>6 DEF ChainInv
  <2>5. CASE ~Pending /\ Retried(c, TRUE) /\ fetch' = Refreshed /\ UNCHANGED <<rev, events>>
    <3>1. rev > 0
      BY <1>1, <2>5 DEF Pending
    <3> QED  BY <2>3, <2>5, <3>1
  <2>6. CASE Pending /\ Retried(c, TRUE) /\ rev' = 1 /\ events' = events + 1 /\ fetch' = Refreshed
    BY <2>3, <2>6 DEF Pending
  <2>7. CASE Retried(c, FALSE) /\ UNCHANGED <<rev, events, fetch>>
    BY <2>4, <2>7
  <2> QED  BY <1>12, <2>5, <2>6, <2>7 DEF TryOpen
<1>13. CASE UNCHANGED uiVars
  <2>1. UNCHANGED <<ready, rev, dropped, owed, throttle, events, fetch, shown, screen, attempts,
                    timers, calls, silent>>
    BY <1>13 DEF uiVars
  <2>2. UNCHANGED <<Loading, Again, Due, Refused>>
    BY <2>1 DEF Loading, Again, Due, Trailing, Refused
  <2>3. Refusals' = Refusals
    BY <2>1, <2>2 DEF Refusals
  <2>4. FewRetries'
    BY <1>1, <2>1, <2>3, NoNewRetry
  <2> QED  BY <1>2, <2>1, <2>2, <2>4 DEF ChainInv, Flags, Numbers, FewEvents
<1> QED  BY <1>3, <1>4, <1>5, <1>6, <1>7, <1>8, <1>9, <1>10, <1>11, <1>12, <1>13 DEF UiNext

\* The window's state is of its type; above all, retry chains never pile up: whatever the
\* number of attempts, there are no more of them than loads that were refused, and no more of
\* those than writes that the stand-in accepted and the first load (src/state/store.ts, load
\* and scheduleRetry; store_notify.rs).
THEOREM ChainsAreFew == UiSpec => []WindowTypeOK
<1>1. ChainInv => WindowTypeOK
  <2> SUFFICES ASSUME ChainInv PROVE WindowTypeOK
    OBVIOUS
  <2>1. /\ rev \in Nat /\ dropped \in Nat /\ owed \in Nat /\ events \in Nat
        /\ MaxRev \in Nat /\ MaxDropped \in Nat /\ rev <= MaxRev /\ dropped <= MaxDropped
        /\ Trailing \in {0, 1} /\ Refusals \in Nat /\ Due = owed + events + Trailing
        /\ Count(timers) \in Nat /\ Count(calls) \in Nat
        /\ Count(timers) + Count(calls) + Refusals <= MaxDropped + 1
        /\ Countable(timers) /\ Countable(calls)
    BY ChainNumbers
  <2>2. Due <= rev + dropped
    BY DEF ChainInv, FewEvents
  <2>3. owed \in 0..(MaxRev + MaxDropped) /\ events \in 0..(MaxRev + MaxDropped + 1)
    BY <2>1, <2>2
  <2>4. \A c \in Attempt : timers[c] \in Chains /\ calls[c] \in Chains
    <3>1. \A c \in Attempt : /\ timers[c] \in Nat /\ timers[c] <= Count(timers)
                             /\ calls[c] \in Nat /\ calls[c] <= Count(calls)
      BY <2>1, AtMostAll
    <3> QED  BY <2>1, <3>1 DEF Chains
  <2>5. timers \in [Attempt -> Chains] /\ calls \in [Attempt -> Chains]
    BY <2>1, <2>4 DEF Countable
  <2> QED  BY <2>3, <2>5 DEF ChainInv, Flags, Numbers, WindowTypeOK
<1> QED  BY <1>1, ChainsStart, ChainStep, PTL DEF UiSpec
=============================================================================
