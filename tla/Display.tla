-------------------------------- MODULE Display --------------------------------
(***************************************************************************)
(* What the window promises: it shows a document that was published, never *)
(* goes back to an older one, and catches up with the last.                *)
(***************************************************************************)
EXTENDS Integers

VARIABLES rev,      \* how many documents were published
          shown     \* the one on screen, 0 for none

Init == rev \in Nat /\ shown = 0

Publish == rev' > rev /\ UNCHANGED shown

Show == shown' \in (shown + 1)..rev

Next == Publish \/ (Show /\ UNCHANGED rev)

Spec == Init /\ [][Next]_<<rev, shown>> /\ WF_shown(Show)
=============================================================================
