---------------------------- MODULE SnapshotView ----------------------------
(***************************************************************************)
(* What the desktop stream promises to everything that renders from it:    *)
(* the view is either hidden or exactly the daemon's state at one          *)
(* generation; while it stays live it shows every generation, one after    *)
(* the other; hidden or live, it never returns to an earlier generation.   *)
(***************************************************************************)
EXTENDS Naturals, Sequences

CONSTANTS Topics,   \* what the daemon publishes about
          NoView    \* the content of a hidden view

VARIABLES history,  \* history[g]: the daemon's state at generation g
          live,     \* the view is rendered as current
          shown,    \* the generation the view has reached
          view      \* its content

vars == <<history, live, shown, view>>

States == [Topics -> Nat]

Init ==
    /\ history = <<[t \in Topics |-> 1]>>
    /\ live = FALSE
    /\ shown = 0
    /\ view = NoView

Publish ==
    /\ history' \in Seq(States)
    /\ Len(history') = Len(history) + 1
    /\ \A g \in 1 .. Len(history) : history'[g] = history[g]
    /\ UNCHANGED <<live, shown, view>>

\* A fresh snapshot makes the view live again, wherever the daemon is by then.
Reveal ==
    /\ ~live
    /\ live' = TRUE
    /\ shown' \in shown .. Len(history)
    /\ view' = history[shown']
    /\ UNCHANGED history

Advance ==
    /\ live /\ shown < Len(history)
    /\ shown' = shown + 1
    /\ view' = history[shown']
    /\ UNCHANGED <<history, live>>

\* A hidden view may learn of newer generations; it shows none of them.
Hide ==
    /\ live' = FALSE
    /\ shown' \in shown .. Len(history)
    /\ view' = NoView
    /\ UNCHANGED history

Next == Publish \/ Reveal \/ Advance \/ Hide

Spec == Init /\ [][Next]_vars
=============================================================================
