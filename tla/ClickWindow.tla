----------------------------- MODULE ClickWindow ----------------------------
(***************************************************************************)
(* What a controller's click history promises: the most recent clicks of   *)
(* one foot, oldest first, at most History of them.                        *)
(***************************************************************************)
EXTENDS Naturals, Sequences

CONSTANTS Time, History

VARIABLE window

Init == window = <<>>

\* A click enters at the end; when there is no room the oldest leaves.
Push(t) ==
  window' = IF Len(window) < History THEN Append(window, t)
            ELSE Append(Tail(window), t)

Next == \E t \in Time : Push(t)

Spec == Init /\ [][Next]_window
=============================================================================
