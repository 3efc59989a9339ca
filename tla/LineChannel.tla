----------------------------- MODULE LineChannel -----------------------------
(***************************************************************************)
(* What the PC may expect of the lines it sends to the controller: a line  *)
(* that has ended is either in the queue or lost, lines are handled whole, *)
(* in the order they were sent and at most once.                           *)
(*                                                                         *)
(* A line is named by its number.  SerialRx implements this.               *)
(***************************************************************************)
EXTENDS Naturals, Sequences

CONSTANT Capacity

VARIABLES ended,     \* how many lines the PC has ended
          waiting,   \* the lines that wait to be handled
          handled    \* the line that is being handled, or 0

vars == <<ended, waiting, handled>>

Init == /\ ended = 0
        /\ waiting = <<>>
        /\ handled = 0

End == /\ ended' = ended + 1
       /\ \/ Len(waiting) < Capacity /\ waiting' = Append(waiting, ended')
          \/ UNCHANGED waiting
       /\ UNCHANGED handled

Take == /\ waiting # <<>> /\ handled = 0
        /\ handled' = Head(waiting)
        /\ waiting' = Tail(waiting)
        /\ UNCHANGED ended

Finish == /\ handled # 0
          /\ handled' = 0
          /\ UNCHANGED <<ended, waiting>>

Next == End \/ Take \/ Finish

Spec == Init /\ [][Next]_vars
=============================================================================
