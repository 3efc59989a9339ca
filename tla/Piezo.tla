------------------------------- MODULE Piezo --------------------------------
(***************************************************************************)
(* From an impact to a click: the interrupt handler and the task of        *)
(* piezocontroller.c.  (PIEZO_AD0_GPIO is not defined, so the task reads   *)
(* no ADC.)                                                                *)
(*                                                                         *)
(* An impact lets the piezo give a first edge and, for a while, more of    *)
(* them.  Each edge notifies the task; the task takes all notifications    *)
(* at once (pdTRUE), calls back and sleeps.  Its priority is the highest   *)
(* of the application's: it does what it can before time passes.           *)
(***************************************************************************)
EXTENDS Integers

CONSTANTS Debounce,   \* the ticks of vTaskDelay, which may end up to one early
          Ring        \* how long an impact goes on giving edges

ASSUME DebounceAssumption == Debounce \in Nat /\ Debounce > 1
ASSUME RingAssumption == Ring \in 0 .. Debounce - 2

VARIABLES piezo,    \* created: s_task is set; armed: the interrupt is on;
                    \* notified: the task has a notification; at, left: the task
          impact    \* what the world does: ringing, and history: for how long an
                    \* impact has gone unheard, and how many clicks it has made

piezoVars == <<piezo, impact>>

Heard   == -1
AtMost(n, bound) == IF n > bound THEN bound ELSE n

Quiet   == [ringing |-> 0, unheard |-> Heard, clicks |-> 0]
NoPiezo == [created |-> FALSE, armed |-> FALSE, notified |-> FALSE, at |-> "take", left |-> 0]

PiezoInit == piezo = NoPiezo /\ impact = Quiet

-----------------------------------------------------------------------------
(* piezocontroller_init. *)

\* The task is created before the handler is added.
CreateTask ==
  /\ ~piezo.created
  /\ piezo' = [piezo EXCEPT !.created = TRUE]
  /\ UNCHANGED impact

AddHandler ==
  /\ piezo.created /\ ~piezo.armed
  /\ piezo' = [piezo EXCEPT !.armed = TRUE]
  /\ UNCHANGED impact

\* piezo_isr_handler: an edge means a notification, if there is a task.
Notify == piezo' = [piezo EXCEPT !.notified = @ \/ piezo.created]

\* An impact on a piezo that rings already is part of the ringing, and one that
\* meets no handler is none.
Hit ==
  /\ piezo.armed /\ impact.ringing = 0
  /\ Notify
  /\ impact' = [ringing |-> Ring, clicks |-> 0,
                unheard |-> IF impact.unheard = Heard THEN 0 ELSE impact.unheard]

Bounce ==
  /\ piezo.armed /\ impact.ringing > 0
  /\ Notify
  /\ UNCHANGED impact

-----------------------------------------------------------------------------
(* piezo_task. *)

Take ==
  /\ piezo.created /\ piezo.at = "take" /\ piezo.notified
  /\ piezo' = [piezo EXCEPT !.notified = FALSE, !.at = "click"]
  /\ impact' = [impact EXCEPT !.unheard = Heard, !.clicks = AtMost(@ + 1, 3)]

\* The callback has returned: vTaskDelay.
Sleep ==
  /\ piezo.at = "click"
  /\ \E d \in {Debounce - 1, Debounce} : piezo' = [piezo EXCEPT !.at = "sleep", !.left = d]
  /\ UNCHANGED impact

\* Mutant of Wake: notifications that came meanwhile are thrown away.
WakeForgets ==
  /\ piezo.at = "sleep" /\ piezo.left = 0
  /\ piezo' = [piezo EXCEPT !.at = "take", !.notified = FALSE]
  /\ UNCHANGED impact

Wake ==
  /\ piezo.at = "sleep" /\ piezo.left = 0
  /\ piezo' = [piezo EXCEPT !.at = "take"]
  /\ UNCHANGED impact

-----------------------------------------------------------------------------
(* Time. *)

Idle == \/ piezo.at = "take" /\ ~piezo.notified
        \/ piezo.at = "sleep" /\ piezo.left > 0

Down(n) == IF n > 0 THEN n - 1 ELSE 0

PiezoTick ==
  /\ Idle
  /\ piezo' = [piezo EXCEPT !.left = Down(@)]
  /\ impact' = [impact EXCEPT !.ringing = Down(@),
                              !.unheard = IF @ = Heard THEN Heard ELSE @ + 1]

-----------------------------------------------------------------------------
(* Properties. *)

PiezoTypeOK ==
  /\ piezo \in [created : BOOLEAN, armed : BOOLEAN, notified : BOOLEAN,
                at : {"take", "click", "sleep"}, left : 0 .. Debounce]
  /\ impact \in [ringing : 0 .. Ring, unheard : Heard .. Debounce, clicks : 0 .. 3]

\* Every impact that meets an armed piezo starts a click within the debounce time,
\* also one that falls into the delay after another.  "Ignore additional
\* oscillations from the same physical impact" holds in part only: an edge during
\* the delay waits for its end, so an impact makes up to two clicks; if it rings
\* for less than the delay it never makes a third.
ImpactClicks ==
  /\ impact.unheard <= Debounce
  /\ impact.clicks <= 2
  /\ impact.unheard >= 0 => piezo.notified
=============================================================================
