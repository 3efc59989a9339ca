---------------------------- MODULE ClickHistory ----------------------------
(***************************************************************************)
(* The click history of one foot in the input frame, its writer and its    *)
(* reader, access by access.                                               *)
(*                                                                         *)
(* The ESP-NOW worker pushes clicks (controller_push_click); the PC report *)
(* task turns the history to JSON (controller_state_to_json).  They share  *)
(* the frame without a lock and may run on two cores.                      *)
(*                                                                         *)
(* Clicks carry their number here, 1, 2, 3 and so on, in place of a time,  *)
(* so that a report shows which clicks it holds; 0 is what the memset of   *)
(* the frame leaves.  The 64-bit entries are read whole: click times come  *)
(* through a uint32_t, so the upper half never changes.                    *)
(***************************************************************************)
EXTENDS Naturals, Sequences

CONSTANTS History,    \* CONTROLLER_CLICK_HISTORY
          MaxClicks   \* bound: clicks of a behaviour

ASSUME HistoryAssumption == History \in Nat \ {0}
ASSUME MaxClicksAssumption == MaxClicks \in Nat

Index == 0 .. History - 1

VARIABLES
  click, click_head, click_count,   \* ControllerState
  writer,     \* the store the worker makes next
  pushed,     \* the number of clicks it has begun to push
  reader,     \* the access the report task makes next
  first,      \* its index of the oldest click
  seenHead,   \* the click_head it has read
  report,     \* the clicks it has put in the array
  overlaps    \* clicks stored since it began (an observer)

state      == <<click, click_head, click_count>>
readerVars == <<reader, first, seenHead, report>>
vars       == <<state, writer, pushed, readerVars, overlaps>>

-----------------------------------------------------------------------------
(* controller_push_click *)

\* Mutant of StoreClick: the head moves before the click is stored.
StoreClickAfterHead ==
  /\ writer = "click" /\ pushed < MaxClicks
  /\ pushed' = pushed + 1
  /\ click' = [click EXCEPT ![(click_head + 1) % History] = pushed + 1]
  /\ writer' = "head"
  /\ overlaps' = IF reader = "idle" THEN 0 ELSE overlaps + 1
  /\ UNCHANGED <<click_head, click_count, readerVars>>

StoreClick ==
  /\ writer = "click" /\ pushed < MaxClicks
  /\ pushed' = pushed + 1
  /\ click' = [click EXCEPT ![click_head] = pushed + 1]
  /\ writer' = "head"
  /\ overlaps' = IF reader = "idle" THEN 0 ELSE overlaps + 1
  /\ UNCHANGED <<click_head, click_count, readerVars>>

\* Mutant of StoreHead: the index does not wrap.
StoreHeadUnwrapped ==
  /\ writer = "head"
  /\ click_head' = click_head + 1
  /\ writer' = "count"
  /\ UNCHANGED <<click, click_count, pushed, readerVars, overlaps>>

StoreHead ==
  /\ writer = "head"
  /\ click_head' = (click_head + 1) % History
  /\ writer' = "count"
  /\ UNCHANGED <<click, click_count, pushed, readerVars, overlaps>>

\* Mutant of StoreCount: the bound of the count is off by one.
StoreCountOffByOne ==
  /\ writer = "count"
  /\ click_count' = IF click_count <= History THEN click_count + 1 ELSE click_count
  /\ writer' = "click"
  /\ UNCHANGED <<click, click_head, pushed, readerVars, overlaps>>

StoreCount ==
  /\ writer = "count"
  /\ click_count' = IF click_count < History THEN click_count + 1 ELSE click_count
  /\ writer' = "click"
  /\ UNCHANGED <<click, click_head, pushed, readerVars, overlaps>>

-----------------------------------------------------------------------------
(* controller_state_to_json *)

BeginReport ==
  /\ reader = "idle"
  /\ seenHead' = click_head
  /\ report' = <<>>
  /\ overlaps' = IF writer = "click" THEN 0 ELSE 1
  /\ reader' = "first"
  /\ UNCHANGED <<state, writer, pushed, first>>

\* Mutant of ReadFirst: the report starts at the head.
ReadFirstAtHead ==
  /\ reader = "first"
  /\ first' = seenHead
  /\ reader' = "test"
  /\ UNCHANGED <<state, writer, pushed, seenHead, report, overlaps>>

ReadFirst ==
  /\ reader = "first"
  /\ first' = (seenHead + History - click_count) % History
  /\ reader' = "test"
  /\ UNCHANGED <<state, writer, pushed, seenHead, report, overlaps>>

\* The loop reads click_count anew for every entry.
TestCount ==
  /\ reader = "test"
  /\ reader' = IF Len(report) < click_count THEN "entry" ELSE "done"
  /\ UNCHANGED <<state, writer, pushed, first, seenHead, report, overlaps>>

ReadEntry ==
  /\ reader = "entry"
  /\ report' = Append(report, click[(first + Len(report)) % History])
  /\ reader' = "test"
  /\ UNCHANGED <<state, writer, pushed, first, seenHead, overlaps>>

EndReport ==
  /\ reader = "done"
  /\ reader' = "idle"
  /\ first' = 0 /\ seenHead' = 0 /\ report' = <<>> /\ overlaps' = 0
  /\ UNCHANGED <<state, writer, pushed>>

-----------------------------------------------------------------------------
Init ==
  /\ click = [i \in Index |-> 0]
  /\ click_head = 0 /\ click_count = 0
  /\ writer = "click" /\ pushed = 0
  /\ reader = "idle" /\ first = 0 /\ seenHead = 0 /\ report = <<>>
  /\ overlaps = 0

Push   == StoreClick \/ StoreHead \/ StoreCount
Report == BeginReport \/ ReadFirst \/ TestCount \/ ReadEntry \/ EndReport
Next   == Push \/ Report

Spec == Init /\ [][Next]_vars

-----------------------------------------------------------------------------
(* Properties. *)

TypeOK ==
  /\ click \in [Index -> 0 .. MaxClicks]
  /\ click_head \in Index
  /\ click_count \in 0 .. History
  /\ writer \in {"click", "head", "count"}
  /\ pushed \in 0 .. MaxClicks
  /\ reader \in {"idle", "first", "test", "entry", "done"}
  /\ first \in Index /\ seenHead \in Index
  /\ report \in Seq(0 .. MaxClicks)
  /\ overlaps \in 0 .. MaxClicks

\* The clicks a reader would find if the push under way were complete.
HeadAfter  == IF writer = "head" THEN (click_head + 1) % History ELSE click_head
CountAfter == IF writer # "click" /\ click_count < History THEN click_count + 1 ELSE click_count
Window ==
  [k \in 1 .. CountAfter |-> click[(HeadAfter + History - CountAfter + k - 1) % History]]

Promise == INSTANCE ClickWindow WITH Time <- 1 .. MaxClicks, window <- Window

\* Taking effect with its first store, a push is the push of ClickWindow: the
\* ring holds the latest clicks in order, through every wrap of the index.
ImplementsWindow == Promise!Spec

\* A report no push overlapped lists the latest clicks, oldest first, and all
\* of them that fit.
UndisturbedReportIsExact ==
  reader = "done" /\ overlaps = 0 =>
    LET n == IF pushed < History THEN pushed ELSE History
    IN report = [k \in 1 .. n |-> pushed - n + k]

\* A disturbed report is never longer than the history, and holds no click
\* older than the history was when it began; it may hold an entry never
\* written, but only while the history is not full.
DisturbedReportIsRecent ==
  reader = "done" =>
    /\ Len(report) <= History
    /\ \A k \in 1 .. Len(report) :
         \/ pushed <= report[k] + History + overlaps - 1 /\ report[k] > 0
         \/ report[k] = 0 /\ pushed < History + overlaps
=============================================================================
