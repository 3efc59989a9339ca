------------------------------ MODULE SerialRx -------------------------------
(***************************************************************************)
(* Lines from the PC: usbdevice_serial_rx.c.                               *)
(*                                                                         *)
(* The receive callback of the USB port assembles lines byte by byte in    *)
(* rx_message and queues each whole line; it never waits, so a line that   *)
(* meets a full queue is lost.  The task pccomm_rx takes lines and handles *)
(* them.  The assembler keeps its state between two calls of the callback, *)
(* so how the bytes are cut into chunks does not matter and one byte is    *)
(* one step.                                                               *)
(*                                                                         *)
(* A visible character is named by its line and its place in it: that is   *)
(* all that tells a whole line from one that is merged, cut or shifted.    *)
(***************************************************************************)
EXTENDS Naturals, Sequences

CONSTANTS LineMax,     \* CONFIG_PC_COMM_MESSAGE_MAX_SIZE, the size of rx_message
          BufSize,     \* CONFIG_TINYUSB_CDC_RX_BUFSIZE + 1, the size of msg.buf
          QueueSize,   \* CONFIG_PC_COMM_QUEUE_SIZE
          MaxLines,    \* how many lines the PC sends
          MaxTyped     \* how many visible characters it puts on a line

ASSUME RxSizes == LineMax \in Nat \ {0} /\ BufSize \in Nat \ {0} /\ QueueSize \in Nat \ {0}
ASSUME RxBounds == MaxLines \in Nat /\ MaxTyped \in Nat

VARIABLES rx_line,         \* rx_message up to rx_line_length
          rx_discarding,
          app_queue,
          task,            \* the message the task is handling, or <<>>
          overrun,         \* a line went over the end of msg.buf
          lines,           \* history: the length of each line the PC has ended
          typed            \* how many visible characters it has put on the next

rxVars == <<rx_line, rx_discarding, app_queue, task, overrun, lines, typed>>

RxInit == /\ rx_line = <<>>
          /\ rx_discarding = FALSE
          /\ app_queue = <<>>
          /\ task = <<>>
          /\ overrun = FALSE
          /\ lines = <<>>
          /\ typed = 0

\* The visible characters of a line of the PC.
Text(n, length) == [k \in 1 .. length |-> <<n, k>>]

\* The next byte of the PC's: what follows an overrun is undefined, and not
\* modelled.
PcSends == ~overrun /\ Len(lines) < MaxLines

-----------------------------------------------------------------------------
(* The receive callback. *)

\* Mutant of Visible: the length starts over without discarding.
VisibleRestarts ==
  /\ PcSends /\ typed < MaxTyped
  /\ typed' = typed + 1
  /\ LET c == <<Len(lines) + 1, typed + 1>> IN
       rx_line' = IF Len(rx_line) < LineMax THEN Append(rx_line, c) ELSE <<c>>
  /\ UNCHANGED <<rx_discarding, app_queue, task, overrun, lines>>

\* Mutant of Visible: one character more than rx_message holds.
VisibleOffByOne ==
  /\ PcSends /\ typed < MaxTyped
  /\ typed' = typed + 1
  /\ \/ rx_discarding /\ UNCHANGED <<rx_line, rx_discarding>>
     \/ /\ ~rx_discarding /\ Len(rx_line) > LineMax
        /\ rx_line' = <<>>
        /\ rx_discarding' = TRUE
     \/ /\ ~rx_discarding /\ Len(rx_line) <= LineMax
        /\ rx_line' = Append(rx_line, <<Len(lines) + 1, typed + 1>>)
        /\ UNCHANGED rx_discarding
  /\ UNCHANGED <<app_queue, task, overrun, lines>>

\* A byte other than an end of line.  One too many for rx_message discards the
\* line up to its end.
Visible ==
  /\ PcSends /\ typed < MaxTyped
  /\ typed' = typed + 1
  /\ \/ rx_discarding /\ UNCHANGED <<rx_line, rx_discarding>>
     \/ /\ ~rx_discarding /\ Len(rx_line) >= LineMax
        /\ rx_line' = <<>>
        /\ rx_discarding' = TRUE
     \/ /\ ~rx_discarding /\ Len(rx_line) < LineMax
        /\ rx_line' = Append(rx_line, <<Len(lines) + 1, typed + 1>>)
        /\ UNCHANGED rx_discarding
  /\ UNCHANGED <<app_queue, task, overrun, lines>>

\* Mutant of LineFeed: only an empty line ends the discarding.
LineFeedKeepsDiscarding ==
  /\ PcSends
  /\ lines' = Append(lines, typed) /\ typed' = 0
  /\ rx_discarding' = (rx_discarding /\ typed # 0)
  /\ rx_line' = <<>>
  /\ IF rx_discarding \/ rx_line = <<>>
     THEN UNCHANGED <<app_queue, overrun>>
     ELSE /\ overrun' = (Len(rx_line) > BufSize)
          /\ app_queue' = IF Len(app_queue) < QueueSize /\ ~overrun'
                          THEN Append(app_queue, rx_line) ELSE app_queue
  /\ UNCHANGED task

\* The end of a line.  A carriage return before it, or anywhere, is passed over;
\* so is an empty line.  The copy to the message does not look at its size.
LineFeed ==
  /\ PcSends
  /\ lines' = Append(lines, typed) /\ typed' = 0
  /\ rx_discarding' = FALSE
  /\ rx_line' = <<>>
  /\ IF rx_discarding \/ rx_line = <<>>
     THEN UNCHANGED <<app_queue, overrun>>
     ELSE /\ overrun' = (Len(rx_line) > BufSize)
          /\ app_queue' = IF Len(app_queue) < QueueSize /\ ~overrun'
                          THEN Append(app_queue, rx_line) ELSE app_queue
  /\ UNCHANGED task

-----------------------------------------------------------------------------
(* The task pccomm_rx. *)

TakeLine ==
  /\ ~overrun /\ task = <<>> /\ app_queue # <<>>
  /\ task' = Head(app_queue)
  /\ app_queue' = Tail(app_queue)
  /\ UNCHANGED <<rx_line, rx_discarding, overrun, lines, typed>>

\* Mutant of HandleLine: a line that is refused, say a short one, ends the task.
HandleLineOrExit ==
  /\ ~overrun /\ Len(task) > 1
  /\ task' = <<>>
  /\ UNCHANGED <<rx_line, rx_discarding, app_queue, overrun, lines, typed>>

\* pccomm_protocol_handle returns, with success or not: it is only logged.
HandleLine ==
  /\ ~overrun /\ task # <<>>
  /\ task' = <<>>
  /\ UNCHANGED <<rx_line, rx_discarding, app_queue, overrun, lines, typed>>

RxNext == Visible \/ LineFeed \/ TakeLine \/ HandleLine

RxSpec == RxInit /\ [][RxNext]_rxVars

\* The task is scheduled; the PC need not send anything.
FairRxSpec == RxSpec /\ WF_rxVars(TakeLine) /\ WF_rxVars(HandleLine)

-----------------------------------------------------------------------------
(* Properties. *)

Char == (1 .. MaxLines) \X (1 .. MaxTyped)

\* Shapes, and nothing is kept in rx_message while a line is discarded.
RxTypeOK ==
  /\ rx_line \in Seq(Char) /\ Len(rx_line) <= LineMax
  /\ rx_discarding \in BOOLEAN /\ (rx_discarding => rx_line = <<>>)
  /\ app_queue \in Seq(Seq(Char)) /\ Len(app_queue) <= QueueSize
  /\ task \in Seq(Char)
  /\ overrun \in BOOLEAN
  /\ lines \in Seq(0 .. MaxTyped) /\ Len(lines) <= MaxLines
  /\ typed \in 0 .. MaxTyped

\* A message as a line of the PC's: its number if it is that line, whole.
Number(message) ==
  IF \E n \in DOMAIN lines : message = Text(n, lines[n])
  THEN CHOOSE n \in DOMAIN lines : message = Text(n, lines[n])
  ELSE Len(lines) + 1

Channel == INSTANCE LineChannel
  WITH Capacity <- QueueSize,
       ended <- Len(lines),
       waiting <- [i \in DOMAIN app_queue |-> Number(app_queue[i])],
       handled <- IF task = <<>> THEN 0 ELSE Number(task)

\* Whatever was too long, empty or lost before, the lines that are handled are
\* lines the PC sent: whole, in its order, each at most once.
ImplementsChannel == Channel!Spec

\* A line that fits never overruns a message, and is queued if there is room,
\* whatever came before it: a line that was discarded or lost takes no other line
\* with it.
Fits == typed \in 1 .. (IF LineMax < BufSize THEN LineMax ELSE BufSize)
FittingLineIsTaken ==
  [][Len(lines') > Len(lines) /\ Fits
       => /\ ~overrun'
          /\ Len(app_queue) < QueueSize
               => app_queue' = Append(app_queue, Text(Len(lines'), typed))]_rxVars

\* Whatever is queued is handled, although lines before it may be refused.
QueueDrains == app_queue # <<>> ~> (app_queue = <<>> \/ overrun)
=============================================================================
