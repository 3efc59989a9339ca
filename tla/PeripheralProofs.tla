--------------------------- MODULE PeripheralProofs ---------------------------
(***************************************************************************)
(* Theorems about the two peripherals that stand alone: the receiver of    *)
(* the USB serial line (SerialRx) and the LED controller (LedController).  *)
(* They share no state; each half of this module is about one of them.     *)
(*                                                                         *)
(* SerialRx, for every size of line, buffer and queue and whatever the PC  *)
(* sends: a line that fits is taken, and what is handled are lines of the  *)
(* PC's, whole and in their order.  LineOK is why: rx_message holds what   *)
(* the PC has put on its line so far, unless that is too long already.     *)
(* MessagesOK carries it to the queue and the task; a message is not       *)
(* empty, so it is one line only.                                          *)
(*                                                                         *)
(* LedController, for every depth of colour and every set of durations:    *)
(* the LED is on just when the last command asks for light and shows that  *)
(* command, with the exceptions LampFollowsCommand names, and no phase of  *)
(* a blink is cut short.  The invariant is LampFollowsCommand with what    *)
(* the commands leave in the variables of ledcontroller.c: s_on is whether *)
(* there is light to paint again, and in a blink the time of the phase is  *)
(* never more than what is left and what has passed.                       *)
(***************************************************************************)
EXTENDS SerialRx, LedController, TLAPS

-----------------------------------------------------------------------------
(* The USB serial receiver. *)

\* What the PC has put on its line is in rx_message, or too long for it.
LineOK ==
  IF rx_discarding THEN typed > LineMax ELSE rx_line = Text(Len(lines) + 1, typed)

IsLine(message, sent) ==
  \E n \in DOMAIN sent : sent[n] > 0 /\ message = Text(n, sent[n])

MessagesOK ==
  /\ \A i \in DOMAIN app_queue : IsLine(app_queue[i], lines)
  /\ task # <<>> => IsLine(task, lines)

RxInv == RxTypeOK /\ LineOK /\ MessagesOK

LEMMA Sizes == /\ LineMax \in Nat /\ BufSize \in Nat /\ QueueSize \in Nat
               /\ MaxLines \in Nat /\ MaxTyped \in Nat
BY RxSizes, RxBounds

LEMMA TextIsText ==
  ASSUME NEW n \in 1 .. MaxLines, NEW k \in 0 .. MaxTyped
  PROVE  Text(n, k) \in Seq(Char) /\ Len(Text(n, k)) = k
<1>1. k \in Nat /\ \A i \in 1 .. k : <<n, i>> \in Char
  BY Sizes DEF Char
<1> QED BY <1>1 DEF Text

LEMMA LongerText ==
  ASSUME NEW n \in Nat, NEW k \in Nat
  PROVE  Append(Text(n, k), <<n, k + 1>>) = Text(n, k + 1)
<1> DEFINE C == {<<n, i>> : i \in Nat}
<1>1. Text(n, k) \in Seq(C) /\ Len(Text(n, k)) = k /\ <<n, k + 1>> \in C
  BY DEF Text
<1>2. Text(n, k + 1) \in Seq(C) /\ Len(Text(n, k + 1)) = k + 1
  BY DEF Text
<1>3. Append(Text(n, k), <<n, k + 1>>) \in Seq(C) /\ Len(Append(Text(n, k), <<n, k + 1>>)) = k + 1
  BY <1>1
<1>4. \A i \in 1 .. k + 1 : Append(Text(n, k), <<n, k + 1>>)[i] = Text(n, k + 1)[i]
  BY <1>1 DEF Text
<1> QED BY <1>2, <1>3, <1>4

LEMMA EmptyText ==
  ASSUME NEW n
  PROVE  Text(n, 0) = <<>>
BY DEF Text

\* A text that is not empty tells its line.
LEMMA TextTells ==
  ASSUME NEW m, NEW n, NEW j \in Nat \ {0}, NEW k \in Nat \ {0}, Text(m, j) = Text(n, k)
  PROVE  m = n /\ Text(m, j) # <<>>
<1>1. 1 \in 1 .. j /\ 1 \in 1 .. k
  OBVIOUS
<1>2. Text(m, j)[1] = <<m, 1>> /\ Text(n, k)[1] = <<n, 1>>
  BY <1>1 DEF Text
<1>3. DOMAIN Text(m, j) # {} /\ DOMAIN <<>> = {}
  BY <1>1 DEF Text
<1>4. <<m, 1>> = <<n, 1>>
  BY <1>2
<1> QED BY <1>3, <1>4

LEMMA RxInvInit == RxInit => RxInv
<1> SUFFICES ASSUME RxInit
             PROVE  RxInv
  OBVIOUS
<1>1. /\ rx_line = <<>> /\ ~rx_discarding /\ app_queue = <<>> /\ task = <<>>
      /\ lines = <<>> /\ typed = 0
  BY DEF RxInit
<1>2. RxTypeOK
  <2>1. <<>> \in Seq(Char) /\ <<>> \in Seq(Seq(Char)) /\ <<>> \in Seq(0 .. MaxTyped) /\ Len(<<>>) = 0
    OBVIOUS
  <2>2. rx_discarding \in BOOLEAN /\ overrun \in BOOLEAN
    BY DEF RxInit
  <2> QED BY <1>1, <2>1, <2>2, Sizes DEF RxTypeOK
<1>3. LineOK
  BY <1>1, EmptyText DEF LineOK
<1>4. MessagesOK
  <2>1. \A i \in DOMAIN app_queue : FALSE
    BY <1>1
  <2> QED BY <1>1, <2>1 DEF MessagesOK
<1> QED BY <1>2, <1>3, <1>4 DEF RxInv

LEMMA VisibleKeeps ==
  ASSUME RxInv, Visible
  PROVE  RxInv'
<1> USE DEF RxInv
<1>1. /\ typed < MaxTyped /\ typed' = typed + 1 /\ typed \in 0 .. MaxTyped
      /\ Len(lines) < MaxLines /\ lines' = lines /\ app_queue' = app_queue
      /\ task' = task /\ overrun' = overrun
      /\ Len(lines) \in Nat
  BY Sizes DEF Visible, PcSends, RxTypeOK
<1>2. MessagesOK'
  BY <1>1 DEF MessagesOK, IsLine, Text
<1> DEFINE c == <<Len(lines) + 1, typed + 1>>
<1>2a. \/ rx_discarding /\ rx_line' = rx_line /\ rx_discarding' = rx_discarding
       \/ ~rx_discarding /\ Len(rx_line) >= LineMax /\ rx_line' = <<>> /\ rx_discarding' = TRUE
       \/ /\ ~rx_discarding /\ Len(rx_line) < LineMax
          /\ rx_line' = Append(rx_line, c) /\ rx_discarding' = rx_discarding
  BY DEF Visible
<1>3. rx_line' \in Seq(Char) /\ Len(rx_line') <= LineMax
  <2>1. c \in Char
    BY <1>1, Sizes DEF Char
  <2> HIDE DEF c
  <2>2. rx_line \in Seq(Char) /\ Len(rx_line) <= LineMax
    BY DEF RxTypeOK
  <2>3. CASE rx_line' = Append(rx_line, c) /\ Len(rx_line) < LineMax
    BY <2>1, <2>2, <2>3, Sizes
  <2>4. CASE rx_line' = rx_line
    BY <2>2, <2>4
  <2>5. CASE rx_line' = <<>>
    <3>1. <<>> \in Seq(Char) /\ Len(<<>>) = 0
      OBVIOUS
    <3> QED BY <2>5, <3>1, Sizes
  <2> QED BY <1>2a, <2>3, <2>4, <2>5
<1>4. rx_discarding' \in BOOLEAN /\ (rx_discarding' => rx_line' = <<>>)
  <2>1. rx_discarding \in BOOLEAN /\ (rx_discarding => rx_line = <<>>)
    BY DEF RxTypeOK
  <2> HIDE DEF c
  <2>2. CASE rx_discarding /\ rx_line' = rx_line /\ rx_discarding' = rx_discarding
    BY <2>1, <2>2
  <2>3. CASE rx_line' = <<>> /\ rx_discarding' = TRUE
    BY <2>3
  <2>4. CASE ~rx_discarding /\ rx_discarding' = rx_discarding
    BY <2>1, <2>4
  <2> QED BY <1>2a, <2>2, <2>3, <2>4
<1>5. RxTypeOK'
  BY <1>1, <1>3, <1>4, Sizes DEF RxTypeOK
<1>6. LineOK'
  <2>1. CASE rx_discarding /\ rx_discarding' = rx_discarding
    BY <1>1, <2>1, Sizes DEF LineOK
  <2>2. CASE ~rx_discarding /\ Len(rx_line) >= LineMax /\ rx_discarding'
    <3>1. Len(rx_line) = typed
      BY <1>1, <2>2, TextIsText, Sizes DEF LineOK
    <3> QED BY <1>1, <2>2, <3>1, Sizes DEF LineOK
  <2>3. CASE ~rx_discarding /\ ~rx_discarding' /\ rx_line' = Append(rx_line, c)
    <3>1. rx_line = Text(Len(lines) + 1, typed) /\ Len(lines) + 1 \in Nat /\ typed \in Nat
      BY <1>1, <2>3, Sizes DEF LineOK
    <3>2. rx_line' = Text(Len(lines) + 1, typed + 1)
      BY <2>3, <3>1, LongerText
    <3> QED BY <1>1, <2>3, <3>2 DEF LineOK, Text
  <2> HIDE DEF c
  <2> QED BY <1>2a, <2>1, <2>2, <2>3
<1> QED BY <1>2, <1>5, <1>6

\* At the end of a line rx_message is the line, or it was too long.
LEMMA LineFeedSees ==
  ASSUME RxInv, LineFeed
  PROVE  /\ Len(lines) \in Nat /\ Len(lines) < MaxLines /\ Len(lines') = Len(lines) + 1
         /\ lines' = Append(lines, typed) /\ typed \in 0 .. MaxTyped
         /\ lines' \in Seq(0 .. MaxTyped)
         /\ \A n \in DOMAIN lines : n \in DOMAIN lines' /\ lines'[n] = lines[n]
         /\ Len(lines') \in DOMAIN lines' /\ lines'[Len(lines')] = typed
         /\ rx_discarding => typed > LineMax
         /\ ~rx_discarding => /\ rx_line = Text(Len(lines'), typed)
                             /\ Len(rx_line) = typed /\ typed <= LineMax
<1> USE DEF RxInv
<1>1. /\ lines \in Seq(0 .. MaxTyped) /\ typed \in 0 .. MaxTyped /\ lines' = Append(lines, typed)
      /\ Len(lines) < MaxLines
  BY DEF LineFeed, PcSends, RxTypeOK
<1>2. /\ Len(lines) \in Nat /\ Len(lines') = Len(lines) + 1 /\ lines' \in Seq(0 .. MaxTyped)
      /\ \A n \in DOMAIN lines : n \in DOMAIN lines' /\ lines'[n] = lines[n]
      /\ Len(lines') \in DOMAIN lines' /\ lines'[Len(lines')] = typed
  BY <1>1
<1>3. rx_discarding => typed > LineMax
  BY DEF LineOK
<1>4. ASSUME ~rx_discarding
      PROVE  rx_line = Text(Len(lines'), typed) /\ Len(rx_line) = typed /\ typed <= LineMax
  <2>1. rx_line = Text(Len(lines'), typed) /\ Len(rx_line) <= LineMax
    BY <1>2, <1>4 DEF LineOK, RxTypeOK
  <2>2. Len(lines') \in 1 .. MaxLines
    BY <1>1, <1>2, Sizes
  <2> QED BY <1>1, <2>1, <2>2, TextIsText
<1> QED BY <1>1, <1>2, <1>3, <1>4

\* What an end of line adds to the queue, if anything.
LEMMA LineFeedQueues ==
  ASSUME RxInv, LineFeed
  PROVE  \/ app_queue' = app_queue
         \/ /\ ~overrun' /\ ~rx_discarding /\ Len(app_queue) < QueueSize
            /\ typed > 0 /\ rx_line = Text(Len(lines'), typed)
            /\ app_queue' = Append(app_queue, rx_line)
<1>1. CASE rx_discarding \/ rx_line = <<>>
  BY <1>1 DEF LineFeed
<1>2. CASE ~rx_discarding /\ rx_line # <<>>
  <2>1. app_queue' = IF Len(app_queue) < QueueSize /\ ~overrun'
                     THEN Append(app_queue, rx_line) ELSE app_queue
    BY <1>2 DEF LineFeed
  <2>2. rx_line = Text(Len(lines'), typed) /\ typed \in 0 .. MaxTyped
    BY <1>2, LineFeedSees
  <2>3. typed # 0
    BY <1>2, <2>2, EmptyText
  <2> QED BY <1>2, <2>1, <2>2, <2>3, Sizes
<1> QED BY <1>1, <1>2

LEMMA LineFeedKeeps ==
  ASSUME RxInv, LineFeed
  PROVE  RxInv'
<1> USE DEF RxInv
<1>1. /\ typed' = 0 /\ rx_discarding' = FALSE /\ rx_line' = <<>> /\ task' = task
  BY DEF LineFeed
<1>2. overrun' \in BOOLEAN
  <2>1. CASE rx_discarding \/ rx_line = <<>>
    BY <2>1 DEF LineFeed, RxTypeOK
  <2>2. CASE ~(rx_discarding \/ rx_line = <<>>)
    <3>1. overrun' = (Len(rx_line) > BufSize)
      BY <2>2 DEF LineFeed
    <3> QED BY <3>1
  <2> QED BY <2>1, <2>2
<1>3. app_queue' \in Seq(Seq(Char)) /\ Len(app_queue') <= QueueSize
  <2>1. app_queue \in Seq(Seq(Char)) /\ Len(app_queue) <= QueueSize /\ rx_line \in Seq(Char)
    BY DEF RxTypeOK
  <2> HIDE DEF RxInv
  <2>2. CASE app_queue' = app_queue
    BY <2>1, <2>2
  <2>3. CASE Len(app_queue) < QueueSize /\ app_queue' = Append(app_queue, rx_line)
    BY <2>1, <2>3, Sizes
  <2> QED BY <2>2, <2>3, LineFeedQueues
<1>4. RxTypeOK'
  <2>1. <<>> \in Seq(Char) /\ Len(<<>>) = 0
    OBVIOUS
  <2>2. /\ lines' \in Seq(0 .. MaxTyped) /\ Len(lines') <= MaxLines
    BY LineFeedSees, Sizes
  <2>3. task' \in Seq(Char)
    BY <1>1 DEF RxTypeOK
  <2>4. rx_line' \in Seq(Char) /\ Len(rx_line') <= LineMax
    BY <1>1, <2>1, Sizes
  <2>5. rx_discarding' \in BOOLEAN /\ (rx_discarding' => rx_line' = <<>>) /\ typed' \in 0 .. MaxTyped
    <3>1. typed' \in 0 .. MaxTyped
      BY <1>1, Sizes
    <3> QED BY <1>1, <3>1
  <2> HIDE DEF RxInv
  <2> QED BY <1>2, <1>3, <2>2, <2>3, <2>4, <2>5 DEF RxTypeOK
<1>5. LineOK'
  <2>1. rx_line' = Text(Len(lines') + 1, 0)
    BY <1>1, EmptyText
  <2> QED BY <1>1, <2>1 DEF LineOK, Text
<1>6. MessagesOK'
  <2>1. ASSUME NEW message, IsLine(message, lines)
        PROVE  IsLine(message, lines')
    <3>1. PICK n \in DOMAIN lines : lines[n] > 0 /\ message = Text(n, lines[n])
      BY <2>1 DEF IsLine
    <3>2. n \in DOMAIN lines' /\ lines'[n] = lines[n]
      BY <3>1, LineFeedSees
    <3>3. lines'[n] > 0 /\ message = Text(n, lines'[n])
      BY <3>1, <3>2
    <3> QED BY <3>2, <3>3 DEF IsLine
  <2>2. task' # <<>> => IsLine(task, lines)'
    <3>1. task # <<>> => IsLine(task, lines)
      BY DEF MessagesOK
    <3> QED BY <1>1, <2>1, <3>1
  <2>3. \A i \in DOMAIN app_queue : IsLine(app_queue[i], lines')
    BY <2>1 DEF MessagesOK
  <2>4. CASE app_queue' = app_queue
    BY <2>2, <2>3, <2>4 DEF MessagesOK
  <2>5. CASE /\ typed > 0 /\ rx_line = Text(Len(lines'), typed)
             /\ app_queue' = Append(app_queue, rx_line)
    <3>1. IsLine(rx_line, lines')
      <4>1. Len(lines') \in DOMAIN lines' /\ lines'[Len(lines')] = typed
        BY LineFeedSees
      <4> QED BY <2>5, <4>1 DEF IsLine
    <3>2. \A i \in DOMAIN app_queue' : \/ app_queue'[i] = rx_line
                                              \/ /\ i \in DOMAIN app_queue
                                                 /\ app_queue'[i] = app_queue[i]
      <4>1. app_queue \in Seq(Seq(Char)) /\ rx_line \in Seq(Char)
        BY DEF RxTypeOK
      <4> HIDE DEF RxInv
      <4> QED BY <2>5, <4>1
    <3>3. \A i \in DOMAIN app_queue' : IsLine(app_queue'[i], lines')
      <4> HIDE DEF RxInv
      <4> QED BY <2>3, <3>1, <3>2
    <3> HIDE DEF RxInv
    <3> QED BY <2>2, <3>3 DEF MessagesOK
  <2> QED BY <2>4, <2>5, LineFeedQueues
<1> QED BY <1>4, <1>5, <1>6

LEMMA TakeLineKeeps ==
  ASSUME RxInv, TakeLine
  PROVE  RxInv'
<1>1. /\ task' = Head(app_queue) /\ app_queue' = Tail(app_queue) /\ app_queue # <<>>
      /\ rx_line' = rx_line /\ overrun' = overrun /\ lines' = lines /\ typed' = typed
  BY DEF TakeLine
<1>2. rx_discarding' = rx_discarding
  BY DEF TakeLine
<1>3. app_queue \in Seq(Seq(Char)) /\ Len(app_queue) <= QueueSize
  BY DEF RxInv, RxTypeOK
<1>4. /\ task' \in Seq(Char) /\ task' = app_queue[1] /\ 1 \in DOMAIN app_queue
      /\ app_queue' \in Seq(Seq(Char)) /\ Len(app_queue') <= QueueSize
      /\ \A i \in DOMAIN app_queue' : i + 1 \in DOMAIN app_queue /\ app_queue'[i] = app_queue[i + 1]
  BY <1>1, <1>3, Sizes
<1>5. RxTypeOK'
  BY <1>1, <1>2, <1>4 DEF RxInv, RxTypeOK
<1>6. LineOK'
  BY <1>1, <1>2 DEF RxInv, LineOK, Text
<1>7. MessagesOK'
  <2>1. \A i \in DOMAIN app_queue : IsLine(app_queue[i], lines)
    BY DEF RxInv, MessagesOK
  <2>2. IsLine(task', lines)
    BY <1>4, <2>1
  <2>3. \A i \in DOMAIN app_queue' : IsLine(app_queue'[i], lines)
    BY <1>4, <2>1
  <2> QED BY <1>1, <2>2, <2>3 DEF MessagesOK
<1> QED BY <1>5, <1>6, <1>7 DEF RxInv

LEMMA HandleLineKeeps ==
  ASSUME RxInv, HandleLine
  PROVE  RxInv'
<1>1. /\ task' = <<>> /\ app_queue' = app_queue
      /\ rx_line' = rx_line /\ overrun' = overrun /\ lines' = lines /\ typed' = typed
  BY DEF HandleLine
<1>2. rx_discarding' = rx_discarding
  BY DEF HandleLine
<1>3. RxTypeOK'
  <2>1. <<>> \in Seq(Char)
    OBVIOUS
  <2> QED BY <1>1, <1>2, <2>1 DEF RxInv, RxTypeOK
<1>4. LineOK'
  BY <1>1, <1>2 DEF RxInv, LineOK, Text
<1>5. MessagesOK'
  BY <1>1 DEF RxInv, MessagesOK
<1> QED BY <1>3, <1>4, <1>5 DEF RxInv

LEMMA RxInvStep == RxInv /\ [RxNext]_rxVars => RxInv'
<1> SUFFICES ASSUME RxInv, [RxNext]_rxVars
             PROVE  RxInv'
  OBVIOUS
<1>1. CASE Visible
  BY <1>1, VisibleKeeps
<1>2. CASE LineFeed
  BY <1>2, LineFeedKeeps
<1>3. CASE TakeLine
  BY <1>3, TakeLineKeeps
<1>4. CASE HandleLine
  BY <1>4, HandleLineKeeps
<1>5. CASE UNCHANGED rxVars
  <2>1. RxTypeOK'
    BY <1>5 DEF rxVars, RxInv, RxTypeOK
  <2>2. LineOK'
    BY <1>5 DEF rxVars, RxInv, LineOK, Text
  <2>3. MessagesOK'
    BY <1>5 DEF rxVars, RxInv, MessagesOK, IsLine
  <2> QED BY <2>1, <2>2, <2>3 DEF RxInv
<1> QED BY <1>1, <1>2, <1>3, <1>4, <1>5 DEF RxNext

LEMMA RxInvAlways == RxSpec => []RxInv
BY RxInvInit, RxInvStep, PTL DEF RxSpec

\* Shapes, and rx_message is empty while a line is discarded: no line is longer
\* than rx_message, no queue than its size, in any behaviour of the receiver.
THEOREM RxTypeCorrect == RxSpec => []RxTypeOK
<1>1. RxInv => RxTypeOK
  BY DEF RxInv
<1> QED BY <1>1, RxInvAlways, PTL

LEMMA FittingStep ==
  ASSUME RxInv, [RxNext]_rxVars, Len(lines') > Len(lines), Fits
  PROVE  /\ ~overrun'
         /\ Len(app_queue) < QueueSize
              => app_queue' = Append(app_queue, Text(Len(lines'), typed))
<1>1. Len(lines) \in Nat
  BY DEF RxInv, RxTypeOK
<1>2. LineFeed
  <2>1. lines' # lines
    BY <1>1
  <2> QED BY <2>1 DEF RxNext, rxVars, Visible, TakeLine, HandleLine
<1>3. typed > 0 /\ typed <= LineMax /\ typed <= BufSize /\ typed \in Nat
  BY Sizes DEF Fits
<1>4. ~rx_discarding /\ rx_line = Text(Len(lines'), typed) /\ Len(rx_line) = typed
  BY <1>2, <1>3, LineFeedSees, Sizes
<1>5. rx_line # <<>>
  BY <1>3, <1>4
<1>6. /\ overrun' = (Len(rx_line) > BufSize)
      /\ app_queue' = IF Len(app_queue) < QueueSize /\ ~overrun'
                      THEN Append(app_queue, rx_line) ELSE app_queue
  BY <1>2, <1>4, <1>5 DEF LineFeed
<1>7. ~overrun'
  <2>1. ~(Len(rx_line) > BufSize)
    BY <1>3, <1>4, Sizes
  <2> QED BY <1>6, <2>1
<1> QED BY <1>4, <1>6, <1>7

\* A line that fits is queued whole if there is room, whatever lines came before
\* it, and never goes over the end of the message's buffer.
THEOREM FittingLinesAreTaken == RxSpec => FittingLineIsTaken
<1>1. RxInv /\ [RxNext]_rxVars
        => [Len(lines') > Len(lines) /\ Fits
              => /\ ~overrun'
                 /\ Len(app_queue) < QueueSize
                      => app_queue' = Append(app_queue, Text(Len(lines'), typed))]_rxVars
  BY FittingStep
<1> QED BY <1>1, RxInvAlways, PTL DEF RxSpec, FittingLineIsTaken

-----------------------------------------------------------------------------
(* The receiver implements LineChannel. *)

NumberIn(message, sent) ==
  IF \E n \in DOMAIN sent : message = Text(n, sent[n])
  THEN CHOOSE n \in DOMAIN sent : message = Text(n, sent[n])
  ELSE Len(sent) + 1

Waiting(queue, sent) == [i \in DOMAIN queue |-> NumberIn(queue[i], sent)]

Handled(message, sent) == IF message = <<>> THEN 0 ELSE NumberIn(message, sent)

LEMMA NumberIs ==
  ASSUME NEW sent \in Seq(Nat), NEW n \in DOMAIN sent, sent[n] > 0,
         NEW message, message = Text(n, sent[n])
  PROVE  NumberIn(message, sent) = n /\ message # <<>> /\ n \in Nat /\ n > 0
<1>1. sent[n] \in Nat \ {0} /\ n \in Nat /\ n > 0
  OBVIOUS
<1>2. message # <<>>
  BY <1>1, TextTells
<1>3. ASSUME NEW k \in DOMAIN sent, message = Text(k, sent[k])
      PROVE  k = n
  <2>1. sent[k] \in Nat
    OBVIOUS
  <2>2. sent[k] # 0
    BY <1>2, <1>3, EmptyText
  <2>3. Text(k, sent[k]) = Text(n, sent[n])
    BY <1>3
  <2> QED BY <1>1, <2>1, <2>2, <2>3, TextTells
<1>4. NumberIn(message, sent) = CHOOSE k \in DOMAIN sent : message = Text(k, sent[k])
  BY DEF NumberIn
<1> QED BY <1>1, <1>2, <1>3, <1>4

\* The number of a line stays as it is when another line ends.
LEMMA NumberStays ==
  ASSUME NEW sent \in Seq(Nat), NEW k \in Nat, NEW message, IsLine(message, sent)
  PROVE  /\ NumberIn(message, Append(sent, k)) = NumberIn(message, sent)
         /\ NumberIn(message, sent) \in Nat \ {0} /\ message # <<>>
<1>1. PICK n \in DOMAIN sent : sent[n] > 0 /\ message = Text(n, sent[n])
  BY DEF IsLine
<1>2. Append(sent, k) \in Seq(Nat) /\ n \in DOMAIN Append(sent, k) /\ Append(sent, k)[n] = sent[n]
  OBVIOUS
<1>3. NumberIn(message, sent) = n /\ message # <<>> /\ n \in Nat /\ n > 0
  BY <1>1, NumberIs
<1>4. NumberIn(message, Append(sent, k)) = n
  <2>1. Append(sent, k)[n] > 0 /\ message = Text(n, Append(sent, k)[n])
    BY <1>1, <1>2
  <2> QED BY <1>2, <2>1, NumberIs
<1> QED BY <1>3, <1>4

LEMMA ChannelState ==
  ASSUME RxInv
  PROVE  /\ lines \in Seq(Nat) /\ app_queue \in Seq(Seq(Char)) /\ Len(lines) \in Nat
         /\ typed \in Nat
         /\ \A i \in DOMAIN app_queue : IsLine(app_queue[i], lines)
         /\ task # <<>> => IsLine(task, lines)
         /\ Waiting(app_queue, lines) \in Seq(Nat)
         /\ Len(Waiting(app_queue, lines)) = Len(app_queue)
<1>1. lines \in Seq(0 .. MaxTyped) /\ app_queue \in Seq(Seq(Char)) /\ typed \in 0 .. MaxTyped
  BY DEF RxInv, RxTypeOK
<1>2. lines \in Seq(Nat) /\ Len(lines) \in Nat /\ typed \in Nat
  BY <1>1, Sizes
<1>3. /\ \A i \in DOMAIN app_queue : IsLine(app_queue[i], lines)
      /\ task # <<>> => IsLine(task, lines)
  BY DEF RxInv, MessagesOK
<1>4. \A i \in DOMAIN app_queue : NumberIn(app_queue[i], lines) \in Nat
  BY <1>2, <1>3, NumberStays
<1>5. DOMAIN app_queue = 1 .. Len(app_queue) /\ Len(app_queue) \in Nat
  BY <1>1
<1>6. /\ Waiting(app_queue, lines) \in Seq(Nat)
      /\ Len(Waiting(app_queue, lines)) = Len(app_queue)
  BY <1>4, <1>5 DEF Waiting
<1> QED BY <1>1, <1>2, <1>3, <1>6

\* LineChannel's actions, from one state of the receiver to another.
Ended(q, m, s, q2, m2, s2) ==
  /\ Len(s2) = Len(s) + 1
  /\ \/ /\ Len(Waiting(q, s)) < QueueSize
        /\ Waiting(q2, s2) = Append(Waiting(q, s), Len(s2))
     \/ Waiting(q2, s2) = Waiting(q, s)
  /\ Handled(m2, s2) = Handled(m, s)

LEMMA LineFeedEnds ==
  ASSUME RxInv, LineFeed
  PROVE  Ended(app_queue, task, lines, app_queue', task', lines')
<1>1. task' = task /\ lines' = Append(lines, typed) /\ Len(lines') = Len(lines) + 1
  BY LineFeedSees DEF LineFeed
<1>2. Handled(task', lines') = Handled(task, lines)
  BY <1>1, ChannelState, NumberStays DEF Handled
<1>3. \A i \in DOMAIN app_queue : NumberIn(app_queue[i], lines') = NumberIn(app_queue[i], lines)
  BY <1>1, ChannelState, NumberStays
<1>4. CASE app_queue' = app_queue
  <2>1. Waiting(app_queue', lines') = Waiting(app_queue, lines)
    BY <1>3, <1>4 DEF Waiting
  <2> QED BY <1>1, <1>2, <2>1 DEF Ended
<1>5. CASE /\ Len(app_queue) < QueueSize /\ typed > 0 /\ rx_line = Text(Len(lines'), typed)
           /\ app_queue' = Append(app_queue, rx_line)
  <2>1. NumberIn(rx_line, lines') = Len(lines')
    <3>1. lines' \in Seq(Nat)
      BY <1>1, ChannelState
    <3>2. Len(lines') \in DOMAIN lines' /\ lines'[Len(lines')] = typed
      BY LineFeedSees
    <3>3. lines'[Len(lines')] > 0 /\ rx_line = Text(Len(lines'), lines'[Len(lines')])
      BY <1>5, <3>2
    <3> QED BY <3>1, <3>2, <3>3, NumberIs
  <2> DEFINE W == Waiting(app_queue, lines)
             V == Waiting(app_queue', lines')
             n == Len(app_queue)
  <2>2. W \in Seq(Nat) /\ Len(W) = n /\ n \in Nat /\ Len(lines') \in Nat
    BY <1>1, ChannelState
  <2>3. /\ DOMAIN app_queue = 1 .. n /\ DOMAIN app_queue' = 1 .. n + 1
        /\ app_queue'[n + 1] = rx_line
        /\ \A i \in 1 .. n : app_queue'[i] = app_queue[i]
    <3>1. app_queue \in Seq(Seq(Char)) /\ rx_line \in Seq(Char)
      BY DEF RxInv, RxTypeOK
    <3> QED BY <1>5, <3>1
  <2>4. V = [i \in 1 .. n + 1 |-> NumberIn(app_queue'[i], lines')]
    BY <2>3 DEF Waiting
  <2>5. W = [i \in 1 .. n |-> NumberIn(app_queue[i], lines)]
    BY <2>3 DEF Waiting
  <2>6. V[n + 1] = Len(lines') /\ \A i \in 1 .. n : V[i] = W[i]
    <3>1. n + 1 \in 1 .. n + 1 /\ \A i \in 1 .. n : i \in 1 .. n + 1
      BY <2>2
    <3> HIDE DEF V, W, n
    <3>2. V[n + 1] = Len(lines')
      BY <2>1, <2>3, <2>4, <3>1
    <3>3. ASSUME NEW i \in 1 .. n
          PROVE  V[i] = W[i]
      BY <1>3, <2>3, <2>4, <2>5, <3>1
    <3> QED BY <3>2, <3>3
  <2>7. V = Append(W, Len(lines'))
    <3>1. V \in Seq(Nat) /\ Len(V) = n + 1
      <4> HIDE DEF V, W, n
      <4>1. \A i \in 1 .. n + 1 : V[i] \in Nat
        BY <2>2, <2>6
      <4> QED BY <2>2, <2>4, <4>1
    <3> HIDE DEF V, W, n
    <3> QED BY <2>2, <2>6, <3>1
  <2> QED BY <1>1, <1>2, <1>5, <2>2, <2>7 DEF Ended
<1> QED BY <1>4, <1>5, LineFeedQueues

LEMMA TakeLineTakes ==
  ASSUME RxInv, TakeLine
  PROVE  /\ lines' = lines /\ Handled(task, lines) = 0
         /\ Waiting(app_queue, lines) # <<>>
         /\ Handled(task', lines) = Head(Waiting(app_queue, lines))
         /\ Waiting(app_queue', lines) = Tail(Waiting(app_queue, lines))
<1>1. /\ task = <<>> /\ app_queue # <<>> /\ task' = Head(app_queue)
      /\ app_queue' = Tail(app_queue) /\ lines' = lines
  BY DEF TakeLine
<1> DEFINE W == Waiting(app_queue, lines)
           V == Waiting(app_queue', lines)
           n == Len(app_queue)
<1>2. W \in Seq(Nat) /\ Len(W) = n
  BY ChannelState
<1>3. /\ DOMAIN app_queue = 1 .. n /\ n \in Nat /\ n > 0 /\ DOMAIN app_queue' = 1 .. n - 1
      /\ \A i \in 1 .. n - 1 : app_queue'[i] = app_queue[i + 1]
      /\ task' = app_queue[1]
  <2>1. app_queue \in Seq(Seq(Char))
    BY ChannelState
  <2> QED BY <1>1, <2>1
<1>4. W[1] = NumberIn(task', lines) /\ task' # <<>>
  <2>1. 1 \in DOMAIN app_queue
    BY <1>3
  <2>2. IsLine(task', lines)
    BY <1>3, <2>1, ChannelState
  <2> QED BY <1>3, <2>1, <2>2, ChannelState, NumberStays DEF Waiting
<1>5. Head(W) = Handled(task', lines) /\ W # <<>>
  <2>1. Handled(task', lines) = NumberIn(task', lines)
    BY <1>4 DEF Handled
  <2> HIDE DEF W, n
  <2> QED BY <1>2, <1>3, <1>4, <2>1
<1>6. V = [i \in 1 .. n - 1 |-> W[i + 1]]
  <2>1. \A i \in 1 .. n - 1 : i + 1 \in DOMAIN app_queue
    BY <1>3
  <2>2. W = [i \in 1 .. n |-> NumberIn(app_queue[i], lines)]
    BY <1>3 DEF Waiting
  <2>3. V = [i \in 1 .. n - 1 |-> NumberIn(app_queue'[i], lines)]
    BY <1>3 DEF Waiting
  <2> HIDE DEF V, W, n
  <2>4. \A i \in 1 .. n - 1 : i + 1 \in 1 .. n
    BY <1>3
  <2>5. \A i \in 1 .. n - 1 : NumberIn(app_queue'[i], lines) = W[i + 1]
    BY <1>3, <2>2, <2>4
  <2> QED BY <2>3, <2>5
<1>7. V = Tail(W)
  <2> HIDE DEF V, W, n
  <2>1. \A i \in 1 .. n - 1 : W[i + 1] \in Nat
    BY <1>2, <1>3
  <2>2. V \in Seq(Nat) /\ Len(V) = n - 1 /\ \A i \in 1 .. n - 1 : V[i] = W[i + 1]
    BY <1>3, <1>6, <2>1
  <2>3. /\ Tail(W) \in Seq(Nat) /\ Len(Tail(W)) = n - 1
        /\ \A i \in 1 .. n - 1 : Tail(W)[i] = W[i + 1]
    BY <1>2, <1>3
  <2> QED BY <2>2, <2>3
<1>8. Handled(task, lines) = 0
  BY <1>1 DEF Handled
<1> QED BY <1>1, <1>5, <1>7, <1>8

LEMMA HandleLineFinishes ==
  ASSUME RxInv, HandleLine
  PROVE  /\ lines' = lines /\ app_queue' = app_queue
         /\ Handled(task, lines) # 0 /\ Handled(task', lines) = 0
<1>1. task # <<>> /\ task' = <<>> /\ lines' = lines /\ app_queue' = app_queue
  BY DEF HandleLine
<1>2. NumberIn(task, lines) \in Nat \ {0}
  BY <1>1, ChannelState, NumberStays
<1> QED BY <1>1, <1>2 DEF Handled

\* Every step of the receiver is a step of the channel or none.
LEMMA ChannelStep == RxInv /\ [RxNext]_rxVars => [Channel!Next]_(Channel!vars)
<1> SUFFICES ASSUME RxInv, [RxNext]_rxVars
             PROVE  [Channel!Next]_(Channel!vars)
  OBVIOUS
<1>1. /\ [i \in DOMAIN app_queue |-> Number(app_queue[i])] = Waiting(app_queue, lines)
      /\ (IF task = <<>> THEN 0 ELSE Number(task)) = Handled(task, lines)
  BY DEF Waiting, Handled, Number, NumberIn
<1>2. /\ [i \in DOMAIN app_queue |-> Number(app_queue[i])]' = Waiting(app_queue', lines')
      /\ (IF task = <<>> THEN 0 ELSE Number(task))' = Handled(task', lines')
  BY DEF Waiting, Handled, Number, NumberIn
<1>3. CASE Visible
  <2>1. app_queue' = app_queue /\ task' = task /\ lines' = lines
    BY <1>3 DEF Visible
  <2> QED BY <1>1, <1>2, <2>1 DEF Channel!vars
<1>4. CASE LineFeed
  <2>1. Ended(app_queue, task, lines, app_queue', task', lines')
    BY <1>4, LineFeedEnds
  <2>2. Channel!End
    BY <1>1, <1>2, <2>1 DEF Ended, Channel!End
  <2> QED BY <2>2 DEF Channel!Next
<1>5. CASE TakeLine
  <2>1. Channel!Take
    BY <1>1, <1>2, <1>5, TakeLineTakes DEF Channel!Take
  <2> QED BY <2>1 DEF Channel!Next
<1>6. CASE HandleLine
  <2>1. Channel!Finish
    BY <1>1, <1>2, <1>6, HandleLineFinishes DEF Channel!Finish
  <2> QED BY <2>1 DEF Channel!Next
<1>7. CASE UNCHANGED rxVars
  <2>1. app_queue' = app_queue /\ task' = task /\ lines' = lines
    BY <1>7 DEF rxVars
  <2> QED BY <1>1, <1>2, <2>1 DEF Channel!vars
<1> QED BY <1>3, <1>4, <1>5, <1>6, <1>7 DEF RxNext

\* Whatever the PC sends, in whatever chunks, the lines the task handles are lines
\* of the PC's: whole, in the order they were sent, each at most once.
THEOREM ChannelImplemented == RxSpec => ImplementsChannel
<1>1. RxInit => Channel!Init
  <2>1. RxInit => /\ Len(lines) = 0 /\ task = <<>>
                  /\ [i \in DOMAIN app_queue |-> Number(app_queue[i])] = <<>>
    BY DEF RxInit
  <2> QED BY <2>1 DEF Channel!Init
<1> QED BY <1>1, ChannelStep, RxInvAlways, PTL DEF RxSpec, ImplementsChannel, Channel!Spec

-----------------------------------------------------------------------------
(* The LED controller. *)

Led == [initialized : BOOLEAN, on : BOOLEAN, color : Level, brightness : Level,
        blinking : BOOLEAN, phase : BOOLEAN, blinkColor : Level,
        onMs : Nat, offMs : Nat, left : Nat]

Kind  == {"nothing", "off", "solid", "blink"}
Asking == [kind : Kind, color : Level, onMs : Nat, offMs : Nat,
           changed : BOOLEAN, repainted : BOOLEAN]

LedTypes ==
  /\ board \in {"rgb", "gpio", "none"}
  /\ led \in Led
  /\ lamp \in Nat
  /\ stale \in BOOLEAN
  /\ asked \in Asking
  /\ age \in Nat

\* The variables as the last command left them.
Follows ==
  /\ led.blinking => led.initialized
  /\ led.on => led.initialized
  /\ board = "none" => ~led.on /\ ~led.blinking /\ lamp = 0
  /\ led.initialized /\ board # "none" =>
       /\ asked.kind # "nothing"
       /\ led.blinking <=> asked.kind = "blink"
       /\ asked.kind = "off" => ~led.on
       /\ asked.kind = "solid" => led.color = asked.color /\ (led.on <=> asked.color # 0)
       /\ asked.kind = "blink" => led.blinkColor = asked.color /\ (led.on <=> led.phase)
       /\ asked.repainted => led.on

\* What is seen after a write that went through.
Seen ==
  led.initialized /\ board # "none" /\ ~stale =>
    /\ asked.kind = "off" => lamp = 0
    /\ asked.kind = "solid" /\ asked.color = 0 => lamp = 0
    /\ asked.kind = "solid" /\ asked.color # 0 /\ ~asked.repainted =>
         lamp = Scale(asked.color, led.brightness)
    /\ asked.kind = "blink" /\ ~led.phase => lamp = 0
    /\ asked.kind = "blink" /\ led.phase /\ ~asked.repainted =>
         lamp = Scale(asked.color, led.brightness)

\* The time of a phase.
Lasts ==
  led.blinking =>
    /\ led.onMs = asked.onMs /\ led.offMs = asked.offMs
    /\ age + led.left >= IF led.phase THEN led.onMs ELSE led.offMs

LedInv == LedTypes /\ Follows /\ Seen /\ Lasts

LEMMA ScaleIsNatural ==
  ASSUME NEW v \in Level, NEW b \in Level
  PROVE  Scale(v, b) \in Nat
<1>1. v * b \in Nat /\ Full \in Nat \ {0}
  BY FullAssumption DEF Level
<1> QED BY <1>1 DEF Scale

LEMMA NoColorNoLight ==
  ASSUME NEW b \in Level
  PROVE  Scale(0, b) = 0
<1>1. 0 * b = 0 /\ Full \in Nat \ {0}
  BY FullAssumption DEF Level
<1> QED BY <1>1 DEF Scale

LEMMA LevelsAreNatural == Level \subseteq Nat /\ 0 \in Level /\ Full \in Level
BY FullAssumption DEF Level

LEMMA LedInvInit == LedInit => LedInv
<1> SUFFICES ASSUME LedInit
             PROVE  LedInv
  OBVIOUS
<1>1. led \in Led /\ ~led.initialized /\ ~led.blinking /\ ~led.on
  BY LevelsAreNatural DEF LedInit, Led
<1>2. asked \in Asking
  BY LevelsAreNatural DEF LedInit, Request, Asking, Kind
<1>3. lamp \in Nat /\ stale \in BOOLEAN /\ age \in Nat /\ board \in {"rgb", "gpio", "none"}
  BY LevelsAreNatural DEF LedInit
<1>4. board = "none" => lamp = 0
  BY DEF LedInit
<1> QED BY <1>1, <1>2, <1>3, <1>4 DEF LedInv, LedTypes, Follows, Seen, Lasts

-----------------------------------------------------------------------------
(* The pieces of a command. *)

LEMMA ShowMoves ==
  ASSUME LedTypes, NEW s \in Led, NEW l \in Nat, Show(s, l)
  PROVE  /\ led' \in Led /\ lamp' \in Nat /\ stale' \in BOOLEAN
         /\ board = "none" => /\ ~led'.on /\ ~led'.blinking /\ lamp' = lamp
                              /\ led'.initialized <=> led.initialized
                              /\ led'.phase <=> led.phase
         /\ board # "none" => led' = s /\ (stale' \/ lamp' = l)
<1>1. CASE board = "none"
  <2>1. led' = [led EXCEPT !.on = FALSE, !.blinking = FALSE] /\ lamp' = lamp /\ stale' = stale
    BY <1>1 DEF Show
  <2>2. led' \in Led
    BY <2>1 DEF LedTypes, Led
  <2> QED BY <1>1, <2>1, <2>2 DEF LedTypes, Led
<1>2. CASE board # "none"
  <2>1. led' = s /\ Write(l)
    BY <1>2 DEF Show
  <2>2. (lamp' = l /\ stale' = FALSE) \/ (lamp' = lamp /\ stale' = TRUE)
    BY <2>1 DEF Write
  <2> QED BY <1>2, <2>1, <2>2 DEF LedTypes
<1> QED BY <1>1, <1>2

\* A request as a record.
LEMMA RequestFields ==
  ASSUME NEW kind \in Kind, NEW c \in Level, NEW onMs \in Nat, NEW offMs \in Nat
  PROVE  LET q == Request(kind, c, onMs, offMs)
         IN /\ q \in Asking
            /\ q.kind = kind /\ q.color = c /\ q.onMs = onMs /\ q.offMs = offMs
            /\ ~q.changed /\ ~q.repainted
BY DEF Request, Asking

LEMMA InitializeKeeps ==
  ASSUME LedInv, Initialize
  PROVE  LedInv'
<1> USE DEF LedInv
<1>1. /\ ~led.initialized /\ ~led.on /\ ~led.blinking /\ led \in Led
      /\ led' = [led EXCEPT !.initialized = TRUE]
  BY DEF Initialize, Follows, LedTypes
<1>2. /\ led' \in Led /\ led'.initialized /\ ~led'.on /\ ~led'.blinking
  BY <1>1 DEF Led
<1>3. /\ asked' = Request("off", 0, 1, 1) /\ age' = 0 /\ board' = board
      /\ board = "none" => lamp' = lamp /\ stale' = stale
      /\ board # "none" => (lamp' = 0 /\ stale' = FALSE) \/ (lamp' = lamp /\ stale' = TRUE)
  BY DEF Initialize, Write, Asked
<1>4. asked' \in Asking /\ asked'.kind = "off" /\ ~asked'.repainted
  BY <1>3, RequestFields, LevelsAreNatural DEF Kind
<1>5. lamp' \in Nat /\ stale' \in BOOLEAN /\ age' \in Nat
  <2>1. lamp' \in {lamp, 0} /\ age' = 0
    BY <1>3
  <2>2. stale' \in BOOLEAN
    BY DEF Initialize, Write, LedTypes
  <2> QED BY <2>1, <2>2 DEF LedTypes
<1> QED BY <1>2, <1>3, <1>4, <1>5 DEF LedTypes, Follows, Seen, Lasts

LEMMA OffKeeps ==
  ASSUME LedInv, Off
  PROVE  LedInv'
<1> USE DEF LedInv
<1> DEFINE s == [led EXCEPT !.blinking = FALSE, !.on = FALSE]
<1>1. s \in Led /\ ~s.blinking /\ ~s.on /\ s.initialized
  BY DEF Off, LedTypes, Led
<1>2. Show(s, 0) /\ led.initialized
  BY DEF Off
<1> HIDE DEF s
<1>3. /\ led' \in Led /\ lamp' \in Nat /\ stale' \in BOOLEAN
      /\ board = "none" => /\ ~led'.on /\ ~led'.blinking /\ lamp' = lamp
                           /\ led'.initialized <=> led.initialized
      /\ board # "none" => led' = s /\ (stale' \/ lamp' = 0)
  BY <1>1, <1>2, ShowMoves
<1>4. asked' = Request("off", 0, 1, 1) /\ age' = 0 /\ board' = board
  BY DEF Off, Asked
<1>5. asked' \in Asking /\ asked'.kind = "off" /\ ~asked'.repainted
  BY <1>4, RequestFields, LevelsAreNatural DEF Kind
<1> QED BY <1>1, <1>2, <1>3, <1>4, <1>5 DEF LedTypes, Follows, Seen, Lasts

LEMMA SolidKeeps ==
  ASSUME LedInv, NEW c \in Level, Solid(c)
  PROVE  LedInv'
<1> USE DEF LedInv
<1> DEFINE b == c # 0
           s == [led EXCEPT !.blinking = FALSE, !.color = c, !.on = b]
           l == Scale(c, led.brightness)
<1>1. Show(s, l) /\ led.initialized
  BY DEF Solid
<1>2. b \in BOOLEAN /\ (b <=> c # 0)
  OBVIOUS
<1> HIDE DEF b
<1>3. /\ s \in Led /\ ~s.blinking /\ (s.on <=> b) /\ s.initialized /\ s.color = c
      /\ s.brightness = led.brightness
  BY <1>1, <1>2 DEF LedTypes, Led
<1>4. l \in Nat
  BY ScaleIsNatural DEF LedTypes, Led
<1> HIDE DEF s
<1>5. /\ led' \in Led /\ lamp' \in Nat /\ stale' \in BOOLEAN
      /\ board = "none" => /\ ~led'.on /\ ~led'.blinking /\ lamp' = lamp
                           /\ led'.initialized <=> led.initialized
      /\ board # "none" => led' = s /\ (stale' \/ lamp' = l)
  BY <1>1, <1>3, <1>4, ShowMoves
<1>6. asked' = Request("solid", c, 1, 1) /\ age' = 0 /\ board' = board
  BY DEF Solid, Asked
<1>7. asked' \in Asking /\ asked'.kind = "solid" /\ ~asked'.repainted /\ asked'.color = c
  BY <1>6, RequestFields DEF Kind
<1>8. Scale(asked'.color, led.brightness) = l /\ (c = 0 => l = 0)
  <2>1. Scale(0, led.brightness) = 0
    BY NoColorNoLight DEF LedTypes, Led
  <2> QED BY <1>7, <2>1
<1>9. LedTypes' /\ Lasts'
  BY <1>3, <1>5, <1>6, <1>7 DEF LedTypes, Lasts
<1>10. Follows'
  BY <1>1, <1>2, <1>3, <1>5, <1>6, <1>7 DEF Follows
<1>11. Seen'
  BY <1>3, <1>5, <1>6, <1>7, <1>8 DEF Seen, Scale
<1> QED BY <1>9, <1>10, <1>11

LEMMA BlinkKeeps ==
  ASSUME LedInv, NEW c \in Level, NEW onMs \in Nat, NEW offMs \in Nat, Blink(c, onMs, offMs)
  PROVE  LedInv'
<1> USE DEF LedInv
<1> DEFINE m == AtLeastOne(onMs)
           n == AtLeastOne(offMs)
           s == [led EXCEPT !.blinking = TRUE, !.phase = TRUE, !.on = TRUE, !.blinkColor = c,
                            !.onMs = m, !.offMs = n, !.left = m]
           l == Scale(c, led.brightness)
<1>1. /\ Show(s, l) /\ led.initialized
      /\ asked' = Request("blink", c, m, n) /\ age' = 0 /\ board' = board
  BY DEF Blink, Asked
<1>2. m \in Nat /\ n \in Nat
  BY DEF AtLeastOne
<1> HIDE DEF m, n
<1>3. /\ s \in Led /\ s.blinking /\ s.phase /\ s.on /\ s.initialized /\ s.blinkColor = c
      /\ s.onMs = m /\ s.offMs = n /\ s.left = m /\ s.brightness = led.brightness
  BY <1>1, <1>2 DEF LedTypes, Led
<1>4. l \in Nat
  BY ScaleIsNatural DEF LedTypes, Led
<1> HIDE DEF s
<1>5. /\ led' \in Led /\ lamp' \in Nat /\ stale' \in BOOLEAN
      /\ board = "none" => /\ ~led'.on /\ ~led'.blinking /\ lamp' = lamp
                           /\ led'.initialized <=> led.initialized
      /\ board # "none" => led' = s /\ (stale' \/ lamp' = l)
  BY <1>1, <1>3, <1>4, ShowMoves
<1>6. /\ asked' \in Asking /\ asked'.kind = "blink" /\ ~asked'.repainted /\ asked'.color = c
      /\ asked'.onMs = m /\ asked'.offMs = n
  BY <1>1, <1>2, RequestFields DEF Kind
<1>7. LedTypes'
  BY <1>1, <1>5, <1>6 DEF LedTypes
<1>8. Follows'
  BY <1>1, <1>3, <1>5, <1>6 DEF Follows
<1>9. Seen'
  BY <1>1, <1>3, <1>5, <1>6 DEF Seen, Scale
<1>10. Lasts'
  BY <1>1, <1>2, <1>3, <1>5, <1>6 DEF Lasts
<1> QED BY <1>7, <1>8, <1>9, <1>10

LEMMA BrightnessKeeps ==
  ASSUME LedInv, NEW b \in Level, SetBrightness(b)
  PROVE  LedInv'
<1> USE DEF LedInv
<1> DEFINE p == led.on
<1>1. /\ board = "rgb" /\ board' = board /\ age' = age
      /\ led' = [led EXCEPT !.brightness = b]
      /\ asked' = [asked EXCEPT !.repainted = p]
  BY DEF SetBrightness
<1>2. p \in BOOLEAN /\ (p <=> led.on)
  BY DEF LedTypes, Led
<1> HIDE DEF p
<1>3. /\ led' \in Led /\ led'.brightness = b
      /\ led'.initialized <=> led.initialized
      /\ led'.on <=> led.on
      /\ led'.blinking <=> led.blinking
      /\ led'.phase <=> led.phase
      /\ led'.color = led.color /\ led'.blinkColor = led.blinkColor
      /\ led'.onMs = led.onMs /\ led'.offMs = led.offMs /\ led'.left = led.left
  BY <1>1 DEF LedTypes, Led
<1>4. /\ asked' \in Asking /\ (asked'.repainted <=> p)
      /\ asked'.kind = asked.kind /\ asked'.color = asked.color
      /\ asked'.onMs = asked.onMs /\ asked'.offMs = asked.offMs
  BY <1>1, <1>2 DEF LedTypes, Asking
<1>5. lamp' \in Nat /\ stale' \in BOOLEAN
  <2>1. Scale(led.color, b) \in Nat
    BY ScaleIsNatural DEF LedTypes, Led
  <2>2. lamp' \in {lamp, Scale(led.color, b)}
    BY DEF SetBrightness, Write
  <2>3. stale' \in BOOLEAN
    BY DEF SetBrightness, Write, LedTypes
  <2> QED BY <2>1, <2>2, <2>3 DEF LedTypes
<1>6. LedTypes'
  BY <1>1, <1>3, <1>4, <1>5 DEF LedTypes
<1>7. Follows'
  BY <1>1, <1>2, <1>3, <1>4 DEF Follows
<1>8. Lasts'
  BY <1>1, <1>3, <1>4 DEF Lasts
<1>9. Seen'
  <2>1. CASE led.on
    BY <1>1, <1>2, <1>3, <1>4, <2>1 DEF Seen, Follows
  <2>2. CASE led.initialized /\ ~led.on
    <3>1. lamp' = lamp /\ (stale' <=> stale)
      BY <2>2 DEF SetBrightness
    <3>2. /\ asked.kind = "solid" => asked.color = 0
          /\ asked.kind = "blink" => ~led.phase
      BY <1>1, <2>2 DEF Follows
    <3> QED BY <1>1, <1>3, <1>4, <2>2, <3>1, <3>2 DEF Seen
  <2>3. CASE ~led.initialized
    BY <1>3, <2>3 DEF Seen
  <2> QED BY <2>1, <2>2, <2>3
<1> QED BY <1>6, <1>7, <1>8, <1>9

LEMMA UpdateKeeps ==
  ASSUME LedInv, Update
  PROVE  /\ LedInv'
         /\ age >= IF led.phase THEN asked.onMs ELSE asked.offMs
<1> USE DEF LedInv
<1>1. led.initialized /\ led.blinking /\ led.left = 0 /\ board # "none"
  BY DEF Update, Follows
<1>2. age >= IF led.phase THEN asked.onMs ELSE asked.offMs
  BY <1>1 DEF Lasts, LedTypes, Led, Asking
<1> DEFINE lit == ~led.phase
           next == IF lit THEN led.onMs ELSE led.offMs
           s == [led EXCEPT !.phase = lit, !.on = lit, !.left = next]
           l == IF lit THEN Scale(led.blinkColor, led.brightness) ELSE 0
<1>3. /\ Show(s, l)
      /\ asked' = [asked EXCEPT !.changed = TRUE, !.repainted = FALSE]
      /\ age' = 0 /\ board' = board
  BY DEF Update, Asked
<1>4. lit \in BOOLEAN /\ next \in Nat /\ l \in Nat /\ (lit <=> ~led.phase)
  <2>1. led.onMs \in Nat /\ led.offMs \in Nat /\ Scale(led.blinkColor, led.brightness) \in Nat
    BY ScaleIsNatural DEF LedTypes, Led
  <2> QED BY <2>1
<1>5. /\ lit => next = led.onMs /\ l = Scale(led.blinkColor, led.brightness)
      /\ ~lit => next = led.offMs /\ l = 0
  OBVIOUS
<1> HIDE DEF lit, next, l
<1>6. /\ s \in Led /\ (s.phase <=> lit) /\ (s.on <=> lit) /\ s.left = next
      /\ s.initialized /\ s.blinking
      /\ s.blinkColor = led.blinkColor /\ s.brightness = led.brightness
      /\ s.onMs = led.onMs /\ s.offMs = led.offMs /\ s.color = led.color
  BY <1>1, <1>4 DEF LedTypes, Led
<1> HIDE DEF s
<1>7. /\ led' \in Led /\ lamp' \in Nat /\ stale' \in BOOLEAN
      /\ led' = s /\ (stale' \/ lamp' = l)
  BY <1>1, <1>3, <1>4, <1>6, ShowMoves
<1>8. /\ asked' \in Asking /\ ~asked'.repainted
      /\ asked'.kind = asked.kind /\ asked'.color = asked.color
      /\ asked'.onMs = asked.onMs /\ asked'.offMs = asked.offMs
  BY <1>3 DEF LedTypes, Asking
<1>9. asked.kind = "blink" /\ led.blinkColor = asked.color
      /\ led.onMs = asked.onMs /\ led.offMs = asked.offMs
  BY <1>1 DEF Follows, Lasts
<1>10. LedTypes'
  BY <1>3, <1>7, <1>8 DEF LedTypes
<1>11. Follows'
  BY <1>1, <1>3, <1>6, <1>7, <1>8, <1>9 DEF Follows
<1>12. Seen'
  BY <1>1, <1>3, <1>5, <1>6, <1>7, <1>8, <1>9 DEF Seen, Scale
<1>13. Lasts'
  BY <1>3, <1>4, <1>5, <1>6, <1>7, <1>8, <1>9 DEF Lasts
<1> QED BY <1>2, <1>10, <1>11, <1>12, <1>13

LEMMA TickKeeps ==
  ASSUME LedInv, Tick
  PROVE  LedInv'
<1> USE DEF LedInv
<1> DEFINE n == IF led.left > 0 THEN led.left - 1 ELSE 0
<1>1. /\ led' = [led EXCEPT !.left = n] /\ age' = age + 1
      /\ UNCHANGED <<board, lamp, stale, asked>>
  BY DEF Tick
<1>2. n \in Nat /\ n >= led.left - 1 /\ led.left \in Nat /\ age \in Nat
  BY DEF LedTypes, Led
<1> HIDE DEF n
<1>3. /\ led' \in Led /\ led'.left = n /\ led'.brightness = led.brightness
      /\ led'.initialized <=> led.initialized
      /\ led'.on <=> led.on
      /\ led'.blinking <=> led.blinking
      /\ led'.phase <=> led.phase
      /\ led'.color = led.color /\ led'.blinkColor = led.blinkColor
      /\ led'.onMs = led.onMs /\ led'.offMs = led.offMs
  BY <1>1, <1>2 DEF LedTypes, Led
<1>4. LedTypes'
  BY <1>1, <1>2, <1>3 DEF LedTypes
<1>5. Follows'
  BY <1>1, <1>3 DEF Follows
<1>6. Seen'
  BY <1>1, <1>3 DEF Seen, Scale
<1>7. Lasts'
  <2>1. led.onMs \in Nat /\ led.offMs \in Nat
    BY DEF LedTypes, Led
  <2> QED BY <1>1, <1>2, <1>3, <2>1 DEF Lasts
<1> QED BY <1>4, <1>5, <1>6, <1>7

-----------------------------------------------------------------------------
(* The invariant, and what follows from it. *)

LEMMA Arguments == Colors \subseteq Level /\ Durations \subseteq Nat
BY FullAssumption, DurationsAssumption DEF Colors, Level

LEMMA LedInvStep == LedInv /\ [LedNext]_ledVars => LedInv'
<1> SUFFICES ASSUME LedInv, [LedNext]_ledVars
             PROVE  LedInv'
  OBVIOUS
<1>1. CASE Initialize
  BY <1>1, InitializeKeeps
<1>2. CASE Off
  BY <1>2, OffKeeps
<1>3. CASE Toggle
  BY <1>3, OffKeeps, SolidKeeps, LevelsAreNatural DEF Toggle
<1>4. ASSUME NEW c \in Colors, Solid(c)
      PROVE  LedInv'
  BY <1>4, SolidKeeps, Arguments
<1>5. ASSUME NEW c \in Colors, NEW onMs \in Durations, NEW offMs \in Durations,
             Blink(c, onMs, offMs)
      PROVE  LedInv'
  <2>1. c \in Level /\ onMs \in Nat /\ offMs \in Nat
    BY Arguments
  <2> QED BY <1>5, <2>1, BlinkKeeps
<1>6. ASSUME NEW b \in Level, SetBrightness(b)
      PROVE  LedInv'
  BY <1>6, BrightnessKeeps
<1>7. CASE Update
  BY <1>7, UpdateKeeps
<1>8. CASE Tick
  BY <1>8, TickKeeps
<1>9. CASE UNCHANGED ledVars
  BY <1>9 DEF ledVars, LedInv, LedTypes, Follows, Seen, Lasts, Scale
<1> QED BY <1>1, <1>2, <1>3, <1>4, <1>5, <1>6, <1>7, <1>8, <1>9 DEF LedNext

LEMMA LedInvAlways == LedSpec => []LedInv
BY LedInvInit, LedInvStep, PTL DEF LedSpec

\* The LED is on just when the last command asks for light, even if writes fail,
\* and shows that command and nothing else, unless the last write failed or the
\* brightness of the light it shows was changed.
THEOREM LampAlwaysFollows == LedSpec => []LampFollowsCommand
<1>1. ASSUME LedInv
      PROVE  LampFollowsCommand
  <2> USE <1>1 DEF LedInv
  <2>1. board = "none" => lamp = 0 /\ ~led.on
    BY DEF Follows
  <2> SUFFICES ASSUME led.initialized, board # "none"
               PROVE  /\ led.blinking = (asked.kind = "blink")
                      /\ led.on = Lit
                      /\ ~stale /\ ~Lit => lamp = 0
                      /\ ~stale /\ Lit /\ ~asked.repainted =>
                           lamp = Scale(asked.color, led.brightness)
    BY <2>1 DEF LampFollowsCommand
  <2>2. led.blinking = (asked.kind = "blink")
    <3>1. led.blinking \in BOOLEAN
      BY DEF LedTypes, Led
    <3>2. led.blinking <=> asked.kind = "blink"
      BY DEF Follows
    <3> QED BY <3>1, <3>2
  <2>3. asked.kind \in {"off", "solid", "blink"}
    BY DEF Follows, LedTypes, Asking, Kind
  <2>4. led.on = Lit
    <3>1. led.on \in BOOLEAN /\ Lit \in BOOLEAN
      BY DEF LedTypes, Led, Lit
    <3>2. led.on <=> Lit
      BY <2>3 DEF Follows, Lit
    <3> QED BY <3>1, <3>2
  <2>5. /\ ~stale /\ ~Lit => lamp = 0
        /\ ~stale /\ Lit /\ ~asked.repainted => lamp = Scale(asked.color, led.brightness)
    BY <2>3 DEF Seen, Lit
  <2> QED BY <2>2, <2>4, <2>5
<1> QED BY <1>1, LedInvAlways, PTL

\* A phase of a blink lasts as long as was asked for it, however often and however
\* late ledcontroller_update is called.
THEOREM PhasesAlwaysLast == LedSpec => PhasesLast
<1> DEFINE Last == asked'.changed /\ led'.phase # led.phase
                     => age >= IF led.phase THEN asked.onMs ELSE asked.offMs
<1>1. ASSUME LedInv, [LedNext]_ledVars
      PROVE  Last
  <2> USE <1>1
  <2>1. led \in Led /\ asked \in Asking
    BY DEF LedInv, LedTypes
  <2>2. ASSUME NEW kind \in Kind, NEW c \in Level, NEW onMs \in Nat, NEW offMs \in Nat,
               Asked(Request(kind, c, onMs, offMs))
        PROVE  ~asked'.changed
    BY <2>2, RequestFields DEF Asked
  <2>3. CASE Initialize \/ Off
    BY <2>2, <2>3, LevelsAreNatural DEF Initialize, Off, Kind
  <2>4. ASSUME NEW c \in Level, Solid(c)
        PROVE  Last
    BY <2>2, <2>4 DEF Solid, Kind
  <2>5. CASE Toggle
    BY <2>3, <2>4, <2>5, LevelsAreNatural DEF Toggle
  <2>6. ASSUME NEW c \in Colors, NEW onMs \in Durations, NEW offMs \in Durations,
               Blink(c, onMs, offMs)
        PROVE  Last
    <3>1. c \in Level /\ AtLeastOne(onMs) \in Nat /\ AtLeastOne(offMs) \in Nat
      BY Arguments DEF AtLeastOne
    <3>2. Asked(Request("blink", c, AtLeastOne(onMs), AtLeastOne(offMs)))
      BY <2>6 DEF Blink
    <3> QED BY <2>2, <3>1, <3>2 DEF Kind
  <2>7. ASSUME NEW b \in Level, SetBrightness(b)
        PROVE  Last
    <3>1. led' = [led EXCEPT !.brightness = b]
      BY <2>7 DEF SetBrightness
    <3> QED BY <2>1, <3>1 DEF Led
  <2>8. CASE Update
    BY <2>8, UpdateKeeps
  <2>9. CASE Tick
    <3>1. led' = [led EXCEPT !.left = IF led.left > 0 THEN led.left - 1 ELSE 0]
      BY <2>9 DEF Tick
    <3> QED BY <2>1, <3>1 DEF Led
  <2>10. CASE UNCHANGED ledVars
    BY <2>10 DEF ledVars
  <2> QED BY <2>3, <2>4, <2>5, <2>6, <2>7, <2>8, <2>9, <2>10, Arguments DEF LedNext
<1>2. LedInv /\ [LedNext]_ledVars => [Last]_ledVars
  BY <1>1
<1> QED BY <1>2, LedInvAlways, PTL DEF LedSpec, PhasesLast
===============================================================================
