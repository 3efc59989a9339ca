--------------------------- MODULE GameTimeProofs ---------------------------
(***************************************************************************)
(* Theorems about GameTime and the piezo task in it, for every debounce    *)
(* time, every width of a half and every set of game times: no impact is   *)
(* missed and none clicks three times, and a game time that is set while   *)
(* it is read is torn only if its high half changes.                       *)
(*                                                                         *)
(* PiezoInv accounts for the time between an impact and its clicks: what   *)
(* has gone by unheard and what is left of the delay make a debounce time  *)
(* at most, and after the first click of an impact its ringing ends before *)
(* the delay does.  ReadInv says of every half that is stored or loaded    *)
(* which of the values in force it belongs to.                             *)
(***************************************************************************)
EXTENDS GameTime, TLAPS

PiezoInv ==
  /\ PiezoTypeOK
  /\ piezo.armed => piezo.created
  /\ impact.unheard >= 0 => piezo.notified
  /\ piezo.at = "click" => impact.unheard <= 0
  /\ piezo.at = "sleep" => impact.unheard + piezo.left <= Debounce
  /\ impact.clicks <= 2
  /\ impact.clicks = 1 => /\ piezo.at = "sleep" => impact.ringing <= piezo.left
                          /\ piezo.at = "take" => impact.ringing = 0
  /\ impact.clicks = 2 => impact.ringing = 0 /\ ~piezo.notified

PiezoState == [created : BOOLEAN, armed : BOOLEAN, notified : BOOLEAN,
               at : {"take", "click", "sleep"}, left : 0 .. Debounce]
Impact     == [ringing : 0 .. Ring, unheard : Heard .. Debounce, clicks : 0 .. 3]

LEMMA Quantities == /\ Debounce \in Nat /\ Debounce > 1 /\ Ring \in Nat /\ Ring + 2 <= Debounce
                    /\ Heard \in Int /\ Heard < 0 /\ Heard + 1 >= 0
BY DebounceAssumption, RingAssumption DEF Heard

LEMMA PiezoStarts ==
  ASSUME piezo = NoPiezo, impact = Quiet
  PROVE  PiezoInv
<1>1. /\ piezo \in PiezoState /\ ~piezo.armed /\ ~piezo.notified /\ piezo.at = "take"
      /\ impact \in Impact /\ impact.ringing = 0 /\ impact.clicks = 0 /\ impact.unheard = Heard
  BY Quantities DEF NoPiezo, Quiet, PiezoState, Impact
<1> QED BY <1>1, Quantities DEF PiezoInv, PiezoTypeOK, PiezoState, Impact

LEMMA PiezoFields ==
  ASSUME PiezoInv
  PROVE  /\ piezo \in PiezoState /\ impact \in Impact
         /\ piezo.left \in 0 .. Debounce /\ impact.ringing \in 0 .. Ring
         /\ impact.unheard \in Heard .. Debounce /\ impact.clicks \in 0 .. 2
         /\ piezo.created \in BOOLEAN /\ piezo.armed \in BOOLEAN /\ piezo.notified \in BOOLEAN
         /\ piezo.at \in {"take", "click", "sleep"}
BY DEF PiezoInv, PiezoTypeOK, PiezoState, Impact

LEMMA CreateKeeps ==
  ASSUME PiezoInv, CreateTask
  PROVE  PiezoInv'
<1>1. piezo' = [piezo EXCEPT !.created = TRUE] /\ impact' = impact
  BY DEF CreateTask
<1>2. /\ piezo' \in PiezoState /\ piezo'.created
      /\ piezo'.armed <=> piezo.armed
      /\ piezo'.notified <=> piezo.notified
      /\ piezo'.at = piezo.at /\ piezo'.left = piezo.left
  BY <1>1, PiezoFields DEF PiezoState
<1> QED BY <1>1, <1>2 DEF PiezoInv, PiezoTypeOK, PiezoState

LEMMA AddHandlerKeeps ==
  ASSUME PiezoInv, AddHandler
  PROVE  PiezoInv'
<1>1. piezo' = [piezo EXCEPT !.armed = TRUE] /\ impact' = impact /\ piezo.created
  BY DEF AddHandler
<1>2. /\ piezo' \in PiezoState /\ piezo'.created
      /\ piezo'.notified <=> piezo.notified
      /\ piezo'.at = piezo.at /\ piezo'.left = piezo.left
  BY <1>1, PiezoFields DEF PiezoState
<1> QED BY <1>1, <1>2 DEF PiezoInv, PiezoTypeOK, PiezoState

LEMMA NotifyMoves ==
  ASSUME PiezoInv, Notify, piezo.armed
  PROVE  /\ piezo' \in PiezoState /\ piezo'.notified
         /\ piezo'.created <=> piezo.created
         /\ piezo'.armed <=> piezo.armed
         /\ piezo'.at = piezo.at /\ piezo'.left = piezo.left
<1> DEFINE b == piezo.notified \/ piezo.created
<1>1. piezo' = [piezo EXCEPT !.notified = b]
  BY DEF Notify
<1>2. b \in BOOLEAN /\ b
  BY DEF PiezoInv
<1> HIDE DEF b
<1> QED BY <1>1, <1>2, PiezoFields DEF PiezoState

LEMMA HitKeeps ==
  ASSUME PiezoInv, Hit
  PROVE  PiezoInv'
<1> DEFINE n == IF impact.unheard = Heard THEN 0 ELSE impact.unheard
<1>1. Notify /\ piezo.armed /\ impact' = [ringing |-> Ring, clicks |-> 0, unheard |-> n]
  BY DEF Hit
<1>2. n \in 0 .. Debounce /\ (impact.unheard <= 0 => n = 0)
      /\ (n = impact.unheard \/ n = 0)
  BY PiezoFields, Quantities
<1> HIDE DEF n
<1>3. /\ impact' \in Impact /\ impact'.ringing = Ring /\ impact'.clicks = 0
      /\ impact'.unheard = n
  BY <1>1, <1>2, Quantities DEF Impact
<1>4. /\ piezo' \in PiezoState /\ piezo'.notified
      /\ piezo'.created <=> piezo.created
      /\ piezo'.armed <=> piezo.armed
      /\ piezo'.at = piezo.at /\ piezo'.left = piezo.left
  BY <1>1, NotifyMoves
<1>5. piezo.at = "sleep" => n + piezo.left <= Debounce
  BY <1>2, PiezoFields, Quantities DEF PiezoInv
<1> QED BY <1>2, <1>3, <1>4, <1>5, PiezoFields DEF PiezoInv, PiezoTypeOK, PiezoState, Impact

LEMMA BounceKeeps ==
  ASSUME PiezoInv, Bounce
  PROVE  PiezoInv'
<1>1. Notify /\ piezo.armed /\ impact' = impact /\ impact.ringing > 0
  BY DEF Bounce
<1>2. /\ piezo' \in PiezoState /\ piezo'.notified
      /\ piezo'.created <=> piezo.created
      /\ piezo'.armed <=> piezo.armed
      /\ piezo'.at = piezo.at /\ piezo'.left = piezo.left
  BY <1>1, NotifyMoves
<1>3. impact.clicks # 2
  BY <1>1 DEF PiezoInv
<1> QED BY <1>1, <1>2, <1>3 DEF PiezoInv, PiezoTypeOK, PiezoState

LEMMA TakeKeeps ==
  ASSUME PiezoInv, Take
  PROVE  PiezoInv'
<1> DEFINE n == AtMost(impact.clicks + 1, 3)
<1>1. /\ piezo.created /\ piezo.at = "take" /\ piezo.notified
      /\ piezo' = [piezo EXCEPT !.notified = FALSE, !.at = "click"]
      /\ impact' = [impact EXCEPT !.unheard = Heard, !.clicks = n]
  BY DEF Take
<1>2. impact.clicks \in {0, 1} /\ n = impact.clicks + 1
  <2>1. impact.clicks \in {0, 1}
    BY <1>1, PiezoFields DEF PiezoInv
  <2> QED BY <2>1 DEF AtMost
<1> HIDE DEF n
<1>3. /\ piezo' \in PiezoState /\ ~piezo'.notified /\ piezo'.created
      /\ piezo'.at = "click" /\ piezo'.left = piezo.left
  BY <1>1, PiezoFields DEF PiezoState
<1>4. /\ impact' \in Impact /\ impact'.ringing = impact.ringing
      /\ impact'.clicks = impact.clicks + 1 /\ impact'.unheard = Heard
  <2>1. impact \in Impact /\ n \in 0 .. 3 /\ Heard \in Heard .. Debounce
    BY <1>2, PiezoFields, Quantities
  <2> QED BY <1>1, <1>2, <2>1 DEF Impact
<1>5. impact.clicks = 1 => impact.ringing = 0
  BY <1>1 DEF PiezoInv
<1> QED BY <1>2, <1>3, <1>4, <1>5, Quantities DEF PiezoInv, PiezoTypeOK, PiezoState, Impact

LEMMA SleepKeeps ==
  ASSUME PiezoInv, Sleep
  PROVE  PiezoInv'
<1>1. PICK d \in {Debounce - 1, Debounce} : piezo' = [piezo EXCEPT !.at = "sleep", !.left = d]
  BY DEF Sleep
<1>2. piezo.at = "click" /\ impact' = impact
  BY DEF Sleep
<1>3. d \in 0 .. Debounce /\ d >= Ring
  BY Quantities
<1>4. /\ piezo' \in PiezoState /\ piezo'.at = "sleep" /\ piezo'.left = d
      /\ piezo'.created <=> piezo.created
      /\ piezo'.armed <=> piezo.armed
      /\ piezo'.notified <=> piezo.notified
  BY <1>1, <1>3, PiezoFields DEF PiezoState
<1>5. impact.unheard + d <= Debounce /\ impact.ringing <= d
  BY <1>2, <1>3, PiezoFields, Quantities DEF PiezoInv
<1> QED BY <1>2, <1>4, <1>5 DEF PiezoInv, PiezoTypeOK, PiezoState

LEMMA WakeKeeps ==
  ASSUME PiezoInv, Wake
  PROVE  PiezoInv'
<1>1. /\ piezo.at = "sleep" /\ piezo.left = 0 /\ impact' = impact
      /\ piezo' = [piezo EXCEPT !.at = "take"]
  BY DEF Wake
<1>2. /\ piezo' \in PiezoState /\ piezo'.at = "take" /\ piezo'.left = 0
      /\ piezo'.created <=> piezo.created
      /\ piezo'.armed <=> piezo.armed
      /\ piezo'.notified <=> piezo.notified
  BY <1>1, PiezoFields DEF PiezoState
<1>3. impact.clicks = 1 => impact.ringing = 0
  BY <1>1, PiezoFields, Quantities DEF PiezoInv
<1> QED BY <1>1, <1>2, <1>3 DEF PiezoInv, PiezoTypeOK, PiezoState

LEMMA TickOfPiezoKeeps ==
  ASSUME PiezoInv, PiezoTick
  PROVE  PiezoInv'
<1> DEFINE n == IF impact.unheard = Heard THEN Heard ELSE impact.unheard + 1
           l == Down(piezo.left)
           r == Down(impact.ringing)
<1>1. /\ piezo' = [piezo EXCEPT !.left = l]
      /\ impact' = [impact EXCEPT !.ringing = r, !.unheard = n]
  BY DEF PiezoTick
<1>2. \/ piezo.at = "take" /\ ~piezo.notified
      \/ piezo.at = "sleep" /\ piezo.left > 0
  BY DEF PiezoTick, Idle
<1>3. /\ l \in 0 .. Debounce /\ l <= piezo.left /\ (piezo.left > 0 => l = piezo.left - 1)
      /\ r \in 0 .. Ring /\ r <= impact.ringing /\ (impact.ringing > 0 => r = impact.ringing - 1)
  BY PiezoFields, Quantities DEF Down
<1>4. /\ n \in Heard .. Debounce
      /\ impact.unheard < 0 => n = Heard
      /\ n >= 0 => piezo.at = "sleep" /\ piezo.notified /\ n = impact.unheard + 1
  BY <1>2, PiezoFields, Quantities DEF PiezoInv
<1> HIDE DEF l, r, n
<1>5. /\ piezo' \in PiezoState /\ piezo'.left = l /\ piezo'.at = piezo.at
      /\ piezo'.created <=> piezo.created
      /\ piezo'.armed <=> piezo.armed
      /\ piezo'.notified <=> piezo.notified
  BY <1>1, <1>3, PiezoFields DEF PiezoState
<1>6. /\ impact' \in Impact /\ impact'.ringing = r /\ impact'.unheard = n
      /\ impact'.clicks = impact.clicks
  BY <1>1, <1>3, <1>4, PiezoFields DEF Impact
<1>7. piezo.at = "sleep" => n + l <= Debounce
  BY <1>2, <1>3, <1>4, PiezoFields, Quantities DEF PiezoInv
<1>8. impact.clicks = 1 => /\ piezo.at = "sleep" => r <= l
                           /\ piezo.at = "take" => r = 0
  BY <1>2, <1>3, PiezoFields, Quantities DEF PiezoInv
<1>9. impact.clicks = 2 => r = 0
  BY <1>3, PiezoFields, Quantities DEF PiezoInv
<1>10. PiezoTypeOK'
  BY <1>5, <1>6 DEF PiezoTypeOK, PiezoState, Impact
<1> QED BY <1>2, <1>4, <1>5, <1>6, <1>7, <1>8, <1>9, <1>10 DEF PiezoInv

\* The piezo as a part of GameTime.
LEMMA PiezoInvStep == PiezoInv /\ [TimeNext]_timeVars => PiezoInv'
<1> SUFFICES ASSUME PiezoInv, [TimeNext]_timeVars
             PROVE  PiezoInv'
  OBVIOUS
<1>1. ASSUME UNCHANGED <<piezo, impact>>
      PROVE  PiezoInv'
  BY <1>1 DEF PiezoInv, PiezoTypeOK
<1>2. CASE PiezoStep
  BY <1>2, CreateKeeps, AddHandlerKeeps, HitKeeps, BounceKeeps, TakeKeeps, WakeKeeps
     DEF PiezoStep
<1>3. ASSUME NEW t \in SetTimes, BeginCommand(t, TRUE) \/ Heartbeat(t)
      PROVE  PiezoInv'
  BY <1>1, <1>3 DEF BeginCommand, Heartbeat, BeginStore
<1>4. CASE BeginCommand(0, FALSE) \/ Broadcast \/ Lose \/ Restart \/ Receive \/ BeginRead
  BY <1>1, <1>4 DEF BeginCommand, Broadcast, Lose, Restart, Receive, BeginStore, BeginRead
<1>5. CASE Reboot
  <2>1. (piezo = NoPiezo /\ impact = Quiet => PiezoInv)'
    BY PiezoStarts, PTL
  <2> QED BY <1>5, <2>1 DEF Reboot, NoPiezo, Quiet, Heard
<1>6. ASSUME NEW h \in Both, StoreHalf(h) \/ Load(h)
      PROVE  PiezoInv'
  BY <1>1, <1>6 DEF StoreHalf, Load
<1>7. CASE PushClick
  BY <1>7, SleepKeeps DEF PushClick
<1>8. CASE Tick
  BY <1>8, TickOfPiezoKeeps DEF Tick
<1>9. CASE UNCHANGED timeVars
  BY <1>1, <1>9 DEF timeVars
<1> QED BY <1>2, <1>3, <1>4, <1>5, <1>6, <1>7, <1>8, <1>9 DEF TimeNext

LEMMA PiezoInvAlways == TimeSpec => []PiezoInv
<1>1. TimeInit => PiezoInv
  BY PiezoStarts DEF TimeInit, PiezoInit
<1> QED BY <1>1, PiezoInvStep, PTL DEF TimeSpec

\* Every impact starts a click within the debounce time, and none makes three.
THEOREM ImpactsAlwaysClick == TimeSpec => []ImpactClicks
<1>1. PiezoInv => ImpactClicks
  BY PiezoFields DEF PiezoInv, ImpactClicks
<1> QED BY <1>1, PiezoInvAlways, PTL

-----------------------------------------------------------------------------
(* Instants and halves. *)

Message == [t : SetTimes, from : Instant, age : 0 .. Delay]
Reading == [busy : BOOLEAN, todo : SUBSET Both, got : Pieces, values : SUBSET Int,
            clean : BOOLEAN]
Storing == [todo : SUBSET Both, old : Int, new : Instant, from : SUBSET Instant]
Commanding == [busy : BOOLEAN, t : SetTimes, sync : BOOLEAN, age : 0 .. Delay]

LEMMA StartsAreInstants ==
  ASSUME now \in 0 .. MaxNow, NEW t \in SetTimes
  PROVE  StartFor(t) \in Instant
<1>1. t \in 0 .. TimeMod - 1 /\ TimeMod \in Nat /\ K \in Nat /\ MaxNow \in Nat
  BY TimesAssumption, WidthAssumption, BoundsAssumption
<1>2. t * K >= 0 /\ t * K <= TimeMod * K /\ t * K \in Nat /\ TimeMod * K \in Nat
  <2>1. t \in Nat /\ TimeMod - t \in Nat
    BY <1>1
  <2>2. (TimeMod - t) * K >= 0 /\ t * K >= 0
    BY <1>1, <2>1
  <2>3. (TimeMod - t) * K = TimeMod * K - t * K
    BY <1>1, <2>1
  <2> QED BY <1>1, <2>1, <2>2, <2>3
<1> DEFINE p == t * K
           q == TimeMod * K
<1> HIDE DEF p, q
<1>3. now - p \in -q .. MaxNow
  BY <1>1, <1>2 DEF p, q
<1> QED BY <1>3 DEF StartFor, Instant, p, q

LEMMA InstantsAreIntegers == /\ Instant \subseteq Int
                             /\ \A v \in 0 .. MaxNow : v \in Instant
                             /\ 0 \in Instant
<1> DEFINE q == TimeMod * K
<1>1. q \in Nat /\ MaxNow \in Nat
  BY WidthAssumption, BoundsAssumption
<1> HIDE DEF q
<1>2. /\ -q .. MaxNow \subseteq Int
      /\ \A v \in 0 .. MaxNow : v \in -q .. MaxNow
      /\ 0 \in -q .. MaxNow
  BY <1>1
<1> QED BY <1>2 DEF Instant, q

LEMMA HalvesArePieces ==
  ASSUME NEW v \in Instant
  PROVE  /\ Halves(v) \in Pieces
         /\ Halves(v)["hi"] = v \div W /\ Halves(v)["lo"] = v % W
<1>1. v \in Int /\ W \in Nat /\ W > 0
  BY InstantsAreIntegers, WidthAssumption
<1>2. v % W \in 0 .. W - 1 /\ v \div W \in Int
  BY <1>1
<1> QED BY <1>2 DEF Halves, Pieces

LEMMA PiecesAreIntegers ==
  ASSUME NEW h \in Pieces
  PROVE  /\ h["hi"] \in Int /\ h["lo"] \in Int /\ Whole(h) \in Int
<1>1. W \in Nat /\ W > 0
  BY WidthAssumption
<1>2. \A v \in Instant : v \div W \in Int
  BY <1>1, InstantsAreIntegers
<1>3. h.hi \in Int /\ h.lo \in Int
  BY <1>1, <1>2 DEF Pieces
<1> QED BY <1>1, <1>3 DEF Whole

\* Cutting an instant up loses nothing.
LEMMA WholeOfHalves ==
  ASSUME NEW v \in Int
  PROVE  Whole(Halves(v)) = v
<1>1. W \in Nat /\ W > 0
  BY WidthAssumption
<1>2. ((v \div W) * W) + (v % W) = v
  BY <1>1
<1> QED BY <1>2 DEF Whole, Halves

-----------------------------------------------------------------------------
(* Types. *)

ClocksOK ==
  /\ now \in 0 .. MaxNow /\ hubStart \in Instant
  /\ start \in Pieces
  /\ worker \in Storing

MessagesOK ==
  /\ command \in Commanding
  /\ msgs \in Seq(Message) /\ Len(msgs) <= MaxMsgs

\* While a store is in hand no set_time is in force.
ToldOK ==
  /\ told \subseteq Instant
  /\ worker.todo # {} => told = {}

ReadingOK ==
  /\ read \in Reading
  /\ read.busy => piezo.at = "click"

TimeInv == PiezoInv /\ ClocksOK /\ MessagesOK /\ ToldOK /\ ReadingOK

LEMMA Numbers == /\ Delay \in Nat /\ MaxMsgs \in Nat /\ MaxNow \in Nat /\ 0 \in SetTimes
                 /\ W \in Nat /\ W > 0
BY DelayAssumption, BoundsAssumption, TimesAssumption, WidthAssumption

\* All messages changed alike are still messages.
LEMMA ChangedMessages ==
  ASSUME msgs \in Seq(Message), NEW f, DOMAIN f = DOMAIN msgs,
         f = [i \in DOMAIN msgs |-> f[i]],
         \A i \in DOMAIN msgs : f[i] \in Message
  PROVE  f \in Seq(Message) /\ Len(f) = Len(msgs)
<1>1. DOMAIN msgs = 1 .. Len(msgs) /\ Len(msgs) \in Nat
  OBVIOUS
<1>2. f \in [1 .. Len(msgs) -> Message]
  BY <1>1
<1> QED BY <1>1, <1>2

LEMMA TimeInvInit == TimeInit => TimeInv
<1> SUFFICES ASSUME TimeInit
             PROVE  TimeInv
  OBVIOUS
<1>1. PiezoInv /\ piezo.at = "take"
  BY PiezoStarts DEF TimeInit, PiezoInit, NoPiezo
<1>2. ClocksOK
  <2>1. NoStore \in Storing
    BY InstantsAreIntegers DEF NoStore, Storing
  <2> QED BY <2>1, Numbers, InstantsAreIntegers, HalvesArePieces DEF TimeInit, ClocksOK
<1>3. MessagesOK
  <2>1. NoCommand \in Commanding
    BY Numbers DEF NoCommand, Commanding
  <2>2. <<>> \in Seq(Message) /\ Len(<<>>) = 0
    OBVIOUS
  <2> QED BY <2>1, <2>2, Numbers DEF TimeInit, MessagesOK
<1>4. ToldOK
  BY DEF TimeInit, ToldOK
<1>5. ReadingOK
  <2>1. Halves(0) \in Pieces
    BY InstantsAreIntegers, HalvesArePieces
  <2>2. NoRead \in Reading /\ ~NoRead.busy
    BY <2>1 DEF NoRead, Reading
  <2> QED BY <2>2 DEF TimeInit, ReadingOK
<1> QED BY <1>1, <1>2, <1>3, <1>4, <1>5 DEF TimeInv

\* A new store, as the worker's record.
LEMMA StoreBegins ==
  ASSUME ClocksOK, NEW t \in SetTimes, NEW from \in SUBSET Instant, BeginStore(t, from)
  PROVE  /\ worker.todo = {}
         /\ worker' \in Storing
         /\ worker'.todo = Both /\ worker'.old = Whole(start) /\ worker'.new = StartFor(t)
         /\ worker'.from = from
         /\ told' = {}
         /\ UNCHANGED <<piezo, impact, now, hubStart, start, command>>
<1>1. worker' = [todo |-> Both, old |-> Whole(start), new |-> StartFor(t), from |-> from]
  BY DEF BeginStore
<1>2. StartFor(t) \in Instant /\ Whole(start) \in Int
  BY StartsAreInstants, PiecesAreIntegers DEF ClocksOK
<1> QED BY <1>1, <1>2 DEF Storing, BeginStore

\* One half stored.
LEMMA HalfStored ==
  ASSUME ClocksOK, NEW h \in Both, StoreHalf(h)
  PROVE  /\ start' \in Pieces /\ worker' \in Storing
         /\ start'[h] = Halves(worker.new)[h]
         /\ \A g \in Both \ {h} : start'[g] = start[g]
         /\ \/ /\ worker.todo = {h} /\ worker'.todo = {} /\ worker'.from = {}
               /\ told' = worker.from
            \/ /\ worker.todo # {h} /\ worker'.todo = worker.todo \ {h}
               /\ worker'.old = worker.old /\ worker'.new = worker.new
               /\ worker'.from = worker.from
               /\ told' = told
<1>1. /\ start' = [start EXCEPT ![h] = Halves(worker.new)[h]]
      /\ Stored(h)
  BY DEF StoreHalf
<1>2. /\ Halves(worker.new)["hi"] \in {v \div W : v \in Instant} \cup {0}
      /\ Halves(worker.new)["lo"] \in 0 .. W - 1
  BY HalvesArePieces DEF ClocksOK, Storing, Pieces
<1>3. start' \in Pieces /\ start'[h] = Halves(worker.new)[h]
      /\ \A g \in Both \ {h} : start'[g] = start[g]
  <2>1. CASE h = "hi"
    BY <1>1, <1>2, <2>1 DEF ClocksOK, Pieces, Both
  <2>2. CASE h = "lo"
    BY <1>1, <1>2, <2>2 DEF ClocksOK, Pieces, Both
  <2> QED BY <2>1, <2>2 DEF Both
<1>4. CASE worker.todo = {h}
  <2>1. worker' = NoStore /\ told' = worker.from
    BY <1>1, <1>4 DEF Stored
  <2>2. NoStore \in Storing /\ NoStore.todo = {} /\ NoStore.from = {}
    BY InstantsAreIntegers DEF NoStore, Storing
  <2> QED BY <1>3, <1>4, <2>1, <2>2
<1>5. CASE worker.todo # {h}
  <2>1. worker' = [worker EXCEPT !.todo = worker.todo \ {h}] /\ told' = told
    BY <1>1, <1>5 DEF Stored
  <2> QED BY <1>3, <1>5, <2>1 DEF ClocksOK, Storing
<1> QED BY <1>4, <1>5

LEMMA ClocksStep == TimeInv /\ [TimeNext]_timeVars => ClocksOK'
<1> SUFFICES ASSUME TimeInv, [TimeNext]_timeVars
             PROVE  ClocksOK'
  OBVIOUS
<1> USE DEF TimeInv
<1>1. ASSUME UNCHANGED <<now, hubStart, start, worker>>
      PROVE  ClocksOK'
  BY <1>1 DEF ClocksOK
<1>2. CASE PiezoStep \/ Broadcast \/ Lose \/ BeginRead \/ PushClick \/ UNCHANGED timeVars
  BY <1>1, <1>2 DEF PiezoStep, Broadcast, Lose, BeginRead, PushClick, timeVars
<1>3. ASSUME NEW t \in SetTimes, NEW sync \in BOOLEAN, BeginCommand(t, sync)
      PROVE  ClocksOK'
  <2>1. hubStart' = StartFor(t) /\ UNCHANGED <<now, start, worker>>
    BY <1>3 DEF BeginCommand
  <2> QED BY <2>1, StartsAreInstants DEF ClocksOK
<1>4. ASSUME NEW t \in SetTimes, NEW from \in SUBSET Instant, BeginStore(t, from)
      PROVE  ClocksOK'
  BY <1>4, StoreBegins DEF ClocksOK
<1>5. CASE Receive
  <2>1. Head(msgs) \in Message
    BY <1>5 DEF Receive, MessagesOK
  <2> QED BY <1>4, <1>5, <2>1 DEF Receive, Message
<1>6. ASSUME NEW t \in SetTimes, Heartbeat(t)
      PROVE  ClocksOK'
  BY <1>4, <1>6 DEF Heartbeat
<1>7. ASSUME NEW h \in Both, StoreHalf(h)
      PROVE  ClocksOK'
  <2>1. UNCHANGED <<now, hubStart>>
    BY <1>7 DEF StoreHalf
  <2>2. start' \in Pieces /\ worker' \in Storing
    BY <1>7, HalfStored
  <2> QED BY <2>1, <2>2 DEF ClocksOK
<1>8. ASSUME NEW h \in Both, Load(h)
      PROVE  ClocksOK'
  BY <1>1, <1>8 DEF Load
<1>9. CASE Reboot
  <2>1. start' = Halves(now) /\ worker' = NoStore /\ now' = now /\ hubStart' = hubStart
    BY <1>9 DEF Reboot
  <2>2. NoStore \in Storing
    BY InstantsAreIntegers DEF NoStore, Storing
  <2>3. Halves(now) \in Pieces
    BY InstantsAreIntegers, HalvesArePieces DEF ClocksOK
  <2> QED BY <2>1, <2>2, <2>3 DEF ClocksOK
<1>10. CASE Tick
  <2>1. now' \in 0 .. MaxNow /\ UNCHANGED <<hubStart, start, worker>>
    BY <1>10, Numbers DEF Tick, ClocksOK
  <2> QED BY <2>1 DEF ClocksOK
<1>11. CASE Restart
  BY <1>11, InstantsAreIntegers DEF Restart, ClocksOK
<1> QED BY <1>2, <1>3, <1>5, <1>6, <1>7, <1>8, <1>9, <1>10, <1>11, Numbers DEF TimeNext

LEMMA MessagesStep == TimeInv /\ [TimeNext]_timeVars => MessagesOK' /\ ToldOK'
<1> SUFFICES ASSUME TimeInv, [TimeNext]_timeVars
             PROVE  MessagesOK' /\ ToldOK'
  OBVIOUS
<1> USE DEF TimeInv
<1>1. /\ msgs \in Seq(Message) /\ Len(msgs) <= MaxMsgs /\ command \in Commanding
      /\ worker \in Storing /\ hubStart \in Instant
  BY DEF MessagesOK, ClocksOK
<1>2. ASSUME UNCHANGED <<command, msgs, worker, told>>
      PROVE  MessagesOK' /\ ToldOK'
  BY <1>2 DEF MessagesOK, ToldOK
<1>3. CASE PiezoStep \/ BeginRead \/ PushClick \/ UNCHANGED timeVars
  BY <1>2, <1>3 DEF PiezoStep, BeginRead, PushClick, timeVars
<1>4. ASSUME NEW h \in Both, Load(h)
      PROVE  MessagesOK' /\ ToldOK'
  BY <1>2, <1>4 DEF Load
<1>5. ASSUME NEW t \in SetTimes, NEW sync \in BOOLEAN, BeginCommand(t, sync)
      PROVE  MessagesOK' /\ ToldOK'
  <2>1. /\ command' = [busy |-> TRUE, t |-> t, sync |-> sync, age |-> 0]
        /\ UNCHANGED <<msgs, worker, told>>
    BY <1>5 DEF BeginCommand
  <2>2. command' \in Commanding
    BY <2>1, Numbers DEF Commanding
  <2> QED BY <2>1, <2>2 DEF MessagesOK, ToldOK
<1>6. CASE Broadcast \/ Restart
  <2>1. command' = NoCommand /\ UNCHANGED <<worker, told>>
    BY <1>6 DEF Broadcast, Restart
  <2>2. command' \in Commanding
    BY <2>1, Numbers DEF NoCommand, Commanding
  <2>3. msgs' \in Seq(Message) /\ Len(msgs') <= MaxMsgs
    <3> DEFINE m == [t |-> command.t, from |-> hubStart, age |-> command.age]
    <3>1. m \in Message
      BY <1>1 DEF Commanding, Message
    <3>2. msgs' = msgs \/ (Len(msgs) < MaxMsgs /\ msgs' = Append(msgs, m))
      BY <1>6 DEF Broadcast, Restart
    <3> HIDE DEF m
    <3> QED BY <1>1, <3>1, <3>2, Numbers
  <2> QED BY <2>1, <2>2, <2>3 DEF MessagesOK, ToldOK
<1>7. ASSUME msgs # <<>>, msgs' = Tail(msgs), command' = command
      PROVE  MessagesOK' /\ Head(msgs) \in Message
  <2>1. msgs' \in Seq(Message) /\ Len(msgs') <= MaxMsgs /\ Head(msgs) \in Message
    BY <1>1, <1>7, Numbers
  <2> QED BY <1>1, <1>7, <2>1 DEF MessagesOK
<1>8. CASE Lose
  BY <1>7, <1>8 DEF Lose, ToldOK
<1>9. ASSUME NEW t \in SetTimes, NEW from \in SUBSET Instant, BeginStore(t, from)
      PROVE  command' = command /\ ToldOK'
  BY <1>9, StoreBegins DEF ToldOK
<1>10. CASE Receive
  <2>1. msgs # <<>> /\ msgs' = Tail(msgs) /\ BeginStore(Head(msgs).t, {Head(msgs).from})
    BY <1>10 DEF Receive
  <2>2. Head(msgs) \in Message
    BY <1>1, <2>1
  <2>3. Head(msgs).t \in SetTimes /\ {Head(msgs).from} \in SUBSET Instant
    BY <2>2 DEF Message
  <2> QED BY <1>7, <1>9, <2>1, <2>3
<1>11. ASSUME NEW t \in SetTimes, Heartbeat(t)
      PROVE  MessagesOK' /\ ToldOK'
  <2>1. BeginStore(t, {}) /\ msgs' = msgs
    BY <1>11 DEF Heartbeat
  <2> QED BY <1>9, <2>1 DEF MessagesOK
<1>12. ASSUME NEW h \in Both, StoreHalf(h)
      PROVE  MessagesOK' /\ ToldOK'
  <2>1. UNCHANGED <<command, msgs>> /\ told = {}
    BY <1>12 DEF StoreHalf, ToldOK
  <2>2. \/ worker'.todo = {} /\ told' = worker.from
        \/ told' = told
    BY <1>12, HalfStored
  <2>3. worker.from \in SUBSET Instant
    BY <1>1 DEF Storing
  <2> QED BY <2>1, <2>2, <2>3 DEF MessagesOK, ToldOK
<1>13. CASE Reboot
  BY <1>13 DEF Reboot, MessagesOK, ToldOK
<1>14. CASE Tick
  <2>1. /\ command.sync => command.age < Delay
        /\ \A i \in DOMAIN msgs : msgs[i].age < Delay
        /\ command' = IF command.sync THEN Older(command) ELSE command
        /\ msgs' = [i \in DOMAIN msgs |-> Older(msgs[i])]
        /\ UNCHANGED <<worker, told>>
    BY <1>14 DEF Tick
  <2>2. command' \in Commanding
    BY <1>1, <2>1, Numbers DEF Older, Commanding
  <2>3. \A i \in DOMAIN msgs : Older(msgs[i]) \in Message
    <3>1. ASSUME NEW m \in Message, m.age < Delay
          PROVE  Older(m) \in Message
      BY <3>1, Numbers DEF Older, Message
    <3>2. \A i \in DOMAIN msgs : msgs[i] \in Message
      BY <1>1
    <3> QED BY <2>1, <3>1, <3>2
  <2>4. DOMAIN msgs' = DOMAIN msgs /\ \A i \in DOMAIN msgs' : msgs'[i] \in Message
    BY <2>1, <2>3
  <2>5. msgs' \in Seq(Message) /\ Len(msgs') = Len(msgs)
    BY <1>1, <2>1, <2>4, ChangedMessages
  <2> QED BY <1>1, <2>1, <2>2, <2>5 DEF MessagesOK, ToldOK
<1> QED BY <1>3, <1>4, <1>5, <1>6, <1>8, <1>10, <1>11, <1>12, <1>13, <1>14, Numbers DEF TimeNext

\* One half loaded.
LEMMA HalfLoaded ==
  ASSUME ReadingOK, ClocksOK, NEW h \in Both, Load(h)
  PROVE  /\ read' \in Reading
         /\ read'.busy <=> read.busy
         /\ read'.clean <=> read.clean
         /\ read'.values = read.values
         /\ h \in read.todo /\ read'.todo = read.todo \ {h}
         /\ read'.got[h] = start[h]
         /\ \A g \in Both \ {h} : read'.got[g] = read.got[g]
         /\ UNCHANGED <<piezo, start, worker>>
<1> DEFINE got == [read.got EXCEPT ![h] = start[h]]
<1>1. /\ read' = [read EXCEPT !.got = got, !.todo = read.todo \ {h}]
      /\ h \in read.todo /\ UNCHANGED <<piezo, start, worker>>
  BY DEF Load
<1>2. read.got \in Pieces /\ start \in Pieces
  BY DEF ReadingOK, Reading, ClocksOK
<1>3. got \in Pieces /\ got[h] = start[h] /\ \A g \in Both \ {h} : got[g] = read.got[g]
  <2>1. CASE h = "hi"
    BY <1>2, <2>1 DEF Pieces, Both
  <2>2. CASE h = "lo"
    BY <1>2, <2>2 DEF Pieces, Both
  <2> QED BY <2>1, <2>2 DEF Both
<1> HIDE DEF got
<1> QED BY <1>1, <1>3 DEF ReadingOK, Reading

\* A read begun, and a store that begins during one.
LEMMA ReadBegins ==
  ASSUME ClocksOK, BeginRead
  PROVE  /\ read' \in Reading /\ read'.busy /\ read'.todo = Both
         /\ read'.values = IF worker.todo = {} THEN {Whole(start)} ELSE {worker.old, worker.new}
         /\ read'.clean <=> worker.todo = {}
         /\ piezo.at = "click" /\ UNCHANGED <<piezo, start, worker>>
<1> DEFINE b == worker.todo = {}
           vs == IF worker.todo = {} THEN {Whole(start)} ELSE {worker.old, worker.new}
<1>1. /\ read' = [busy |-> TRUE, todo |-> Both, got |-> Halves(0), values |-> vs, clean |-> b]
      /\ piezo.at = "click" /\ UNCHANGED <<piezo, start, worker>>
  BY DEF BeginRead
<1>2. b \in BOOLEAN /\ (b <=> worker.todo = {})
  OBVIOUS
<1>3. vs \in SUBSET Int
  BY PiecesAreIntegers, InstantsAreIntegers DEF ClocksOK, Storing
<1>4. Halves(0) \in Pieces
  BY InstantsAreIntegers, HalvesArePieces
<1>5. vs = IF worker.todo = {} THEN {Whole(start)} ELSE {worker.old, worker.new}
  OBVIOUS
<1> HIDE DEF b, vs
<1> QED BY <1>1, <1>2, <1>3, <1>4, <1>5 DEF Reading

LEMMA StoreDuringRead ==
  ASSUME ReadingOK, ClocksOK, NEW t \in SetTimes, NEW from \in SUBSET Instant, BeginStore(t, from)
  PROVE  /\ read' \in Reading
         /\ read'.busy <=> read.busy
         /\ read.busy => read'.values = read.values \cup {worker'.new} /\ ~read'.clean
         /\ read'.todo = read.todo /\ read'.got = read.got
<1> DEFINE n == StartFor(t)
           vs == read.values \cup {n}
<1>1. n \in Int /\ worker'.new = n
  BY StartsAreInstants, StoreBegins, InstantsAreIntegers DEF ClocksOK
<1>2. read' = IF read.busy THEN [read EXCEPT !.values = vs, !.clean = FALSE] ELSE read
  BY DEF BeginStore
<1> HIDE DEF n
<1>3. read \in Reading /\ vs \in SUBSET Int
  BY <1>1 DEF ReadingOK, Reading
<1>4. CASE read.busy
  <2>1. read' = [read EXCEPT !.values = vs, !.clean = FALSE]
    BY <1>2, <1>4
  <2>2. /\ read' \in Reading /\ read'.values = vs /\ read'.todo = read.todo /\ ~read'.clean
        /\ read'.got = read.got
        /\ read'.busy <=> read.busy
    BY <1>3, <2>1 DEF Reading
  <2> QED BY <1>1, <2>2
<1>5. CASE ~read.busy
  BY <1>2, <1>3, <1>5
<1> QED BY <1>4, <1>5

LEMMA ReadingStep == TimeInv /\ [TimeNext]_timeVars => ReadingOK'
<1> SUFFICES ASSUME TimeInv, [TimeNext]_timeVars
             PROVE  ReadingOK'
  OBVIOUS
<1> USE DEF TimeInv
<1>1. ASSUME UNCHANGED read, piezo'.at = piezo.at
      PROVE  ReadingOK'
  BY <1>1 DEF ReadingOK
<1>2. CASE Broadcast \/ Lose \/ Restart \/ UNCHANGED timeVars
  BY <1>1, <1>2 DEF Broadcast, Lose, Restart, timeVars
<1>3. ASSUME NEW t, NEW sync, BeginCommand(t, sync)
      PROVE  ReadingOK'
  BY <1>1, <1>3 DEF BeginCommand
<1>4. ASSUME NEW h \in Both, StoreHalf(h)
      PROVE  ReadingOK'
  BY <1>1, <1>4 DEF StoreHalf
<1>5. CASE PiezoStep
  <2>1. read' = read
    BY <1>5 DEF PiezoStep
  <2>2. piezo.at = "click" => piezo'.at = "click"
    BY <1>5, PiezoFields DEF PiezoStep, CreateTask, AddHandler, Hit, Bounce, Notify, Take, Wake, PiezoState
  <2> QED BY <2>1, <2>2 DEF ReadingOK
<1>6. ASSUME NEW t \in SetTimes, NEW from \in SUBSET Instant, BeginStore(t, from)
      PROVE  ReadingOK'
  BY <1>6, StoreDuringRead, StoreBegins DEF ReadingOK
<1>7. CASE Receive
  <2>1. msgs \in Seq(Message) /\ msgs # <<>>
    BY <1>7 DEF Receive, MessagesOK
  <2>2. Head(msgs) \in Message
    BY <2>1
  <2> QED BY <1>6, <1>7, <2>2 DEF Receive, Message
<1>8. ASSUME NEW t \in SetTimes, Heartbeat(t)
      PROVE  ReadingOK'
  BY <1>6, <1>8 DEF Heartbeat
<1>9. ASSUME read' = NoRead
      PROVE  ReadingOK'
  <2>1. Halves(0) \in Pieces
    BY InstantsAreIntegers, HalvesArePieces
  <2>2. NoRead \in Reading /\ ~NoRead.busy
    BY <2>1 DEF NoRead, Reading
  <2> QED BY <1>9, <2>2 DEF ReadingOK
<1>10. CASE Reboot \/ PushClick
  BY <1>9, <1>10 DEF Reboot, PushClick
<1>11. CASE BeginRead
  BY <1>11, ReadBegins DEF ReadingOK
<1>12. ASSUME NEW h \in Both, Load(h)
      PROVE  ReadingOK'
  BY <1>12, HalfLoaded DEF ReadingOK
<1>13. CASE Tick
  <2>1. read' = read
    BY <1>13 DEF Tick
  <2>2. piezo'.at = piezo.at
    BY <1>13, PiezoFields DEF Tick, PiezoTick, PiezoState
  <2> QED BY <1>1, <2>1, <2>2
<1> QED BY <1>2, <1>3, <1>4, <1>5, <1>7, <1>8, <1>10, <1>11, <1>12, <1>13 DEF TimeNext

LEMMA TimeInvAlways == TimeSpec => []TimeInv
<1>1. TimeInv /\ [TimeNext]_timeVars => TimeInv'
  BY PiezoInvStep, ClocksStep, MessagesStep, ReadingStep DEF TimeInv
<1> QED BY <1>1, TimeInvInit, PTL DEF TimeSpec

\* Types of the clocks, of the messages between them and of the tasks that store
\* and load them; while a store is in hand no set_time is in force.
THEOREM TimeTypeCorrect == TimeSpec => []TimeTypeOK
<1>1. TimeInv => TimeTypeOK
  <2> SUFFICES ASSUME TimeInv
               PROVE  TimeTypeOK
    OBVIOUS
  <2> USE DEF TimeInv
  <2>1. PiezoTypeOK
    BY DEF PiezoInv
  <2>2. /\ now \in 0 .. MaxNow /\ hubStart \in Instant /\ start \in Pieces
        /\ worker.todo \subseteq Both /\ worker.old \in Int /\ worker.new \in Instant
        /\ worker.from \subseteq Instant
    BY DEF ClocksOK, Storing
  <2>3. /\ command \in [busy : BOOLEAN, t : SetTimes, sync : BOOLEAN, age : 0 .. Delay]
        /\ msgs \in Seq([t : SetTimes, from : Instant, age : 0 .. Delay]) /\ Len(msgs) <= MaxMsgs
    BY DEF MessagesOK, Message, Commanding
  <2>4. /\ read.busy \in BOOLEAN /\ read.todo \subseteq Both /\ read.got \in Pieces
        /\ read.busy => piezo.at = "click"
    BY DEF ReadingOK, Reading
  <2>5. told \subseteq Instant /\ (worker.todo # {} => told = {})
    BY DEF ToldOK
  <2> QED BY <2>1, <2>2, <2>3, <2>4, <2>5 DEF TimeTypeOK
<1> QED BY <1>1, TimeInvAlways, PTL

-----------------------------------------------------------------------------
(* A read that a store goes on under. *)

\* Which value each half of the clock belongs to, and each half that was loaded.
StoredOK ==
  /\ worker.todo = {} => \A h \in Both : start[h] = Halves(Whole(start))[h]
  /\ worker.todo # {} =>
       \A h \in Both : start[h] = Halves(IF h \in worker.todo THEN worker.old ELSE worker.new)[h]

LoadedOK ==
  read.busy =>
    /\ worker.todo = {} => Whole(start) \in read.values
    /\ worker.todo # {} => worker.old \in read.values /\ worker.new \in read.values
    /\ \A h \in Both \ read.todo : \E v \in read.values : read.got[h] = Halves(v)[h]

ReadInv == TimeInv /\ StoredOK /\ LoadedOK

LEMMA StoreBeginsInForce ==
  ASSUME ReadInv, NEW t \in SetTimes, NEW from \in SUBSET Instant, BeginStore(t, from)
  PROVE  StoredOK' /\ LoadedOK'
<1>1. ClocksOK /\ ReadingOK
  BY DEF ReadInv, TimeInv
<1>2. /\ worker.todo = {} /\ worker'.todo = Both /\ worker'.old = Whole(start)
      /\ start' = start
  BY <1>1, StoreBegins
<1>3. /\ read'.busy <=> read.busy
      /\ read.busy => read'.values = read.values \cup {worker'.new}
      /\ read'.todo = read.todo /\ read'.got = read.got
  BY <1>1, StoreDuringRead
<1>4. Both # {}
  BY DEF Both
<1>5. StoredOK'
  BY <1>2, <1>4 DEF ReadInv, StoredOK, Halves
<1>6. LoadedOK'
  <2> SUFFICES ASSUME read'.busy
               PROVE  LoadedOK'
    BY DEF LoadedOK
  <2>1. /\ Whole(start) \in read.values
        /\ \A h \in Both \ read.todo : \E v \in read.values : read.got[h] = Halves(v)[h]
    BY <1>2, <1>3 DEF ReadInv, LoadedOK
  <2>2. /\ worker'.old \in read'.values /\ worker'.new \in read'.values
        /\ \A h \in Both \ read'.todo : \E v \in read'.values : read'.got[h] = Halves(v)[h]
    BY <1>2, <1>3, <2>1
  <2> QED BY <1>2, <1>4, <2>2 DEF LoadedOK, Halves
<1> QED BY <1>5, <1>6

LEMMA StoreEndsInForce ==
  ASSUME ReadInv, NEW h \in Both, StoreHalf(h)
  PROVE  StoredOK' /\ LoadedOK'
<1>1. ClocksOK /\ h \in worker.todo /\ read' = read /\ worker.new \in Int
  BY InstantsAreIntegers DEF ReadInv, TimeInv, StoreHalf, ClocksOK, Storing
<1>2. /\ start'[h] = Halves(worker.new)[h]
      /\ \A g \in Both \ {h} : start'[g] = start[g]
      /\ \/ worker.todo = {h} /\ worker'.todo = {}
         \/ /\ worker.todo # {h} /\ worker'.todo = worker.todo \ {h}
            /\ worker'.old = worker.old /\ worker'.new = worker.new
  BY <1>1, HalfStored
<1>3. \A g \in Both : start[g] = Halves(IF g \in worker.todo THEN worker.old ELSE worker.new)[g]
  BY <1>1 DEF ReadInv, StoredOK
<1>4. CASE worker.todo = {h}
  <2>1. \A g \in Both : start'[g] = Halves(worker.new)[g]
    BY <1>2, <1>3, <1>4
  <2>2. Whole(start') = worker.new
    <3>1. Whole(start') = Whole(Halves(worker.new))
      BY <2>1 DEF Whole, Both
    <3> QED BY <1>1, <3>1, WholeOfHalves
  <2>3. worker'.todo = {}
    BY <1>2, <1>4
  <2>4. StoredOK'
    <3>1. \A g \in Both : start'[g] = Halves(Whole(start'))[g]
      BY <2>1, <2>2
    <3> QED BY <2>3, <3>1 DEF StoredOK, Halves, Whole
  <2>5. LoadedOK'
    <3>1. read.busy => Whole(start') \in read.values
      BY <1>1, <2>2 DEF ReadInv, LoadedOK
    <3> QED BY <1>1, <2>3, <3>1 DEF ReadInv, LoadedOK, Halves, Whole
  <2> QED BY <2>4, <2>5
<1>5. CASE worker.todo # {h}
  <2>1. worker'.todo = worker.todo \ {h} /\ worker'.old = worker.old /\ worker'.new = worker.new
    BY <1>2, <1>5
  <2>2. worker'.todo # {}
    BY <1>1, <1>5, <2>1
  <2>3. \A g \in Both : start'[g] = Halves(IF g \in worker'.todo THEN worker'.old ELSE worker'.new)[g]
    BY <1>2, <1>3, <2>1
  <2>4. StoredOK'
    BY <2>2, <2>3 DEF StoredOK, Halves
  <2>5. LoadedOK'
    BY <1>1, <2>1, <2>2 DEF ReadInv, LoadedOK, Halves
  <2> QED BY <2>4, <2>5
<1> QED BY <1>4, <1>5

LEMMA LoadInForce ==
  ASSUME ReadInv, NEW h \in Both, Load(h)
  PROVE  StoredOK' /\ LoadedOK'
<1>1. ClocksOK /\ ReadingOK
  BY DEF ReadInv, TimeInv
<1>2. /\ read'.busy <=> read.busy
      /\ read'.values = read.values
      /\ h \in read.todo /\ read'.todo = read.todo \ {h}
      /\ read'.got[h] = start[h]
      /\ \A g \in Both \ {h} : read'.got[g] = read.got[g]
      /\ UNCHANGED <<start, worker>>
  BY <1>1, HalfLoaded
<1>3. StoredOK'
  BY <1>2 DEF ReadInv, StoredOK, Halves, Whole
<1>4. LoadedOK'
  <2> SUFFICES ASSUME read.busy
               PROVE  LoadedOK'
    BY <1>2 DEF LoadedOK
  <2>1. \E v \in read.values : start[h] = Halves(v)[h]
    BY DEF ReadInv, StoredOK, LoadedOK
  <2>2. \A g \in Both \ read'.todo : \E v \in read.values : read'.got[g] = Halves(v)[g]
    BY <1>2, <2>1 DEF ReadInv, LoadedOK
  <2>3. /\ worker.todo = {} => Whole(start) \in read.values
        /\ worker.todo # {} => worker.old \in read.values /\ worker.new \in read.values
    BY DEF ReadInv, LoadedOK
  <2> QED BY <1>2, <2>2, <2>3 DEF LoadedOK, Halves, Whole
<1> QED BY <1>3, <1>4

LEMMA ReadInvStep ==
  ReadInv /\ [TimeNext]_timeVars => StoredOK' /\ LoadedOK'
<1> SUFFICES ASSUME ReadInv, [TimeNext]_timeVars
             PROVE  StoredOK' /\ LoadedOK'
  OBVIOUS
<1>1. ASSUME UNCHANGED <<start, worker, read>>
      PROVE  StoredOK' /\ LoadedOK'
  BY <1>1 DEF ReadInv, StoredOK, LoadedOK, Halves, Whole
<1>2. CASE PiezoStep \/ Broadcast \/ Lose \/ Restart \/ Tick \/ UNCHANGED timeVars
  BY <1>1, <1>2 DEF PiezoStep, Broadcast, Lose, Restart, Tick, timeVars
<1>3. ASSUME NEW t \in SetTimes, NEW sync \in BOOLEAN, BeginCommand(t, sync)
      PROVE  StoredOK' /\ LoadedOK'
  BY <1>1, <1>3 DEF BeginCommand
<1>4. CASE Receive
  <2>1. msgs \in Seq(Message) /\ msgs # <<>>
    BY <1>4 DEF Receive, ReadInv, TimeInv, MessagesOK
  <2>2. Head(msgs) \in Message
    BY <2>1
  <2> QED BY <1>4, <2>2, StoreBeginsInForce DEF Receive, Message
<1>5. ASSUME NEW t \in SetTimes, Heartbeat(t)
      PROVE  StoredOK' /\ LoadedOK'
  BY <1>5, StoreBeginsInForce DEF Heartbeat
<1>6. ASSUME NEW h \in Both, StoreHalf(h)
      PROVE  StoredOK' /\ LoadedOK'
  BY <1>6, StoreEndsInForce
<1>7. ASSUME NEW h \in Both, Load(h)
      PROVE  StoredOK' /\ LoadedOK'
  BY <1>7, LoadInForce
<1>8. CASE Reboot
  <2>1. start' = Halves(now) /\ worker'.todo = {} /\ ~read'.busy /\ now \in Int
    BY <1>8, Numbers DEF Reboot, NoStore, NoRead, ReadInv, TimeInv, ClocksOK
  <2>2. Whole(start') = now
    BY <2>1, WholeOfHalves
  <2>3. \A h \in Both : start'[h] = Halves(Whole(start'))[h]
    BY <2>1, <2>2
  <2> QED BY <2>1, <2>3 DEF StoredOK, LoadedOK, Halves, Whole
<1>9. CASE BeginRead
  <2>1. /\ read'.busy /\ read'.todo = Both
        /\ read'.values = IF worker.todo = {} THEN {Whole(start)} ELSE {worker.old, worker.new}
        /\ UNCHANGED <<start, worker>>
    BY <1>9, ReadBegins DEF ReadInv, TimeInv
  <2> QED BY <2>1 DEF ReadInv, StoredOK, LoadedOK, Halves, Whole
<1>10. CASE PushClick
  <2>1. ~read'.busy /\ UNCHANGED <<start, worker>>
    BY <1>10 DEF PushClick, NoRead
  <2> QED BY <2>1 DEF ReadInv, StoredOK, LoadedOK, Halves, Whole
<1> QED BY <1>2, <1>3, <1>4, <1>5, <1>6, <1>7, <1>8, <1>9, <1>10, Numbers DEF TimeNext

LEMMA ReadInvAlways == TimeSpec => []ReadInv
<1>1. TimeInit => StoredOK /\ LoadedOK
  <2> SUFFICES ASSUME TimeInit
               PROVE  StoredOK /\ LoadedOK
    OBVIOUS
  <2>1. start = Halves(0) /\ worker.todo = {} /\ ~read.busy
    BY DEF TimeInit, NoStore, NoRead
  <2>2. Whole(start) = 0
    BY <2>1, WholeOfHalves
  <2> QED BY <2>1, <2>2 DEF StoredOK, LoadedOK
<1>2. TimeInv /\ StoredOK /\ LoadedOK /\ [TimeNext]_timeVars => StoredOK' /\ LoadedOK'
  BY ReadInvStep DEF ReadInv
<1> QED BY <1>1, <1>2, TimeInvAlways, PTL DEF TimeSpec, ReadInv

\* The time of a click is one that was in force while it was read, unless a store
\* during the read changed the high half.
THEOREM TornAcrossHalvesOnly == TimeSpec => []TornOnlyAcrossHalves
<1>1. ASSUME ReadInv, Finished, \A u, v \in read.values : u \div W = v \div W
      PROVE  Whole(read.got) \in read.values
  <2>1. read \in Reading /\ read.values \subseteq Int
    BY <1>1 DEF ReadInv, TimeInv, ReadingOK, Reading
  <2>2. \A h \in Both : \E v \in read.values : read.got[h] = Halves(v)[h]
    BY <1>1 DEF ReadInv, LoadedOK, Finished
  <2>3. PICK u \in read.values : read.got["hi"] = Halves(u)["hi"]
    BY <2>2 DEF Both
  <2>4. PICK v \in read.values : read.got["lo"] = Halves(v)["lo"]
    BY <2>2 DEF Both
  <2>5. u \div W = v \div W
    BY <1>1
  <2>6. Halves(u)["hi"] = Halves(v)["hi"]
    BY <2>5 DEF Halves
  <2>7. Whole(read.got) = Whole(Halves(v))
    BY <2>3, <2>4, <2>6 DEF Whole
  <2> QED BY <2>1, <2>7, WholeOfHalves
<1>2. ReadInv => TornOnlyAcrossHalves
  BY <1>1 DEF TornOnlyAcrossHalves
<1> QED BY <1>2, ReadInvAlways, PTL

-----------------------------------------------------------------------------
(* Game times that are close. *)

LEMMA Division ==
  ASSUME NEW n \in Int, NEW d \in Nat \ {0}
  PROVE  /\ n \div d \in Int /\ n % d \in 0 .. d - 1
         /\ n = (d * (n \div d)) + (n % d)
OBVIOUS

LEMMA Multiples ==
  ASSUME NEW i \in Int, NEW j \in Int, NEW d \in Nat \ {0}, i < j
  PROVE  (d * i) + d <= d * j
<1>1. j - i - 1 \in Nat
  OBVIOUS
<1>2. d * (j - i - 1) >= 0
  BY <1>1
<1>3. d * (j - i - 1) = (d * j) - (d * i) - d
  OBVIOUS
<1>4. d * i \in Int /\ d * j \in Int
  OBVIOUS
<1> QED BY <1>2, <1>3, <1>4

LEMMA Remainder ==
  ASSUME NEW n \in Int, NEW d \in Nat \ {0}, NEW k \in Int, NEW r \in 0 .. d - 1,
         n = (d * k) + r
  PROVE  n % d = r /\ n \div d = k
<1> DEFINE q == n \div d
           m == n % d
<1>1. q \in Int /\ m \in 0 .. d - 1 /\ n = (d * q) + m
  BY Division
<1> HIDE DEF q, m
<1>2. d * k \in Int /\ d * q \in Int
  BY <1>1
<1>3. q < k => FALSE
  <2>1. q < k => (d * q) + d <= d * k
    BY <1>1, Multiples
  <2> QED BY <1>1, <1>2, <2>1
<1>4. k < q => FALSE
  <2>1. k < q => (d * k) + d <= d * q
    BY <1>1, Multiples
  <2> QED BY <1>1, <1>2, <2>1
<1>5. q = k
  BY <1>1, <1>3, <1>4
<1> QED BY <1>1, <1>2, <1>5 DEF q, m

\* Instants at most D apart are game times at most D / K, rounded up, apart.
LEMMA CloseInstants ==
  ASSUME NEW a \in Int, NEW b \in Int, NEW D \in Nat, NEW d \in Nat \ {0},
         a <= b, b <= a + D
  PROVE  /\ b \div d - a \div d \in Nat
         /\ b \div d - a \div d <= (D + d - 1) \div d
<1> DEFINE p == b \div d
           q == a \div d
           e == (D + d - 1) \div d
<1>1. /\ p \in Int /\ q \in Int /\ e \in Int
      /\ d * p <= b /\ b < (d * p) + d
      /\ d * q <= a /\ a < (d * q) + d
      /\ D + d - 1 < (d * e) + d
      /\ d * p \in Int /\ d * q \in Int /\ d * e \in Int
  <2>1. /\ p \in Int /\ b % d \in 0 .. d - 1 /\ b = (d * p) + (b % d)
        /\ q \in Int /\ a % d \in 0 .. d - 1 /\ a = (d * q) + (a % d)
    BY Division
  <2>2. D + d - 1 \in Int
    OBVIOUS
  <2>3. e \in Int /\ (D + d - 1) % d \in 0 .. d - 1 /\ D + d - 1 = (d * e) + ((D + d - 1) % d)
    BY <2>2, Division
  <2> HIDE DEF p, q, e
  <2>4. d * p \in Int /\ d * q \in Int /\ d * e \in Int
    BY <2>1, <2>3
  <2> QED BY <2>1, <2>3, <2>4
<1> HIDE DEF p, q, e
<1>2. ~(p < q)
  <2>1. p < q => (d * p) + d <= d * q
    BY <1>1, Multiples
  <2> QED BY <1>1, <2>1
<1>3. ~(q + e < p)
  <2>1. q + e < p => (d * (q + e)) + d <= d * p
    BY <1>1, Multiples
  <2>2. d * (q + e) = (d * q) + (d * e)
    BY <1>1
  <2> QED BY <1>1, <2>1, <2>2
<1>4. p - q \in Nat /\ p - q <= e
  BY <1>1, <1>2, <1>3
<1> QED BY <1>4 DEF p, q, e

\* A small difference survives the wrap.
LEMMA CloseModulo ==
  ASSUME NEW x \in Int, NEW y \in Int, NEW m \in Nat \ {0}, x - y \in 0 .. m - 1
  PROVE  ((x % m) - (y % m)) % m = x - y
<1> DEFINE j == x \div m
           k == y \div m
           u == x % m
           v == y % m
<1>1. /\ j \in Int /\ u \in 0 .. m - 1 /\ x = (m * j) + u
      /\ k \in Int /\ v \in 0 .. m - 1 /\ y = (m * k) + v
  BY Division
<1> HIDE DEF j, k, u, v
<1>2. m * (k - j) = (m * k) - (m * j) /\ m * k \in Int /\ m * j \in Int /\ k - j \in Int
  BY <1>1
<1>3. u - v = (m * (k - j)) + (x - y) /\ u - v \in Int
  BY <1>1, <1>2
<1>4. (u - v) % m = x - y
  BY <1>2, <1>3, Remainder
<1> QED BY <1>4 DEF u, v

LEMMA CloseTimes ==
  ASSUME NEW n \in Int, NEW h \in Int, NEW v \in Int, v - h \in 0 .. Delay
  PROVE  (TimeAt(n, h) - TimeAt(n, v)) % TimeMod <= (Delay + K - 1) \div K
<1> DEFINE e == (Delay + K - 1) \div K
           T(i) == (i \div K) % TimeMod
<1>1. K \in Nat \ {0} /\ TimeMod \in Nat \ {0} /\ Delay \in Nat /\ e < TimeMod - 1
  BY WidthAssumption, DelayAssumption
<1>2. ASSUME NEW a \in Int, NEW b \in Int, a <= b, b <= a + Delay
      PROVE  (T(b) - T(a)) % TimeMod <= e
  <2>1. b \div K - a \div K \in Nat /\ b \div K - a \div K <= e
    BY <1>1, <1>2, CloseInstants
  <2>2. b \div K \in Int /\ a \div K \in Int /\ e \in Int
    <3>1. Delay + K - 1 \in Int
      BY <1>1
    <3> QED BY <1>1, <1>2, <3>1, Division
  <2> HIDE DEF e
  <2>3. b \div K - a \div K \in 0 .. TimeMod - 1
    BY <1>1, <2>1, <2>2
  <2>4. (T(b) - T(a)) % TimeMod = b \div K - a \div K
    BY <1>1, <2>2, <2>3, CloseModulo
  <2> QED BY <2>1, <2>4
<1>3. 0 \div K = 0 /\ 0 % TimeMod = 0
  <2>1. 0 = (K * 0) + 0 /\ 0 = (TimeMod * 0) + 0 /\ 0 \in 0 .. K - 1 /\ 0 \in 0 .. TimeMod - 1
    BY <1>1
  <2> QED BY <1>1, <2>1, Remainder
<1>4. T(0) = 0
  BY <1>3
<1>5. CASE n <= h
  <2>1. TimeAt(n, h) = 0 /\ TimeAt(n, v) = 0
    BY <1>5 DEF TimeAt
  <2>2. (T(0) - T(0)) % TimeMod <= e
    BY <1>1, <1>2
  <2> HIDE DEF T, e
  <2>3. (TimeAt(n, h) - TimeAt(n, v)) % TimeMod <= e
    BY <1>4, <2>1, <2>2
  <2> QED BY <2>3 DEF e
<1>6. CASE n > h /\ n <= v
  <2>1. TimeAt(n, h) = T(n - h) /\ TimeAt(n, v) = T(0)
    BY <1>4, <1>6 DEF TimeAt
  <2>2. n - h \in Int /\ 0 <= n - h /\ n - h <= 0 + Delay
    BY <1>1, <1>6
  <2>3. (T(n - h) - T(0)) % TimeMod <= e
    BY <1>2, <2>2
  <2> HIDE DEF T, e
  <2>4. (TimeAt(n, h) - TimeAt(n, v)) % TimeMod <= e
    BY <2>1, <2>3
  <2> QED BY <2>4 DEF e
<1>7. CASE n > v
  <2>1. TimeAt(n, h) = T(n - h) /\ TimeAt(n, v) = T(n - v)
    BY <1>7 DEF TimeAt
  <2>2. n - h \in Int /\ n - v \in Int /\ n - v <= n - h /\ n - h <= (n - v) + Delay
    BY <1>1, <1>7
  <2>3. (T(n - h) - T(n - v)) % TimeMod <= e
    BY <1>2, <2>2
  <2> HIDE DEF T, e
  <2>4. (TimeAt(n, h) - TimeAt(n, v)) % TimeMod <= e
    BY <2>1, <2>3
  <2> QED BY <2>4 DEF e
<1> QED BY <1>5, <1>6, <1>7

\* How far the satellite's clock lags the hub's at the command that set it: by the
\* age of the command, of its message, or of the one that was stored.
LagOK ==
  /\ command.sync => hubStart = (now - command.age) - command.t * K
  /\ \A i \in DOMAIN msgs : msgs[i].from = (now - msgs[i].age) - msgs[i].t * K
  /\ \A hub \in worker.from : worker.new - hub \in 0 .. Delay
  /\ \A hub \in told : Whole(start) - hub \in 0 .. Delay

\* A read that no store disturbed has loaded halves of the clock as it is.
CleanOK ==
  read.busy /\ read.clean =>
    worker.todo = {} /\ \A h \in Both \ read.todo : read.got[h] = start[h]

LagInv == ReadInv /\ LagOK /\ CleanOK

LEMMA CommandLag ==
  ASSUME LagInv, NEW t \in SetTimes, NEW sync \in BOOLEAN, BeginCommand(t, sync)
  PROVE  LagOK' /\ CleanOK'
<1>1. /\ hubStart' = now - t * K
      /\ command' = [busy |-> TRUE, t |-> t, sync |-> sync, age |-> 0]
      /\ UNCHANGED <<now, start, msgs, worker, read, told>>
  BY DEF BeginCommand, StartFor
<1>2. now \in Int
  BY Numbers DEF LagInv, ReadInv, TimeInv, ClocksOK
<1>3. command'.age = 0 /\ command'.t = t
  BY <1>1
<1>4. hubStart' = (now' - command'.age) - command'.t * K
  <2> DEFINE p == t * K
  <2>1. hubStart' = now - p /\ command'.t * K = p
    BY <1>1, <1>3
  <2> HIDE DEF p
  <2>2. now - 0 = now
    BY <1>2
  <2> QED BY <1>1, <1>3, <2>1, <2>2
<1>5. LagOK'
  BY <1>1, <1>3, <1>4 DEF LagInv, LagOK, Whole
<1>6. CleanOK'
  BY <1>1 DEF LagInv, CleanOK
<1> QED BY <1>5, <1>6

LEMMA StoreLag ==
  ASSUME LagInv, NEW t \in SetTimes, NEW from \in SUBSET Instant, BeginStore(t, from),
         \A hub \in from : StartFor(t) - hub \in 0 .. Delay,
         \A i \in DOMAIN msgs' : msgs'[i].from = (now - msgs'[i].age) - msgs'[i].t * K
  PROVE  LagOK' /\ CleanOK'
<1>1. ClocksOK /\ ReadingOK /\ ReadInv
  BY DEF LagInv, ReadInv, TimeInv
<1>2. /\ worker'.todo = Both /\ worker'.new = StartFor(t)
      /\ worker'.from = from
      /\ told' = {} /\ command' = command /\ now' = now /\ hubStart' = hubStart
  BY <1>1, StoreBegins
<1>3. LagOK'
  BY <1>2 DEF LagInv, LagOK
<1>4. read'.busy => ~read'.clean
  BY <1>1, StoreDuringRead
<1> QED BY <1>3, <1>4 DEF CleanOK

LEMMA TailLag ==
  ASSUME LagInv, msgs # <<>>, msgs' = Tail(msgs)
  PROVE  /\ Head(msgs) \in Message
         /\ Head(msgs).from = (now - Head(msgs).age) - Head(msgs).t * K
         /\ \A i \in DOMAIN msgs' : msgs'[i].from = (now - msgs'[i].age) - msgs'[i].t * K
<1>1. msgs \in Seq(Message)
  BY DEF LagInv, ReadInv, TimeInv, MessagesOK
<1>2. /\ \A i \in DOMAIN msgs' : i + 1 \in DOMAIN msgs /\ msgs'[i] = msgs[i + 1]
      /\ Head(msgs) = msgs[1] /\ 1 \in DOMAIN msgs /\ Head(msgs) \in Message
  BY <1>1
<1> QED BY <1>2 DEF LagInv, LagOK

LEMMA LagStep == LagInv /\ [TimeNext]_timeVars => LagOK' /\ CleanOK'
<1> SUFFICES ASSUME LagInv, [TimeNext]_timeVars
             PROVE  LagOK' /\ CleanOK'
  OBVIOUS
<1>1. /\ ReadInv /\ ClocksOK /\ ReadingOK /\ ToldOK /\ LagOK /\ CleanOK
      /\ msgs \in Seq(Message) /\ command \in Commanding /\ worker \in Storing
      /\ now \in Int /\ hubStart \in Int
  BY Numbers, InstantsAreIntegers DEF LagInv, ReadInv, TimeInv, ClocksOK, MessagesOK
<1>2. ASSUME UNCHANGED <<now, hubStart, start, command, msgs, worker, read, told>>
      PROVE  LagOK' /\ CleanOK'
  BY <1>1, <1>2 DEF LagOK, CleanOK, Whole
<1>3. CASE PiezoStep \/ UNCHANGED timeVars
  BY <1>2, <1>3 DEF PiezoStep, timeVars
<1>4. ASSUME NEW t \in SetTimes, NEW sync \in BOOLEAN, BeginCommand(t, sync)
      PROVE  LagOK' /\ CleanOK'
  BY <1>4, CommandLag
<1>5. CASE Broadcast
  <2>1. command' = NoCommand /\ UNCHANGED <<now, hubStart, start, worker, read, told>>
    BY <1>5 DEF Broadcast
  <2>2. ~command'.sync
    BY <2>1 DEF NoCommand
  <2>3. \A i \in DOMAIN msgs' : msgs'[i].from = (now - msgs'[i].age) - msgs'[i].t * K
    <3>1. CASE msgs' = msgs
      BY <1>1, <3>1 DEF LagOK
    <3>2. CASE command.sync /\ msgs' = Append(msgs, [t |-> command.t, from |-> hubStart, age |-> command.age])
      <4> DEFINE m == [t |-> command.t, from |-> hubStart, age |-> command.age]
      <4>1. m.from = (now - m.age) - m.t * K
        BY <1>1, <3>2 DEF LagOK
      <4>2. m \in Message /\ msgs' = Append(msgs, m)
        BY <1>1, <3>2 DEF Commanding, Message, ReadInv, TimeInv, ClocksOK
      <4> HIDE DEF m
      <4>3. \A i \in DOMAIN msgs' : msgs'[i] = m \/ (i \in DOMAIN msgs /\ msgs'[i] = msgs[i])
        BY <1>1, <4>2
      <4> QED BY <1>1, <4>1, <4>3 DEF LagOK
    <3> QED BY <1>5, <3>1, <3>2 DEF Broadcast
  <2> QED BY <1>1, <2>1, <2>2, <2>3 DEF LagOK, CleanOK, Whole
<1>6. CASE Lose
  <2>1. /\ msgs # <<>> /\ msgs' = Tail(msgs)
        /\ UNCHANGED <<now, hubStart, start, command, worker, read, told>>
    BY <1>6 DEF Lose
  <2>2. \A i \in DOMAIN msgs' : msgs'[i].from = (now - msgs'[i].age) - msgs'[i].t * K
    BY <2>1, TailLag
  <2> QED BY <1>1, <2>1, <2>2 DEF LagOK, CleanOK, Whole
<1>7. CASE Receive
  <2> DEFINE t == Head(msgs).t
             age == Head(msgs).age
             hub == Head(msgs).from
             p == t * K
  <2>1. msgs # <<>> /\ msgs' = Tail(msgs) /\ BeginStore(t, {hub})
    BY <1>7 DEF Receive
  <2>2. t \in SetTimes /\ hub \in Instant /\ age \in 0 .. Delay /\ hub = (now - age) - p
    BY <2>1, TailLag DEF Message
  <2>3. \A i \in DOMAIN msgs' : msgs'[i].from = (now - msgs'[i].age) - msgs'[i].t * K
    BY <2>1, TailLag
  <2>4. StartFor(t) = now - p /\ p \in Int
    <3> HIDE DEF t
    <3>1. \A x \in SetTimes : x \in Int
      BY TimesAssumption, WidthAssumption
    <3>2. t \in Int /\ K \in Int
      BY <2>2, <3>1, WidthAssumption
    <3> QED BY <3>2 DEF StartFor
  <2> HIDE DEF t, age, hub, p
  <2>5. StartFor(t) - hub \in 0 .. Delay
    <3>1. (now - p) - ((now - age) - p) = age
      BY <1>1, <2>2, <2>4, Numbers
    <3> QED BY <2>2, <2>4, <3>1
  <2>6. \A x \in {hub} : StartFor(t) - x \in 0 .. Delay
    BY <2>5
  <2>7. {hub} \in SUBSET Instant
    BY <2>2
  <2> QED BY <2>1, <2>2, <2>3, <2>6, <2>7, StoreLag
<1>8. ASSUME NEW t \in SetTimes, Heartbeat(t)
      PROVE  LagOK' /\ CleanOK'
  <2>1. BeginStore(t, {}) /\ msgs' = msgs
    BY <1>8 DEF Heartbeat
  <2>2. \A i \in DOMAIN msgs' : msgs'[i].from = (now - msgs'[i].age) - msgs'[i].t * K
    BY <1>1, <2>1 DEF LagOK
  <2> QED BY <2>1, <2>2, StoreLag
<1>9. ASSUME NEW h \in Both, StoreHalf(h)
      PROVE  LagOK' /\ CleanOK'
  <2>1. UNCHANGED <<now, hubStart, command, msgs, read>> /\ h \in worker.todo
    BY <1>9 DEF StoreHalf
  <2>2. told = {} /\ ~(read.busy /\ read.clean)
    BY <1>1, <2>1 DEF ToldOK, CleanOK
  <2>3. CASE worker.todo = {h}
    <3>1. /\ worker'.todo = {} /\ worker'.from = {} /\ told' = worker.from
          /\ start'[h] = Halves(worker.new)[h]
          /\ \A g \in Both \ {h} : start'[g] = start[g]
      BY <1>1, <1>9, <2>3, HalfStored
    <3>2. \A g \in Both : start'[g] = Halves(worker.new)[g]
      BY <1>1, <2>3, <3>1 DEF ReadInv, StoredOK
    <3>3. Whole(start') = Whole(Halves(worker.new))
      BY <3>2 DEF Whole, Both
    <3>4. Whole(start') = worker.new
      BY <1>1, <3>3, WholeOfHalves, InstantsAreIntegers DEF Storing
    <3>5. \A hub \in told' : Whole(start') - hub \in 0 .. Delay
      BY <1>1, <3>1, <3>4 DEF LagOK
    <3>6. LagOK'
      BY <1>1, <2>1, <3>1, <3>5 DEF LagOK, Whole
    <3>7. CleanOK'
      BY <2>1, <2>2 DEF CleanOK
    <3> QED BY <3>6, <3>7
  <2>4. CASE worker.todo # {h}
    <3>1. /\ worker'.new = worker.new /\ worker'.from = worker.from
          /\ told' = told
      BY <1>1, <1>9, <2>4, HalfStored
    <3>2. LagOK'
      BY <1>1, <2>1, <2>2, <3>1 DEF LagOK
    <3>3. CleanOK'
      BY <2>1, <2>2 DEF CleanOK
    <3> QED BY <3>2, <3>3
  <2> QED BY <2>3, <2>4
<1>10. ASSUME NEW h \in Both, Load(h)
      PROVE  LagOK' /\ CleanOK'
  <2>1. /\ UNCHANGED <<now, hubStart, start, command, msgs, worker, told>>
        /\ read'.busy <=> read.busy
        /\ read'.clean <=> read.clean
        /\ h \in read.todo /\ read'.todo = read.todo \ {h}
        /\ read'.got[h] = start[h]
        /\ \A g \in Both \ {h} : read'.got[g] = read.got[g]
    BY <1>1, <1>10, HalfLoaded DEF Load
  <2>2. LagOK'
    BY <1>1, <2>1 DEF LagOK, Whole
  <2>3. CleanOK'
    BY <1>1, <2>1 DEF CleanOK
  <2> QED BY <2>2, <2>3
<1>11. CASE Reboot
  <2>1. /\ UNCHANGED <<now, hubStart, command, msgs>>
        /\ told' = {} /\ worker'.from = {} /\ ~read'.busy
    BY <1>11 DEF Reboot, NoStore, NoRead
  <2> QED BY <1>1, <2>1 DEF LagOK, CleanOK
<1>12. CASE BeginRead
  <2>1. /\ UNCHANGED <<now, hubStart, start, command, msgs, worker, told>>
        /\ read'.busy /\ read'.todo = Both
        /\ read'.clean <=> worker.todo = {}
    BY <1>1, <1>12, ReadBegins DEF BeginRead
  <2>2. LagOK'
    BY <1>1, <2>1 DEF LagOK, Whole
  <2>3. CleanOK'
    BY <1>1, <2>1 DEF CleanOK
  <2> QED BY <2>2, <2>3
<1>13. CASE PushClick
  <2>1. /\ UNCHANGED <<now, hubStart, start, command, msgs, worker, told>>
        /\ ~read'.busy
    BY <1>13 DEF PushClick, NoRead
  <2> QED BY <1>1, <2>1 DEF LagOK, CleanOK, Whole
<1>14. CASE Tick
  <2>1. /\ now' = now + 1
        /\ command' = IF command.sync THEN Older(command) ELSE command
        /\ msgs' = [i \in DOMAIN msgs |-> Older(msgs[i])]
        /\ UNCHANGED <<hubStart, start, worker, read, told>>
    BY <1>14 DEF Tick
  <2>2. ASSUME NEW a \in Int
        PROVE  now' - (a + 1) = now - a
    BY <1>1, <2>1
  <2>3. command'.sync => hubStart' = (now' - command'.age) - command'.t * K
    <3>1. CASE command.sync
      <4>1. command'.age = command.age + 1 /\ command'.t = command.t /\ command.age \in Int
        BY <1>1, <2>1, <3>1, Numbers DEF Older, Commanding
      <4>2. hubStart = (now - command.age) - command.t * K
        BY <1>1, <3>1 DEF LagOK
      <4> QED BY <2>1, <2>2, <4>1, <4>2
    <3> QED BY <2>1, <3>1
  <2>4. ASSUME NEW i \in DOMAIN msgs'
        PROVE  msgs'[i].from = (now' - msgs'[i].age) - msgs'[i].t * K
    <3>1. i \in DOMAIN msgs /\ msgs'[i] = Older(msgs[i]) /\ msgs[i] \in Message
      BY <1>1, <2>1, <2>4
    <3>2. /\ msgs'[i].age = msgs[i].age + 1 /\ msgs'[i].t = msgs[i].t /\ msgs[i].age \in Int
          /\ msgs'[i].from = msgs[i].from
      BY <3>1, Numbers DEF Older, Message
    <3>3. msgs[i].from = (now - msgs[i].age) - msgs[i].t * K
      BY <1>1, <3>1 DEF LagOK
    <3> QED BY <2>2, <3>2, <3>3
  <2>5. LagOK'
    BY <1>1, <2>1, <2>3, <2>4 DEF LagOK, Whole
  <2>6. CleanOK'
    BY <1>1, <2>1 DEF CleanOK
  <2> QED BY <2>5, <2>6
<1>15. CASE Restart
  <2>1. /\ command' = NoCommand
        /\ UNCHANGED <<now, start, msgs, worker, read, told>>
    BY <1>15 DEF Restart
  <2>2. ~command'.sync
    BY <2>1 DEF NoCommand
  <2> QED BY <1>1, <2>1, <2>2 DEF LagOK, CleanOK, Whole
<1> QED BY <1>3, <1>4, <1>5, <1>6, <1>7, <1>8, <1>9, <1>10, <1>11, <1>12, <1>13, <1>14, <1>15,
           Numbers DEF TimeNext

LEMMA LagInvAlways == TimeSpec => []LagInv
<1>1. TimeInit => LagOK /\ CleanOK
  <2> SUFFICES ASSUME TimeInit
               PROVE  LagOK /\ CleanOK
    OBVIOUS
  <2>1. ~command.sync /\ worker.from = {} /\ told = {} /\ ~read.busy /\ msgs = <<>>
    BY DEF TimeInit, NoCommand, NoStore, NoRead
  <2>2. \A i \in DOMAIN msgs : FALSE
    BY <2>1
  <2> QED BY <2>1, <2>2 DEF LagOK, CleanOK
<1>2. ReadInv /\ LagOK /\ CleanOK /\ [TimeNext]_timeVars => LagOK' /\ CleanOK'
  BY LagStep DEF LagInv
<1> QED BY <1>1, <1>2, ReadInvAlways, PTL DEF TimeSpec, LagInv

\* The time of a click lags the clock that the hub had at the set_time in force by
\* the transmission at most and is never ahead of it, whatever the width of the
\* clock, wherever the game time wraps and whatever commands and restarts the hub
\* has had since.
THEOREM ClicksAlwaysLag == TimeSpec => []ClicksLagTheHub
<1>1. ASSUME LagInv, Finished, read.clean, NEW hub \in told
      PROVE  (TimeAt(now, hub) - TimeOfRead) % TimeMod <= (Delay + K - 1) \div K
  <2>1. \A h \in Both : read.got[h] = start[h]
    BY <1>1 DEF LagInv, CleanOK, Finished
  <2>2. Whole(read.got) = Whole(start)
    BY <2>1 DEF Whole, Both
  <2>3. Whole(start) - hub \in 0 .. Delay
    BY <1>1 DEF LagInv, LagOK
  <2>4. now \in Int /\ hub \in Int /\ Whole(start) \in Int
    BY <1>1, Numbers, InstantsAreIntegers, PiecesAreIntegers
       DEF LagInv, ReadInv, TimeInv, ClocksOK, ToldOK
  <2>5. (TimeAt(now, hub) - TimeAt(now, Whole(start))) % TimeMod <= (Delay + K - 1) \div K
    BY <2>3, <2>4, CloseTimes
  <2> QED BY <2>2, <2>5 DEF TimeOfRead
<1>2. LagInv => ClicksLagTheHub
  BY <1>1 DEF ClicksLagTheHub
<1> QED BY <1>2, LagInvAlways, PTL
=============================================================================
