---------------------- MODULE SatelliteConnectionProofs -----------------------
(***************************************************************************)
(* Theorems about SatelliteConnection, for every width of the tick count,  *)
(* timeout, interval and lag: however the worker and the discovery task    *)
(* interleave, and wherever the count wraps, a satellite that hears        *)
(* nothing is back in discovery after RacePatience.                        *)
(*                                                                         *)
(* While the worker has a packet the silence is young (Busy).  After that  *)
(* nobody but the discovery task moves the flag and the timestamp, and     *)
(* where that task is bounds the silence (Late): the timestamp may be old, *)
(* which ends the connection early, or younger than the silence, by no     *)
(* more than the task took to clear it after the packet (Stamped).  So the *)
(* timestamp ends the connection too, and before its age wraps.            *)
(***************************************************************************)
EXTENDS SatelliteConnection, Integers, TLAPS

\* The age the discovery task would compute now, and the one it computes.
Age  == Elapsed(tick, s_last_server_packet)
Seen == Elapsed(now, s_last_server_packet)

\* The timestamp is younger than the silence by a turn of the loop at most.
Stamped == quiet <= Age + Interval + 2 * MaxLag

Asleep ==
  /\ task = "sleep" /\ delay > 0
  /\ \/ quiet + delay <= Interval + MaxLag
     \/ Age + delay <= Patience /\ Stamped

Waking ==
  /\ (task = "sleep" /\ delay = 0) \/ task = "readNow"
  /\ \/ quiet <= Interval + MaxLag + lag
     \/ Age <= Patience + lag /\ Stamped

Comparing ==
  /\ task = "compare"
  /\ quiet + MaxLag <= RacePatience + lag
  /\ Seen <= TimeoutTicks => Age <= TimeoutTicks + lag /\ Stamped

Leaving ==
  /\ task = "disconnect"
  /\ quiet + MaxLag <= RacePatience + lag

Staying ==
  /\ task = "search"
  /\ Age <= TimeoutTicks + lag /\ Stamped

\* Where the discovery task is when the worker's last packet is over.
Late == Asleep \/ Waking \/ Comparing \/ Leaving \/ Staying

\* No packet keeps the worker longer than the lag.
Busy == worker.at # "idle" => quiet <= lag

ConnInv ==
  /\ TypeOK
  /\ Busy
  /\ s_connected => quiet <= lag \/ Late

-----------------------------------------------------------------------------
(* Ticks. *)

LEMMA Sizes ==
  /\ TickLimit \in Nat /\ TimeoutTicks \in Nat /\ MaxLag \in Nat
  /\ Interval \in Nat /\ Interval >= 1
  /\ TimeoutTicks + Interval + 2 * MaxLag + 1 < TickLimit
  /\ Patience = TimeoutTicks + Interval + MaxLag
  /\ RacePatience = TimeoutTicks + 2 * Interval + 4 * MaxLag
  /\ QuietLimit = TimeoutTicks + 2 * Interval + 4 * MaxLag + 1
BY TicksAssumption DEF Patience, RacePatience, QuietLimit

\* A sum of two counts wraps at most once.
LEMMA WrapsOnce ==
  ASSUME NEW n \in Nat \ {0}, NEW x \in 0 .. (2 * n) - 1
  PROVE  x % n = IF x < n THEN x ELSE x - n
<1> DEFINE q == x \div n
           r == x % n
<1>1. q \in Int /\ r \in 0 .. n - 1 /\ x = (n * q) + r
  OBVIOUS
<1> HIDE DEF q, r
<1>2. q \in Nat
  <2>1. SUFFICES ASSUME q < 0 PROVE FALSE
    BY <1>1
  <2>2. -1 - q \in Nat
    BY <1>1, <2>1
  <2>3. n * (-1 - q) >= 0
    BY <2>2
  <2>4. n * (-1 - q) = (0 - n) - (n * q) /\ n * q \in Int
    BY <1>1
  <2> QED BY <1>1, <2>3, <2>4
<1>3. q < 2
  <2>1. SUFFICES ASSUME q >= 2 PROVE FALSE
    BY <1>2
  <2>2. q - 2 \in Nat
    BY <1>2, <2>1
  <2>3. n * (q - 2) >= 0
    BY <2>2
  <2>4. n * (q - 2) = (n * q) - (2 * n) /\ n * q \in Int
    BY <1>1
  <2> QED BY <1>1, <2>3, <2>4
<1>4. CASE q = 0
  BY <1>1, <1>4 DEF r
<1>5. CASE q = 1
  BY <1>1, <1>5 DEF r
<1> QED BY <1>2, <1>3, <1>4, <1>5

Count == 0 .. TickLimit - 1

\* The next tick.
LEMMA NextTick ==
  ASSUME NEW t \in Count
  PROVE  (t + 1) % TickLimit = IF t + 1 < TickLimit THEN t + 1 ELSE 0
<1> DEFINE x == t + 1
<1>1. x \in 0 .. (2 * TickLimit) - 1 /\ TickLimit \in Nat \ {0}
  BY Sizes DEF Count
<1>2. x % TickLimit = IF x < TickLimit THEN x ELSE x - TickLimit
  <2> HIDE DEF x
  <2> QED BY <1>1, WrapsOnce
<1> QED BY <1>2, Sizes DEF Count

\* Elapsed is the distance on the circle of the counts.
LEMMA ElapsedIs ==
  ASSUME NEW t \in Count, NEW last \in Count
  PROVE  Elapsed(t, last) = IF t >= last THEN t - last ELSE t + TickLimit - last
<1> DEFINE x == t + TickLimit - last
<1>1. x \in 0 .. (2 * TickLimit) - 1 /\ TickLimit \in Nat \ {0}
  BY Sizes DEF Count
<1>2. x % TickLimit = IF x < TickLimit THEN x ELSE x - TickLimit
  <2> HIDE DEF x
  <2> QED BY <1>1, WrapsOnce
<1> QED BY <1>2, Sizes DEF Count, Elapsed

LEMMA ElapsedIsNat ==
  ASSUME NEW t \in Count, NEW last \in Count
  PROVE  Elapsed(t, last) \in Nat
BY ElapsedIs, Sizes DEF Count

\* A tick adds one to it, unless it wraps.
LEMMA ElapsedGrows ==
  ASSUME NEW t \in Count, NEW last \in Count, Elapsed(t, last) + 1 < TickLimit
  PROVE  /\ (t + 1) % TickLimit \in Count
         /\ Elapsed((t + 1) % TickLimit, last) = Elapsed(t, last) + 1
<1>1. (t + 1) % TickLimit \in Count
  BY NextTick, Sizes DEF Count
<1> QED BY <1>1, NextTick, ElapsedIs, Sizes DEF Count

-----------------------------------------------------------------------------
(* The types. *)

LEMMA TypeStep == TypeOK /\ [Next]_vars => TypeOK'
<1> SUFFICES ASSUME TypeOK, [Next]_vars
             PROVE  TypeOK'
  OBVIOUS
<1> USE DEF TypeOK
<1>1. 0 \in 0 .. TickLimit - 1 /\ 0 \in 0 .. MaxLag /\ 0 \in 0 .. QuietLimit
      /\ Interval \in 0 .. Interval
  BY Sizes
<1>2. ASSUME NEW kind \in {"assign", "other"}, TakePacket(kind)
      PROVE  TypeOK'
  BY <1>1, <1>2 DEF TakePacket, shared, taskVars
<1>3. CASE Worker
  <2>1. CASE TestConnected
    BY <2>1 DEF TestConnected, WorkerGoes, shared, taskVars
  <2>2. CASE ReadStamp
    BY <2>2 DEF ReadStamp, WorkerGoes, shared, taskVars
  <2>3. CASE Refresh
    BY <2>3 DEF Refresh, WorkerGoes, taskVars
  <2>4. CASE Callback
    BY <2>4 DEF Callback, WorkerGoes, taskVars
  <2>5. CASE ConnectLast
    BY <2>5 DEF ConnectLast, WorkerGoes, taskVars
  <2> QED BY <1>3, <2>1, <2>2, <2>3, <2>4, <2>5 DEF Worker
<1>4. CASE Task
  BY <1>1, <1>4 DEF Task, BeginTurn, ReadNow, Compare, Disconnect, Forget, EndTurn,
                    SendDiscovery, shared, workerVars
<1>5. CASE Tick
  <2>1. (tick + 1) % TickLimit \in 0 .. TickLimit - 1
    BY NextTick, Sizes DEF Count
  <2>2. lag' \in 0 .. MaxLag
    BY <1>1, <1>5, Sizes DEF Tick
  <2>3. quiet' \in 0 .. QuietLimit
    BY <1>5, Sizes DEF Tick, Lesser
  <2>4. delay' \in 0 .. Interval
    BY <1>5, Sizes DEF Tick
  <2> QED BY <1>5, <2>1, <2>2, <2>3, <2>4 DEF Tick, shared, workerVars
<1>6. CASE UNCHANGED vars
  BY <1>6 DEF vars, shared, workerVars, taskVars
<1> QED BY <1>2, <1>3, <1>4, <1>5, <1>6 DEF Next

-----------------------------------------------------------------------------
(* The silence. *)

\* What the arithmetic of a state of the invariant needs.
LEMMA Numbers ==
  ASSUME TypeOK
  PROVE  /\ tick \in Count /\ s_last_server_packet \in Count /\ now \in Count
         /\ Age \in Nat /\ Seen \in Nat
         /\ delay \in Nat /\ delay <= Interval
         /\ lag \in Nat /\ lag <= MaxLag
         /\ quiet \in Nat
<1>1. /\ tick \in Count /\ s_last_server_packet \in Count /\ now \in Count
      /\ delay \in Nat /\ delay <= Interval /\ lag \in Nat /\ lag <= MaxLag /\ quiet \in Nat
  BY Sizes DEF TypeOK, Count
<1> QED BY <1>1, ElapsedIsNat DEF Age, Seen

\* The steps of the worker leave the silence as young as they found it.
LEMMA WorkerKeeps ==
  ASSUME ConnInv, TypeOK', Worker
  PROVE  ConnInv'
<1>1. quiet <= lag /\ quiet' = quiet /\ lag' = lag
  BY DEF ConnInv, Busy, Worker, TestConnected, ReadStamp, Refresh, Callback, ConnectLast
<1> QED BY <1>1 DEF ConnInv, Busy

\* An early silence stays early until the next tick.
LEMMA TaskKeeps ==
  ASSUME ConnInv, TypeOK', Task
  PROVE  ConnInv'
<1>1. /\ worker' = worker /\ lag' = lag /\ quiet' = quiet /\ tick' = tick
  BY DEF Task, BeginTurn, ReadNow, Compare, Disconnect, Forget, EndTurn, SendDiscovery,
         workerVars
<1>2. Busy'
  BY <1>1 DEF ConnInv, Busy
<1>3. ASSUME s_connected', ~(quiet <= lag)
      PROVE  Late'
  <2> USE Sizes, Numbers DEF ConnInv, Stamped
  <2>1. CASE BeginTurn
    <3>1. s_connected /\ s_last_server_packet' = s_last_server_packet /\ task' = "readNow"
      BY <1>3, <2>1 DEF BeginTurn, shared
    <3>2. Waking
      BY <1>3, <2>1, <3>1 DEF BeginTurn, Late, Asleep, Waking, Comparing, Leaving, Staying
    <3>3. Waking'
      BY <1>1, <3>1, <3>2 DEF Waking, Age
    <3> QED BY <3>3 DEF Late
  <2>2. CASE ReadNow
    <3>1. /\ s_connected /\ s_last_server_packet' = s_last_server_packet
          /\ task' = "compare" /\ now' = tick
      BY <1>3, <2>2 DEF ReadNow, shared
    <3>2. Waking
      BY <1>3, <2>2, <3>1 DEF ReadNow, Late, Asleep, Waking, Comparing, Leaving, Staying
    <3>3. Age' = Age /\ Seen' = Age
      BY <1>1, <3>1 DEF Age, Seen
    <3>4. quiet + MaxLag <= RacePatience + lag
      BY <3>2 DEF Waking
    <3>5. Age <= TimeoutTicks => Stamped
      BY <3>2 DEF Waking
    <3>6. Comparing'
      BY <1>1, <3>1, <3>3, <3>4, <3>5 DEF Comparing
    <3> QED BY <3>6 DEF Late
  <2>3. CASE Compare
    <3>1. s_connected /\ s_last_server_packet' = s_last_server_packet
      BY <1>3, <2>3 DEF Compare, shared
    <3>2. Comparing
      BY <1>3, <2>3, <3>1 DEF Compare, Late, Asleep, Waking, Comparing, Leaving, Staying
    <3>3. Age' = Age
      BY <1>1, <3>1 DEF Age
    <3>4. CASE Seen > TimeoutTicks
      BY <1>1, <2>3, <3>2, <3>4 DEF Compare, Comparing, Seen, Late, Leaving
    <3>5. CASE Seen <= TimeoutTicks
      <4>1. task' = "search"
        BY <2>3, <3>5 DEF Compare, Seen
      <4> QED BY <1>1, <3>2, <3>3, <3>5, <4>1 DEF Comparing, Late, Staying
    <3> QED BY <3>4, <3>5
  <2>4. CASE Disconnect
    BY <1>3, <2>4 DEF Disconnect
  <2>5. CASE Forget
    BY <1>3, <2>5 DEF Forget, Late, Asleep, Waking, Comparing, Leaving, Staying
  <2>6. CASE EndTurn
    <3>1. s_connected /\ s_last_server_packet' = s_last_server_packet
      BY <1>3, <2>6 DEF EndTurn, shared
    <3>2. Staying
      BY <1>3, <2>6, <3>1 DEF EndTurn, Late, Asleep, Waking, Comparing, Leaving, Staying
    <3>3. task' = "sleep" /\ delay' = Interval
      BY <2>6, <3>1 DEF EndTurn
    <3>4. Age' = Age
      BY <1>1, <3>1 DEF Age
    <3>5. Asleep'
      BY <1>1, <3>2, <3>3, <3>4 DEF Staying, Asleep
    <3> QED BY <3>5 DEF Late
  <2>7. CASE SendDiscovery
    BY <1>3, <2>7 DEF SendDiscovery, shared, Late, Asleep, Waking, Comparing, Leaving, Staying
  <2> QED BY <2>1, <2>2, <2>3, <2>4, <2>5, <2>6, <2>7 DEF Task
<1> QED BY <1>1, <1>2, <1>3 DEF ConnInv

\* A tick makes the silence and the timestamp older alike, and the turn of the
\* loop nearer.
LEMMA TickKeeps ==
  ASSUME ConnInv, TypeOK', Tick
  PROVE  ConnInv'
<1> USE Sizes, Numbers DEF ConnInv
<1>1. /\ worker' = worker /\ task' = task /\ now' = now /\ s_connected' = s_connected
      /\ s_last_server_packet' = s_last_server_packet
      /\ tick' = (tick + 1) % TickLimit
      /\ lag' = IF Idle THEN 0 ELSE lag + 1
      /\ delay' = IF task = "sleep" /\ delay > 0 THEN delay - 1 ELSE delay
  BY DEF Tick, shared, workerVars
<1>2. PICK q \in Nat : q = quiet' /\ q <= quiet + 1
  BY DEF Tick, Lesser
<1>3. PICK l \in Nat : /\ l = lag' /\ l <= MaxLag
                      /\ (Idle => l = 0) /\ (~Idle => l = lag + 1)
  BY <1>1 DEF TypeOK
<1>4. Seen' = Seen
  BY <1>1 DEF Seen
<1>5. Age + 1 < TickLimit => Age' = Age + 1
  BY <1>1, ElapsedGrows DEF Age
<1>6. Busy'
  BY <1>1, <1>2, <1>3 DEF Busy, Idle
<1>7. ASSUME s_connected, quiet <= lag
      PROVE  quiet' <= lag' \/ Late'
  <2>1. CASE ~Idle
    BY <1>1, <1>2, <1>7, <2>1
  <2>2. CASE Idle
    <3>1. task' = "sleep" /\ delay' = delay - 1 /\ delay > 0
      BY <1>1, <2>2 DEF Idle
    <3>2. CASE delay - 1 > 0
      BY <1>2, <1>7, <3>1, <3>2 DEF Late, Asleep
    <3>3. CASE delay - 1 = 0
      <4>1. q <= Interval + MaxLag + l
        <5>1. q <= Interval + MaxLag
          BY <1>2, <1>7
        <5> QED BY <5>1
      <4> QED BY <1>2, <1>3, <3>1, <3>3, <4>1 DEF Late, Waking
    <3> QED BY <3>1, <3>2, <3>3
  <2> QED BY <2>1, <2>2
<1>8. ASSUME Late
      PROVE  Late'
  <2>1. Stamped /\ Age' = Age + 1 => Stamped'
    BY <1>2 DEF Stamped
  <2>2. CASE Asleep
    <3>1. delay' = delay - 1 /\ task' = "sleep" /\ delay > 0
      BY <1>1, <2>2 DEF Asleep
    <3>2. CASE quiet + delay <= Interval + MaxLag
      <4>1. q + (delay - 1) <= Interval + MaxLag
        BY <1>2, <3>2
      <4>2. CASE delay - 1 > 0
        BY <1>2, <3>1, <4>1, <4>2 DEF Late, Asleep
      <4>3. CASE delay - 1 = 0
        <5>1. q <= Interval + MaxLag
          BY <4>1, <4>3
        <5>2. q <= Interval + MaxLag + l
          BY <5>1
        <5> QED BY <1>2, <1>3, <3>1, <4>3, <5>2 DEF Late, Waking
      <4> QED BY <3>1, <4>2, <4>3
    <3>3. CASE Age + delay <= Patience /\ Stamped
      <4>1. Age' = Age + 1 /\ Stamped'
        BY <1>5, <2>1, <3>1, <3>3
      <4>2. CASE delay - 1 > 0
        BY <3>1, <3>3, <4>1, <4>2 DEF Late, Asleep
      <4>3. CASE delay - 1 = 0
        <5>1. Age + 1 <= Patience + l
          BY <3>3, <4>3
        <5> QED BY <1>3, <3>1, <4>1, <4>3, <5>1 DEF Late, Waking
      <4> QED BY <3>1, <4>2, <4>3
    <3> QED BY <2>2, <3>2, <3>3 DEF Asleep
  <2>3. ASSUME ~Idle
        PROVE  lag' = lag + 1 /\ lag + 1 <= MaxLag
    BY <1>1, <1>3, <2>3
  <2>4. CASE Waking
    <3>1. ~Idle
      BY <2>4 DEF Waking, Idle
    <3>2. Age <= Patience + lag /\ Stamped => Age' = Age + 1 /\ Stamped'
      BY <1>5, <2>1, <2>3, <3>1
    <3> QED BY <1>1, <1>2, <2>3, <2>4, <3>1, <3>2 DEF Late, Waking
  <2>5. CASE Comparing
    <3>1. ~Idle
      BY <2>5 DEF Comparing, Idle
    <3>2. Age <= TimeoutTicks + lag /\ Stamped => Age' = Age + 1 /\ Stamped'
      BY <1>5, <2>1, <2>3, <3>1
    <3> QED BY <1>1, <1>2, <1>4, <2>3, <2>5, <3>1, <3>2 DEF Late, Comparing
  <2>6. CASE Leaving
    <3>1. ~Idle
      BY <2>6 DEF Leaving, Idle
    <3> QED BY <1>1, <1>2, <2>3, <2>6, <3>1 DEF Late, Leaving
  <2>7. CASE Staying
    <3>1. ~Idle
      BY <2>7 DEF Staying, Idle
    <3>2. Age' = Age + 1 /\ Stamped'
      BY <1>5, <2>1, <2>3, <2>7, <3>1 DEF Staying
    <3> QED BY <1>1, <2>3, <2>7, <3>1, <3>2 DEF Late, Staying
  <2> QED BY <1>8, <2>2, <2>4, <2>5, <2>6, <2>7 DEF Late
<1> QED BY <1>1, <1>6, <1>7, <1>8

LEMMA ConnInvStep == ConnInv /\ [Next]_vars => ConnInv'
<1> SUFFICES ASSUME ConnInv, [Next]_vars
             PROVE  ConnInv'
  OBVIOUS
<1>1. TypeOK'
  BY TypeStep DEF ConnInv
<1>2. ASSUME NEW kind \in {"assign", "other"}, TakePacket(kind)
      PROVE  ConnInv'
  BY <1>1, <1>2, Numbers DEF TakePacket, ConnInv, Busy
<1>3. CASE UNCHANGED vars
  BY <1>3 DEF vars, ConnInv, TypeOK, Busy, Late, Asleep, Waking, Comparing, Leaving, Staying,
              Stamped, Age, Seen, Elapsed
<1> QED BY <1>1, <1>2, <1>3, WorkerKeeps, TaskKeeps, TickKeeps DEF Next

LEMMA ConnInvInit == Init => ConnInv
<1> SUFFICES ASSUME Init
             PROVE  ConnInv
  OBVIOUS
<1>1. /\ 0 \in 0 .. TickLimit - 1 /\ 0 \in 0 .. Interval /\ 0 \in 0 .. MaxLag
      /\ 0 \in 0 .. QuietLimit
  BY Sizes
<1>2. TypeOK
  BY <1>1 DEF Init, TypeOK
<1> QED BY <1>2 DEF Init, ConnInv, Busy

LEMMA ConnInvAlways == Spec => []ConnInv
BY ConnInvInit, ConnInvStep, PTL DEF Spec

-----------------------------------------------------------------------------
(* The theorems. *)

\* Every variable of the connection has its type; the tick count and what is
\* computed from it stay in the width of TickType_t.
THEOREM TypeCorrect == Spec => []TypeOK
<1>1. ConnInv => TypeOK
  BY DEF ConnInv
<1> QED BY <1>1, ConnInvAlways, PTL

\* A satellite is connected through no silence longer than RacePatience,
\* whatever the order in which the worker and the discovery task read and write
\* the flag and the timestamp, and wherever the tick count wraps.
THEOREM SilenceIsBounded == Spec => []GivesUpInTime
<1>1. ConnInv => GivesUpInTime
  <2> SUFFICES ASSUME ConnInv, s_connected
               PROVE  quiet <= RacePatience
    BY DEF GivesUpInTime
  <2> USE Sizes, Numbers DEF ConnInv, Stamped
  <2>1. CASE quiet <= lag
    BY <2>1
  <2>2. CASE Asleep
    BY <2>2 DEF Asleep
  <2>3. CASE Waking
    BY <2>3 DEF Waking
  <2>4. CASE Comparing \/ Leaving
    BY <2>4 DEF Comparing, Leaving
  <2>5. CASE Staying
    BY <2>5 DEF Staying
  <2> QED BY <2>1, <2>2, <2>3, <2>4, <2>5 DEF Late
<1> QED BY <1>1, ConnInvAlways, PTL
=============================================================================
