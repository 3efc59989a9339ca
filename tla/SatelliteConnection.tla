------------------------- MODULE SatelliteConnection ------------------------
(***************************************************************************)
(* One satellite's connection flag and timestamp, access by access.        *)
(*                                                                         *)
(* s_connected and s_last_server_packet (satellite_client_espnow.c) are    *)
(* volatile and shared, with no lock, by the ESP-NOW worker, which writes  *)
(* them for every packet and for an assignment, and by the discovery task, *)
(* which reads them to time the connection out and clears them.  Both have *)
(* the same priority and no core of their own, so any step of the one may  *)
(* come between two steps of the other.                                    *)
(*                                                                         *)
(* Ticks are unsigned and wrap at TickLimit.                               *)
(***************************************************************************)
EXTENDS Naturals

CONSTANTS TickLimit,    \* 2^32 in the code
          TimeoutTicks, \* CONFIG_ESPNOW_CONNECTION_TIMEOUT_MS
          Interval,     \* CONFIG_ESPNOW_DISCOVERY_INTERVAL_MS
          MaxLag        \* ticks that may pass while a task is at work

ASSUME TicksAssumption ==
  /\ TickLimit \in Nat /\ TimeoutTicks \in Nat /\ MaxLag \in Nat
  /\ Interval \in Nat \ {0}
  /\ TimeoutTicks + Interval + 2 * MaxLag + 1 < TickLimit

VARIABLES
  tick,                  \* xTaskGetTickCount
  s_connected,
  s_last_server_packet,
  worker,                \* where the worker is, and the packet it has
  stamp,                 \* the tick count it has read
  task,                  \* where the discovery task is
  now,                   \* the tick count it has read
  delay,                 \* ticks left of its vTaskDelay
  lag,                   \* ticks since one of the two was last idle with the other
  quiet                  \* ticks since the worker began a packet (an observer)

vars == <<tick, s_connected, s_last_server_packet, worker, stamp, task, now, delay, lag, quiet>>

shared     == <<s_connected, s_last_server_packet>>
workerVars == <<worker, stamp>>
taskVars   == <<task, now, delay>>

\* The silence after which an undisturbed satellite is back in discovery ...
Patience == TimeoutTicks + Interval + MaxLag

\* ... and any satellite: a race costs one more turn of the loop, late by the
\* task's own lag, the worker's and that of the turn before.
RacePatience == Patience + Interval + 3 * MaxLag

\* quiet counts up to here; no property tells longer silences apart.
QuietLimit == RacePatience + 1

\* Mutant of Elapsed: a signed difference, negative once the count has wrapped.
ElapsedSigned(t, last) == IF t >= last THEN t - last ELSE 0

\* now - last, in TickType_t.
Elapsed(t, last) == (t + TickLimit - last) % TickLimit

-----------------------------------------------------------------------------
(* The worker: satellite_client_rx and, for an assignment, set_connected. *)

WorkerGoes(to) == worker' = [worker EXCEPT !.at = to]

TakePacket(kind) ==
  /\ worker.at = "idle"
  /\ worker' = [at |-> "test", packet |-> kind]
  /\ quiet' = 0
  /\ UNCHANGED <<tick, shared, stamp, taskVars, lag>>

TestConnected ==
  /\ worker.at = "test"
  /\ WorkerGoes(IF s_connected THEN "stamp" ELSE "callback")
  /\ UNCHANGED <<tick, shared, stamp, taskVars, lag, quiet>>

\* Both writes of the timestamp read the tick count first.
ReadStamp ==
  /\ worker.at \in {"stamp", "connectStamp"}
  /\ stamp' = tick
  /\ WorkerGoes(IF worker.at = "stamp" THEN "refresh" ELSE "connectLast")
  /\ UNCHANGED <<tick, shared, taskVars, lag, quiet>>

Refresh ==
  /\ worker.at = "refresh"
  /\ s_last_server_packet' = stamp
  /\ WorkerGoes("callback")
  /\ UNCHANGED <<tick, s_connected, stamp, taskVars, lag, quiet>>

\* The callback: only an assignment comes back to the connection.
Callback ==
  /\ worker.at = "callback"
  /\ IF worker.packet = "assign"
     THEN s_connected' = TRUE /\ WorkerGoes("connectStamp")
     ELSE UNCHANGED s_connected /\ WorkerGoes("idle")
  /\ UNCHANGED <<tick, s_last_server_packet, stamp, taskVars, lag, quiet>>

ConnectLast ==
  /\ worker.at = "connectLast"
  /\ s_last_server_packet' = stamp
  /\ WorkerGoes("idle")
  /\ UNCHANGED <<tick, s_connected, stamp, taskVars, lag, quiet>>

Worker == TestConnected \/ ReadStamp \/ Refresh \/ Callback \/ ConnectLast

-----------------------------------------------------------------------------
(* The discovery task. *)

BeginTurn ==
  /\ task = "sleep" /\ delay = 0
  /\ task' = IF s_connected THEN "readNow" ELSE "search"
  /\ UNCHANGED <<tick, shared, workerVars, now, delay, lag, quiet>>

ReadNow ==
  /\ task = "readNow"
  /\ now' = tick
  /\ task' = "compare"
  /\ UNCHANGED <<tick, shared, workerVars, delay, lag, quiet>>

Compare ==
  /\ task = "compare"
  /\ task' = IF Elapsed(now, s_last_server_packet) > TimeoutTicks THEN "disconnect" ELSE "search"
  /\ UNCHANGED <<tick, shared, workerVars, now, delay, lag, quiet>>

\* satellite_client_espnow_timeout
Disconnect ==
  /\ task = "disconnect"
  /\ s_connected' = FALSE
  /\ task' = "forget"
  /\ UNCHANGED <<tick, s_last_server_packet, workerVars, now, delay, lag, quiet>>

Forget ==
  /\ task = "forget"
  /\ s_last_server_packet' = 0
  /\ task' = "search"
  /\ UNCHANGED <<tick, s_connected, workerVars, now, delay, lag, quiet>>

\* The second test of the flag, the broadcast, and the delay.
EndTurn ==
  /\ task = "search"
  /\ task' = IF s_connected THEN "sleep" ELSE "broadcast"
  /\ delay' = IF s_connected THEN Interval ELSE delay
  /\ UNCHANGED <<tick, shared, workerVars, now, lag, quiet>>

SendDiscovery ==
  /\ task = "broadcast"
  /\ task' = "sleep"
  /\ delay' = Interval
  /\ UNCHANGED <<tick, shared, workerVars, now, lag, quiet>>

Task == BeginTurn \/ ReadNow \/ Compare \/ Disconnect \/ Forget \/ EndTurn \/ SendDiscovery

-----------------------------------------------------------------------------
Idle == worker.at = "idle" /\ task = "sleep" /\ delay > 0

Lesser(m, n) == IF m < n THEN m ELSE n

\* Mutant of Tick: the count does not wrap.
TickUnwrapped ==
  /\ Idle \/ lag < MaxLag
  /\ tick' = tick + 1
  /\ lag' = IF Idle THEN 0 ELSE lag + 1
  /\ delay' = IF task = "sleep" /\ delay > 0 THEN delay - 1 ELSE delay
  /\ quiet' = Lesser(quiet + 1, QuietLimit)
  /\ UNCHANGED <<shared, workerVars, task, now>>

\* A tick interrupts anything, but a task at work is not kept from finishing
\* for more than MaxLag of them.
Tick ==
  /\ Idle \/ lag < MaxLag
  /\ tick' = (tick + 1) % TickLimit
  /\ lag' = IF Idle THEN 0 ELSE lag + 1
  /\ delay' = IF task = "sleep" /\ delay > 0 THEN delay - 1 ELSE delay
  /\ quiet' = Lesser(quiet + 1, QuietLimit)
  /\ UNCHANGED <<shared, workerVars, task, now>>

Init ==
  /\ tick = 0
  /\ s_connected = FALSE
  /\ s_last_server_packet = 0
  /\ worker = [at |-> "idle", packet |-> "other"]
  /\ stamp = 0
  /\ task = "sleep" /\ now = 0 /\ delay = 0
  /\ lag = 0
  /\ quiet = 0

Next == \/ \E kind \in {"assign", "other"} : TakePacket(kind)
        \/ Worker
        \/ Task
        \/ Tick

Spec == Init /\ [][Next]_vars

\* Both tasks run whenever they can, and time passes.
FairSpec == Spec /\ WF_vars(Worker) /\ WF_vars(Task) /\ WF_vars(Tick)

-----------------------------------------------------------------------------
(* Properties. *)

TypeOK ==
  /\ tick \in 0 .. TickLimit - 1
  /\ s_connected \in BOOLEAN
  /\ s_last_server_packet \in 0 .. TickLimit - 1
  /\ worker \in [at : {"idle", "test", "stamp", "refresh", "callback",
                       "connectStamp", "connectLast"},
                 packet : {"assign", "other"}]
  /\ stamp \in 0 .. TickLimit - 1
  /\ task \in {"sleep", "readNow", "compare", "disconnect", "forget", "search", "broadcast"}
  /\ now \in 0 .. TickLimit - 1
  /\ delay \in 0 .. Interval
  /\ lag \in 0 .. MaxLag
  /\ quiet \in 0 .. QuietLimit

\* A satellite that hears nothing any more returns to discovery, whatever the
\* two tasks did to the flag and the timestamp before, and wherever the tick
\* count wraps.
SilenceEndsInSearch == []<>(~s_connected \/ worker.at # "idle")

\* And it does so in time: the races between the two tasks (a timestamp cleared
\* after a new connection, close to a wrap of the tick count, or written from a
\* count read before) delay the return to discovery by no more than one turn of
\* the loop and the lags.  One tick less would not hold.
GivesUpInTime == s_connected => quiet <= RacePatience
=============================================================================
