----------------------------- MODULE LinkTiming -----------------------------
(***************************************************************************)
(* SatelliteLink with its timers: the discovery interval, the connection   *)
(* timeout of the satellites and the heartbeat of the controller.          *)
(*                                                                         *)
(* Time passes in discovery intervals (500 ms).  In each of them every     *)
(* satellite runs one turn of its discovery loop, the controller sends a   *)
(* heartbeat when one is due, and the workers empty their queues: they run *)
(* at a priority nothing else in the firmware starves for half a second.   *)
(* Within an interval the order of all this is free.                       *)
(*                                                                         *)
(* Each step is a step of SatelliteLink; clicks, which reach no satellite  *)
(* and touch no timer, are left out.                                       *)
(***************************************************************************)
EXTENDS SatelliteLink

CONSTANTS TimeoutTicks,     \* CONFIG_ESPNOW_CONNECTION_TIMEOUT_MS, in intervals
          HeartbeatTicks    \* the heartbeat's period, rounded up to intervals

ASSUME TimersAssumption ==
  HeartbeatTicks \in Nat \ {0} /\ TimeoutTicks \in Nat /\ HeartbeatTicks < TimeoutTicks

VARIABLES
  age,      \* per satellite: intervals since s_last_server_packet was written
  looped,   \* the satellites whose loop has had its turn in this interval
  due,      \* intervals until the controller's next heartbeat
  silence,  \* per satellite: intervals since it took a packet of the
            \* controller's, up to MaxSilence (an observer)
  missed    \* per satellite: heartbeats sent to it and lost since then, up to
            \* Enough; Enough when the controller had none for it (an observer)

timers    == <<age, looped, due, silence, missed>>
timedVars == <<linkVars, timers>>

MaxAge     == TimeoutTicks + 1
MaxSilence == TimeoutTicks + 2

\* The heartbeats that fall in a silence longer than the timeout.
Enough == TimeoutTicks \div HeartbeatTicks

Lesser(m, n) == IF m < n THEN m ELSE n

-----------------------------------------------------------------------------
\* Mutant of Expired: an interval late.
ExpiredLate(s) == age[s] > TimeoutTicks + 1

Expired(s) == age[s] > TimeoutTicks

\* A turn of the discovery loop.
Turn(s, got) ==
  /\ s \notin looped
  /\ looped' = looped \cup {s}
  /\ \/ Search(s, got)
     \/ Expired(s) /\ Timeout(s, got)
     \/ s_connected[s] /\ ~Expired(s) /\ got = {} /\ UNCHANGED linkVars
  /\ UNCHANGED <<age, due, silence, missed>>

\* Mutant of Receive: only an assignment refreshes the connection.
ReceiveRefreshesOnAssign(s) ==
  /\ SatReceive(s)
  /\ age' = [age EXCEPT ![s] = IF Head(rxq[s]).type = "assign" THEN 0 ELSE @]
  /\ IF Head(rxq[s]).src = Server
     THEN /\ silence' = [silence EXCEPT ![s] = 0]
          /\ missed' = [missed EXCEPT ![s] = 0]
     ELSE UNCHANGED <<silence, missed>>
  /\ UNCHANGED <<looped, due>>

\* The worker of a satellite: a packet from anyone refreshes the connection.
Receive(s) ==
  /\ SatReceive(s)
  /\ age' = [age EXCEPT ![s] = IF s_connected[s] \/ s_connected'[s] THEN 0 ELSE @]
  /\ IF Head(rxq[s]).src = Server
     THEN /\ silence' = [silence EXCEPT ![s] = 0]
          /\ missed' = [missed EXCEPT ![s] = 0]
     ELSE UNCHANGED <<silence, missed>>
  /\ UNCHANGED <<looped, due>>

Reset(s) ==
  /\ SatReset(s)
  /\ looped' = looped \ {s}
  /\ age' = [age EXCEPT ![s] = 0]
  /\ silence' = [silence EXCEPT ![s] = 0]
  /\ missed' = [missed EXCEPT ![s] = 0]
  /\ UNCHANGED due

\* Mutant of HeartbeatTurn: the task sleeps for the connection timeout.
HeartbeatTurnTooRare(got) ==
  /\ s_initialized /\ due = 0
  /\ due' = TimeoutTicks
  /\ \/ Heartbeat(got)
     \/ Clients = {} /\ got = {} /\ UNCHANGED linkVars
  /\ missed' = [s \in Sat |-> IF s \in Clients /\ rxq'[s] = rxq[s]
                              THEN Lesser(missed[s] + 1, Enough)
                              ELSE missed[s]]
  /\ UNCHANGED <<age, looped, silence>>

\* A turn of the heartbeat task; without clients it sends nothing.
HeartbeatTurn(got) ==
  /\ s_initialized /\ due = 0
  /\ due' = HeartbeatTicks
  /\ \/ Heartbeat(got)
     \/ Clients = {} /\ got = {} /\ UNCHANGED linkVars
  /\ missed' = [s \in Sat |-> IF s \in Clients /\ rxq'[s] = rxq[s]
                              THEN Lesser(missed[s] + 1, Enough)
                              ELSE missed[s]]
  /\ UNCHANGED <<age, looped, silence>>

\* The heartbeat task starts with the protocol and sends at once.
Start == /\ ServerStart
         /\ due' = 0
         /\ UNCHANGED <<age, looped, silence, missed>>

Untimed ==
  /\ \/ ServerStop
     \/ \E s \in Sat : \E got \in SUBSET {s} : ServerDiscover(s, got)
  /\ UNCHANGED timers

Tick ==
  /\ looped = Sat
  /\ s_initialized => due > 0
  /\ \A n \in Node : rxq[n] = <<>>
  /\ looped' = {}
  /\ due' = IF s_initialized THEN due - 1 ELSE due
  /\ age' = [s \in Sat |-> IF s_connected[s] THEN Lesser(age[s] + 1, MaxAge) ELSE 0]
  /\ silence' = [s \in Sat |-> Lesser(silence[s] + 1, MaxSilence)]
  /\ missed' = [s \in Sat |-> IF s \in Clients THEN missed[s] ELSE Enough]
  /\ UNCHANGED linkVars

TimedInit ==
  /\ LinkInit
  /\ age = [s \in Sat |-> 0]
  /\ looped = {}
  /\ due = 0
  /\ silence = [s \in Sat |-> 0]
  /\ missed = [s \in Sat |-> 0]

TimedNext ==
  \/ Tick
  \/ Start
  \/ Untimed
  \/ \E got \in SUBSET Sat : HeartbeatTurn(got)
  \/ \E s \in Sat : \/ Receive(s) \/ Reset(s)
                    \/ \E got \in SUBSET (Node \ {s}) : Turn(s, got)

TimedSpec == TimedInit /\ [][TimedNext]_timedVars

-----------------------------------------------------------------------------
(* Properties. *)

TimedTypeOK ==
  /\ LinkTypeOK
  /\ age \in [Sat -> 0 .. MaxAge]
  /\ looped \in SUBSET Sat
  /\ due \in 0 .. HeartbeatTicks
  /\ silence \in [Sat -> 0 .. MaxSilence]
  /\ missed \in [Sat -> 0 .. Enough]

\* The heartbeat interval is short enough for the timeout: a satellite that the
\* controller knows gives its connection up only after every heartbeat of the
\* timeout (three, with the configured values) was lost.
TimeoutNeedsLosses ==
  \A s \in Sat : s_connected[s] /\ Expired(s) => missed[s] >= Enough

\* "If the client doesn't hear anything from the server for this long, it
\* returns to discovery mode": a satellite that has not had a packet of the
\* controller's for longer than the timeout is not connected, once its loop has
\* had its turn.
SilenceEndsConnection ==
  \A s \in Sat : silence[s] > TimeoutTicks /\ s \in looped => ~s_connected[s]
=============================================================================
