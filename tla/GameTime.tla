------------------------------ MODULE GameTime -------------------------------
(***************************************************************************)
(* The two clocks of a game: that of the controller, by which reports are  *)
(* stamped (runtime_inputframectx.c), and that of a satellite, by which    *)
(* its clicks are (runtime_client.c); with the commands of the PC that set *)
(* them (runtime_pccomm.c), the message between them, and the piezo task   *)
(* that reads the satellite's (Piezo).                                     *)
(*                                                                         *)
(* A clock is the instant at which the game time was zero: 64 bits, which  *)
(* a 32-bit core stores and loads in two halves, in no order one may rely  *)
(* on.  The satellite's clock is modelled like that; a half holds W values *)
(* here and an instant may be negative.  Game time is counted in units of  *)
(* K instants, modulo TimeMod.                                             *)
(***************************************************************************)
EXTENDS Piezo, Sequences

CONSTANTS W,          \* values of the low half, 2^32
          K,          \* 1000 microseconds in a millisecond
          TimeMod,    \* milliseconds in a uint32_t, 2^32
          SetTimes,   \* game times the PC sends, and what the stack may hold
          Delay,      \* from a command to its effect on the satellite
          MaxMsgs,    \* set_time messages under way
          MaxNow      \* end of the modelled time

ASSUME WidthAssumption == W \in Nat \ {0} /\ K \in Nat \ {0} /\ TimeMod \in Nat \ {0}
ASSUME TimesAssumption == SetTimes \subseteq 0 .. TimeMod - 1 /\ 0 \in SetTimes
ASSUME DelayAssumption == Delay \in Nat /\ (Delay + K - 1) \div K < TimeMod - 1
ASSUME BoundsAssumption == MaxMsgs \in Nat /\ MaxNow \in Nat

VARIABLES now,        \* esp_timer_get_time
          hubStart,   \* s_hub_time_start_us
          start,      \* s_game_time_start_us, in halves
          command,    \* the task of the PC commands at work on one
          msgs,       \* set_time messages on their way to the satellite
          worker,     \* the satellite's ESP-NOW worker storing a new start
          read,       \* the piezo callback loading it
          told        \* history: the clock of the hub at the command that the
                      \* satellite's clock is set by, if it is set by one

timeVars == <<piezo, impact, now, hubStart, start, command, msgs, worker, read, told>>

-----------------------------------------------------------------------------
(* Instants, halves and game times. *)

Both      == {"hi", "lo"}
Halves(v) == [hi |-> v \div W, lo |-> v % W]
Whole(h)  == h.hi * W + h.lo

\* runtime_client_get_game_time, runtime_inputframectx_get_time_ms.
TimeAt(instant, v) == IF instant <= v THEN 0 ELSE ((instant - v) \div K) % TimeMod

\* Mutant of StartFor: the start is an unsigned number.
StartForUnsigned(t) == (now - t * K) % (4 * TimeMod * K)

\* runtime_client_set_game_time, runtime_inputframectx_set_time.
StartFor(t) == now - t * K

NoCommand == [busy |-> FALSE, t |-> 0, sync |-> FALSE, age |-> 0]

\* `old' is being replaced by `new', in the halves `todo', as `from' told it.
NoStore == [todo |-> {}, old |-> 0, new |-> 0, from |-> {}]

\* `got' is what has been loaded; `values' what was in force meanwhile, more than
\* one if the read is not `clean'.
NoRead == [busy |-> FALSE, todo |-> {}, got |-> Halves(0), values |-> {}, clean |-> TRUE]

TimeInit ==
  /\ PiezoInit
  /\ now = 0 /\ hubStart = 0 /\ start = Halves(0)
  /\ command = NoCommand
  /\ msgs = <<>>
  /\ worker = NoStore
  /\ read = NoRead
  /\ told = {}

-----------------------------------------------------------------------------
(* The controller: SET_GAME_TIME and RESET_TIMEHUB. *)

\* The hub's own clock comes first.  `sync' tells SET_GAME_TIME from
\* RESET_TIMEHUB, which sends the satellites a request_status instead of a time.
BeginCommand(t, sync) ==
  /\ ~command.busy
  /\ hubStart' = StartFor(t)
  /\ command' = [busy |-> TRUE, t |-> t, sync |-> sync, age |-> 0]
  /\ UNCHANGED <<piezo, impact, now, start, msgs, worker, read, told>>

\* satellite_server_push_time, or a broadcast that sets no clock.  The radio may
\* lose the message.
Broadcast ==
  /\ command.busy
  /\ command' = NoCommand
  /\ \/ /\ command.sync /\ Len(msgs) < MaxMsgs
        /\ msgs' = Append(msgs, [t |-> command.t, from |-> hubStart, age |-> command.age])
     \/ UNCHANGED msgs
  /\ UNCHANGED <<piezo, impact, now, hubStart, start, worker, read, told>>

Lose ==
  /\ msgs # <<>>
  /\ msgs' = Tail(msgs)
  /\ UNCHANGED <<piezo, impact, now, hubStart, start, command, worker, read, told>>

\* The controller is stopped and started: its clock begins again, a command in
\* hand is lost, a message on its way is not, and the satellite's clock runs on.
Restart ==
  /\ hubStart' = now
  /\ command' = NoCommand
  /\ UNCHANGED <<piezo, impact, now, start, msgs, worker, read, told>>

-----------------------------------------------------------------------------
(* The satellite's worker. *)

\* Mutant of BeginStore: the time is added where it is to be taken off.
BeginStoreAdded(t, from) ==
  /\ worker.todo = {}
  /\ worker' = [todo |-> Both, old |-> Whole(start), new |-> now + t * K, from |-> from]
  /\ read' = IF read.busy THEN [read EXCEPT !.values = @ \cup {now + t * K}, !.clean = FALSE] ELSE read
  /\ told' = {}
  /\ UNCHANGED <<piezo, impact, now, hubStart, start, command>>

\* The worker is about to set the clock to game time t.
BeginStore(t, from) ==
  /\ worker.todo = {}
  /\ worker' = [todo |-> Both, old |-> Whole(start), new |-> StartFor(t), from |-> from]
  /\ read' = IF read.busy
             THEN [read EXCEPT !.values = @ \cup {StartFor(t)}, !.clean = FALSE] ELSE read
  /\ told' = {}
  /\ UNCHANGED <<piezo, impact, now, hubStart, start, command>>

Receive ==
  /\ msgs # <<>>
  /\ BeginStore(Head(msgs).t, {Head(msgs).from})
  /\ msgs' = Tail(msgs)

\* A heartbeat: its type and time are what the stack holds, perhaps those of a
\* SET_GAME_TIME or of a RESET_TIMEHUB (t = 0).
Heartbeat(t) ==
  /\ BeginStore(t, {})
  /\ UNCHANGED msgs

Stored(h) == IF worker.todo = {h}
             THEN worker' = NoStore /\ told' = worker.from
             ELSE worker' = [worker EXCEPT !.todo = @ \ {h}] /\ UNCHANGED told

\* Mutant of StoreHalf: the clock is cleared before it is set.
StoreHalfAfterClear(h) ==
  /\ h \in worker.todo
  /\ start' = [x \in Both |-> IF x \in worker.todo \ {h} THEN 0 ELSE Halves(worker.new)[x]]
  /\ Stored(h)
  /\ UNCHANGED <<piezo, impact, now, hubStart, command, msgs, read>>

StoreHalf(h) ==
  /\ h \in worker.todo
  /\ start' = [start EXCEPT ![h] = Halves(worker.new)[h]]
  /\ Stored(h)
  /\ UNCHANGED <<piezo, impact, now, hubStart, command, msgs, read>>

\* The satellite is switched off and on, which takes longer than an impact rings.
Reboot ==
  /\ impact.ringing = 0
  /\ piezo' = NoPiezo
  /\ impact' = Quiet
  /\ start' = Halves(now)
  /\ worker' = NoStore
  /\ read' = NoRead
  /\ told' = {}
  /\ UNCHANGED <<now, hubStart, command, msgs>>

-----------------------------------------------------------------------------
(* The piezo callback: runtime_piezo_callback. *)

BeginRead ==
  /\ ~read.busy /\ piezo.at = "click"
  /\ read' = [busy |-> TRUE, todo |-> Both, got |-> Halves(0),
              values |-> IF worker.todo = {} THEN {Whole(start)} ELSE {worker.old, worker.new},
              clean |-> worker.todo = {}]
  /\ UNCHANGED <<piezo, impact, now, hubStart, start, command, msgs, worker, told>>

Load(h) ==
  /\ h \in read.todo
  /\ read' = [read EXCEPT !.got[h] = start[h], !.todo = @ \ {h}]
  /\ UNCHANGED <<piezo, impact, now, hubStart, start, command, msgs, worker, told>>

\* The click is sent off with its time, and the piezo task goes to sleep.
PushClick ==
  /\ read.busy /\ read.todo = {}
  /\ read' = NoRead
  /\ Sleep
  /\ UNCHANGED <<now, hubStart, start, command, msgs, worker, told>>

-----------------------------------------------------------------------------
(* Time: a set_time takes effect within Delay of the command or not at all. *)

Older(r) == [r EXCEPT !.age = @ + 1]

Tick ==
  /\ now < MaxNow
  /\ command.sync => command.age < Delay
  /\ \A i \in DOMAIN msgs : msgs[i].age < Delay
  /\ PiezoTick
  /\ now' = now + 1
  /\ command' = IF command.sync THEN Older(command) ELSE command
  /\ msgs' = [i \in DOMAIN msgs |-> Older(msgs[i])]
  /\ UNCHANGED <<hubStart, start, worker, read, told>>

PiezoStep ==
  /\ CreateTask \/ AddHandler \/ Hit \/ Bounce \/ Take \/ Wake
  /\ UNCHANGED <<now, hubStart, start, command, msgs, worker, read, told>>

TimeNext ==
  \/ PiezoStep
  \/ \E t \in SetTimes : BeginCommand(t, TRUE) \/ Heartbeat(t)
  \/ BeginCommand(0, FALSE)
  \/ Broadcast \/ Lose \/ Restart \/ Receive \/ Reboot
  \/ \E h \in Both : StoreHalf(h) \/ Load(h)
  \/ BeginRead \/ PushClick
  \/ Tick

TimeSpec == TimeInit /\ [][TimeNext]_timeVars

-----------------------------------------------------------------------------
(* Properties. *)

Instant == -(TimeMod * K) .. MaxNow
Pieces  == [hi : {v \div W : v \in Instant} \cup {0}, lo : 0 .. W - 1]

\* Shapes; a command or a message is never older than Delay, and while a store is
\* in hand no set_time is in force.
TimeTypeOK ==
  /\ PiezoTypeOK
  /\ now \in 0 .. MaxNow /\ hubStart \in Instant /\ start \in Pieces
  /\ command \in [busy : BOOLEAN, t : SetTimes, sync : BOOLEAN, age : 0 .. Delay]
  /\ msgs \in Seq([t : SetTimes, from : Instant, age : 0 .. Delay]) /\ Len(msgs) <= MaxMsgs
  /\ worker.todo \subseteq Both /\ worker.old \in Int /\ worker.new \in Instant
  /\ worker.from \subseteq Instant /\ told \subseteq Instant
  /\ read.busy \in BOOLEAN /\ read.todo \subseteq Both /\ read.got \in Pieces
  /\ read.busy => piezo.at = "click"
  /\ worker.todo # {} => told = {}

\* A read that has come to its end, and the game time it comes to.
Finished   == read.busy /\ read.todo = {}
TimeOfRead == TimeAt(now, Whole(read.got))

\* A satellite whose clock a set_time has set gives its clicks the time that the
\* hub showed its command by, late by the transmission at most and never ahead,
\* across the wrap of the game time too, and it keeps that time through whatever
\* happens to the controller.  So its clicks agree with the reports until a
\* RESET_TIMEHUB, a lost set_time or a restart of the controller gives the hub
\* another clock, of which nothing tells the satellite; a heartbeat whose
\* uninitialised type is taken for a command sets another time (told is empty).
ClicksLagTheHub ==
  Finished /\ read.clean =>
    \A hub \in told : (TimeAt(now, hub) - TimeOfRead) % TimeMod <= (Delay + K - 1) \div K

\* A clock that is set while it is read gives its old or its new time, unless their
\* instants differ in the high half: only then a click may have a time that never
\* was.  (They differ when one instant is negative, a game time longer than the
\* satellite has been up, and the other is not, and else when a multiple of 2^32
\* microseconds, 71 minutes, lies between them.)
TornOnlyAcrossHalves ==
  /\ Finished
  /\ \A u, v \in read.values : u \div W = v \div W
  => Whole(read.got) \in read.values
=============================================================================
