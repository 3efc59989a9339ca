# Castanets-ESP32: TLA+ models, checks and proofs

Castanets-ESP32 turns two castanet-like satellites (ESP32 boards with a piezo)
and a central controller (ESP32-S3) into a game controller.  The satellites find
the controller by radio (ESP-NOW), are given the left or the right foot, and send
it a message per click; the controller collects the clicks and reports them to a
PC over USB.  This directory holds TLA+ models of that firmware, the TLC
configurations that check them, and theorems about them proved with TLAPS.

`PROJECT.json` maps every definition to the lines it stands for.

## 1. Inventory

### Components

`SS` = `controller/components/satellite_server`, `RS` = `controller/components/runtime_server`,
`PC` = `controller/components/pc_comm`, `SC` = `satellite/components/satellite_client`.

| Component | State | Operations | Correct when |
|---|---|---|---|
| Client table (`SS/..clientmgnt.c`, `..discovery.c`) | `s_clients[3]`, `s_initialized` | init, deinit, find, role available, register; the DISCOVER handler | a foot has one satellite, a satellite one slot; a repeated DISCOVER is harmless |
| Server protocol (`SS/..protocol.c`, `..espnow_send.c`, `..parsers.c`, `satellite_server.c`) | callback, heartbeat task | handle packet, heartbeat, broadcast of commands, init, deinit | an answered satellite is connected; a click counts for its sender's foot |
| ESP-NOW transport (`common/satellite_espnow.c`) | queue of 6, worker, callback, flag | receive callback, worker, send, init, deinit | never blocks the radio, never runs without its queue |
| Satellite connection (`SC/..discovery.c`, `..espnow.c`) | `s_connected`, `s_last_server_packet` | discovery loop, timeout, receive, set_connected | searches when and only when it has no controller |
| Satellite protocol (`SC/..protocol.c`, `..parser.c`, `satellite_client.c`) | server address and its validity, role | assignment, JSON messages, push click | clicks go to the controller that assigned the role; a message does what its type says |
| Satellite runtime (`runtime_client.c`) | start of the game time | set, restart, read; click callback | follows the controller's time only |
| Input frame (`RS/..inputframectx.c`, `runtime_satellite.c`, `inputframe.h`) | hub time; per foot a ring of 3 clicks | push click; set, reset, get | holds the latest clicks in order |
| PC reports and commands (`RS/runtime_pccomm.c`, `PC/pc_comm_protocol*.c`) | report task, flag | report every 500 ms; dispatch a command | a report is a state the frame was in |
| Start and stop (`RS/runtime_server.c`, `PC/pc_comm.c`, `PC/serial/serial_init.c`, `SS/..wifi.c`) | the flags of everyone | init, deinit | up means all up; down leaves nothing running |
| Serial receiver (`PC/serial/usbdevice_serial_rx.c`) | line buffer, discard flag, queue of 5 | receive chunk, handle line | lines are neither merged nor split, and a bad one takes no good one with it |
| Serial sender (`PC/serial/usbdevice_serial_send.c`) | none of its own | send line | a line is sent whole |
| Piezo (`satellite/../piezocontroller.c`) | task handle, task notification | interrupt, task | every impact clicks; its ringing adds few clicks |
| LED controllers (`controller/../ledcontroller.c`, `satellite/../ledcontroller.c`) | colour, brightness, blink phase and its end | on, off, toggle, blink, brightness, update | the LED is lit when the last command asks for light, and shows it |
| Joy-Con, IMU, line-state callback | - | - | see section 8 |

### How they interact

* The radio calls the receive callback of the transport, which copies the packet
  to a queue; one worker task per device takes packets and runs every handler.
* On a satellite, the discovery task (every 500 ms) reads and clears the
  connection flag and timestamp the worker writes, without a lock.  The piezo
  task calls `push_click` directly.
* On the controller, the heartbeat task (every 900 ms) and the task of the serial
  receiver read the client table and send to everyone in it.  The worker writes
  the input frame, the report task reads it; again without a lock.
* A command of the PC that sets the game time sets the clock of the hub and is
  broadcast; on a satellite the worker then stores the 64-bit start of its own
  game time, which the piezo task reads for every click.

### What is hard

Lost, repeated and late packets; resets of either side; a timeout racing a
packet; the races on shared variables, 64-bit ones among them; wraps of ring
indices, tick counts and the game time; two variables used uninitialised; tasks
deleted in the middle of a store; lines that fit no buffer; starts and stops that
fail half-way.  The list
`hazards` in `PROJECT.json` names each at its line.

## 2. The modules

| Module | Models | Composes / refines |
|---|---|---|
| `RoleRegistry` | the promise: who holds which foot | - |
| `ClientTable` | table and DISCOVER handler | implements `RoleRegistry` |
| `ClientTableProofs` | eight theorems about `ClientTable` | |
| `ClientTableAccess` | registration store by store, the two tasks that copy the table, stops in between | extends `ClientTable`; implements `RoleRegistry` |
| `ClientTableAccessProofs` | four theorems about it | |
| `SatelliteLink` | controller, satellites, queues, losses, resets | extends `ClientTable`, whose actions are parts of its own |
| `LinkTiming` | the timers on top of the link | extends `SatelliteLink`; each step is a step of it |
| `SatelliteLinkProofs` | twelve theorems about `SatelliteLink` and `LinkTiming` | uses the theorems of `ClientTableProofs` |
| `SatelliteConnection` | the two tasks of one satellite, access by access | - |
| `SatelliteConnectionProofs` | two theorems about it | |
| `ClickWindow` | the promise: the latest clicks of a foot | - |
| `ClickHistory` | the click ring, its writer and its reader, access by access | implements `ClickWindow` |
| `ClickHistoryProofs` | four theorems about `ClickHistory` | |
| `ServerLifecycle` | start and stop of the controller with failing calls | - |
| `ServerLifecycleProofs` | five theorems about `ServerLifecycle` | |
| `LineChannel` | the promise: lines of the PC are handled whole, in order, at most once, or lost | - |
| `SerialRx` | the line assembler, its queue and its task | implements `LineChannel` |
| `Piezo` | from an impact to a click: interrupt, notification, debounce delay | - |
| `GameTime` | the clocks of hub and satellite, the commands that set them, the reader | extends `Piezo`, whose task reads the clock |
| `GameTimeProofs` | four theorems about `Piezo` and `GameTime` | |
| `LedController` | the LED of the controller and of a satellite | - |
| `PeripheralProofs` | three theorems about `SerialRx`, two about `LedController` | extends both |

`MCClientTable`, `MCClientTableAccess`, `MCSatelliteLink` and `MCLinkTiming` define
values for the constants; the other modules have numeric constants or none and are checked
directly.  Operators whose comment begins with "Mutant of" are deliberately wrong
versions of the operator that follows; nothing uses them.  Each exists to show
that a property notices the bug.

### State and code

* `ClientTable`: `s_clients` and `s_initialized` are the C variables; a slot is a
  record `used`, `mac`, `role`.  Both flags named `s_initialized` (protocol and
  table) always change together and are one variable.  `RegisterError` is the
  return value of `register_client`, its early returns in the order of the code;
  `Registered` is what it stores.  `Assign` and `Refuse` are the two outcomes of the
  DISCOVER handler.
* `SatelliteLink`: `rxq` is each device's queue; `s_connected`, `s_server_mac`,
  `s_server_mac_valid` are the satellite's variables; `clock` is not the game
  time but what set it last; `feet` observes whose clicks were counted for which
  foot, and `orphans` which satellites a stop of the controller left connected or with
  one of its packets in their queue, until they are neither.  A send names the set
  `got` of devices it reaches.  `StackMac` and `StackType` are what the code may read from `hw_server` and from the type of a
  heartbeat, neither of which it initialises: an arbitrary member is chosen each
  time.
* `LinkTiming`: `age` is the number of discovery intervals since
  `s_last_server_packet` was written, `due` the time to the next heartbeat;
  `silence` and `missed` observe what the properties speak of.
* `SatelliteConnection`: one step per access to `s_connected`,
  `s_last_server_packet` and the tick count.
* `ClickHistory`: one step per access to `click`, `click_head`, `click_count`.
  Times are numbered clicks.
* `ServerLifecycle`: one step per component; `at` is where the caller is in
  `runtime_server_init` or `_deinit`.  Any external call may fail.
* `ClientTableAccess`: `worker` is the store of `register_client` that comes next,
  `reader` how far each copying task is; an address of which some bytes are
  copied is `Torn`.  `service` is "halted" between the deletion of the worker and
  the end of a stop, which may fail there.  `due`, `crossed`, `cleared` and
  `aborted` observe what the properties speak of.
* `SerialRx`: `rx_line` is `rx_message` up to `rx_line_length`; a character is the
  pair of its line's number and its place in it.  One byte is one step, since the
  assembler keeps its state over the chunks.  `overrun` is set when a line is
  copied over the end of `msg.buf`, and nothing is modelled beyond.
* `Piezo`: `notified` is the task's notification value, which `pdTRUE` clears
  whole; `left` the rest of `vTaskDelay`.  `impact` is the world's side.
* `GameTime`: `hubStart` and `start` are the two `*_start_us`, the latter a pair of
  halves stored and loaded one at a time.  `StartFor` and `TimeAt` are the C
  functions of both devices.  `msgs` holds the `set_time` messages under way, with
  their age and the hub's clock at their command; `told` observes that of the
  `set_time` that set the satellite's clock, unless something else has set it since.
  `Restart` is a stop and start of the controller, `Reboot` one of the satellite.
* `LedController`: `led` holds the static variables, `lamp` is what is seen; `board`
  selects the RGB LED, a plain LED or the build without one.

## 3. The runs

| Run | Bounds | Shows |
|---|---|---|
| `client_table` | 8 satellites, 3 slots, every requested role | the table is sound, refuses a registration for a taken foot only, and implements `RoleRegistry` |
| `link_pair` | 2 satellites, queues of 2, symmetry | clicks are counted for one satellite per foot through every loss, timeout and reset |
| `link_alone` | 1 satellite, queues of 2, every command, every uninitialised value | a lone satellite always connects again, and is connected only if the table has it, or had it before a stop |
| `timing_alone` | 1 satellite, timeout 6 intervals, heartbeat 2 (the configured values) | gives up in time; never without losses |
| `connection` | tick count modulo 10, timeout 4, interval 2, lag 1 | every interleaving ends a silent connection, at most an interval and three lags later than without races |
| `click_history` | ring of 3 (as configured), 8 clicks | the ring is right; reports without a lock are wrong only in a bounded way |
| `lifecycle` | none: all flags are Boolean | what "up" and "down" guarantee after any history of failures |
| `client_access` | 2 satellites, 3 slots, both readers, every requested role, symmetry | nobody in the table is left out of a broadcast, strange addresses come from a bounded window only, and the table still implements `RoleRegistry` |
| `serial_rx` | 5 lines of up to 5 characters, assembler of 3, message of 2, queue of 2 | handled lines are whole, in order, never doubled; a line that fits is not harmed by its neighbours |
| `game_time` | half word of 2 values, 2 instants to a game time, game time modulo 3, instants 0 to 4, delay 1, debounce 3, ringing 1 | clicks lag the clock of the hub that set the satellite's by the transmission only, and keep to it when the hub's changes; torn reads matter across halves only; every impact clicks, at most twice |
| `led` | 3 levels, phases up to 2, 3 boards | the LED is on when the last command asks for light, and a change of brightness lights no dark one; phases never end early |

### Why the bounds are enough

A satellite is told apart by its address only and the table has two roles, so two
satellites are those that hold roles and a third is refused; eight serve to show
that nothing depends on it.  Queues of two already fill, drop, and let an answer
wait behind a heartbeat; longer ones only delay.  The click ring has its real size and 8
clicks take the head around it twice with room for reports in between.
In `SatelliteConnection` the tick limit is just above
`timeout + interval + 2 * lag`, so that nearly every behaviour meets a wrap; with these
sizes some interleaving attains the bound `RacePatience` (one tick less is violated).
`ServerLifecycle` is finite as it is.
In `ClientTableAccess` a third satellite would only be refused (which `client_table`
covers); three slots leave one free next to two, so that copies see used, free
and half-written slots.  In `SerialRx` the assembler is longer than a message and
lines are longer than both, as 1024 bytes may be against one USB chunk: every
relation of the three sizes occurs, and five lines overflow the queue of two.  In
`GameTime` both the half word and the game time wrap within these instants,
and instants go negative when a command sets a time greater than the uptime.

### Disagreements between code and comments

One run expects a violation: the property is what a comment says, TLC shows a
behaviour of the code that breaks it.  `PROJECT.json` (`findings`) quotes the
comment.

| Run | The code |
|---|---|
| `link_lockout` | once both feet are taken, a satellite that timed out is refused for ever |

Others are part of the models, whose properties are stated around them, and have
no run of their own:

* a repeated DISCOVER moves a satellite to the other foot, since its own slot
  makes its foot look occupied (`RoleAvailable`, `Assign`);
* the server address of an assignment is never used, an uninitialised one is
  (`StackMac`);
* a heartbeat, whose parsed type is uninitialised, may connect a satellite or
  change its game time (`StackType`, `GameTime!Heartbeat`);
* packets of any sender refresh a connection (`Receive`), so the search of one
  satellite keeps the other one connected to a silent controller, although
  `ESPNOW_CONFIG.h:17` speaks of the server: with two satellites
  and `QueueSize = 1` in `MCTimingAlone.cfg` TLC finds `SilenceEndsConnection`
  violated;
* the timeout may fire right after a packet, since the tick count is read before
  the timestamp (`SatelliteConnection!ReadNow`);
* a report that a push overlaps may list clicks out of order
  (`DisturbedReportIsRecent` says what it may not do);
* `RESET_TIMEHUB` restarts the hub's clock and sends the satellites a
  `request_status`, which leaves theirs alone (`BeginCommand`), and a controller that
  starts again begins a new clock, of which it tells nobody (`Restart`): until the next
  `SET_GAME_TIME` the clicks have the time of the old one, ahead of the reports;
* an edge during the debounce delay makes a second click after it, although
  `piezocontroller.c:70` means to ignore it (`ImpactClicks`);
* a change of brightness repaints an LED that is on at once, although
  `ledcontroller.h:48` has it "applied to subsequent color updates", and during a
  blink with the colour of the last solid command, although line 63 gives the blink's
  as the "Color used while ON" (`SetBrightness`; `LampFollowsCommand` demands nothing
  of a light repainted so);
* nothing calls `ledcontroller_update`, so a blink stays lit (`Update`);
* a line that fits the assembler's 1024 bytes may be longer than the buffer of a
  message, and the copy does not look (`LineFeed`, `overrun`).

So what holds is narrower than one would like, and the passing properties say
precisely how: `EverySearchEnds` is checked for one satellite,
`RefusedOnlyForTakenFeet` says exactly when more are locked out,
`SilenceEndsConnection` is checked for one satellite and proved for as many as
take no packet of each other's (`SilenceEnds`), `UndisturbedReportIsExact` is for
reports no push overlaps, and `DisturbedReportIsRecent` bounds what the others may
contain; `ConnectedIsRegistered` says nothing of the address a connected satellite
sends to, `ClicksLagTheHub` measures clicks by the clock of the hub that set the
satellite's, which is the hub's present clock only until that is set again.

## 4. Fairness

* `FairLinkSpec`: the tasks of both devices are scheduled (weak fairness of the
  handlers, strong fairness of a satellite's worker since its queue may be
  emptied by a reset).  The radio is fair-lossy: a DISCOVER that could reach the
  controller again and again does, and an answer to it too (strong fairness of
  `Reached`, `Answered`).  Nothing retries an answer but the next DISCOVER, so
  without this no firmware could connect.  The property assumes besides that the
  controller stays up, that the satellite is not reset for ever, and that
  other traffic leaves a place in a satellite's queue for an answer
  (`Settled`): heartbeats are 900 ms apart and the queue is emptied in
  microseconds.
* `FairSpec` of `SatelliteConnection`: both tasks run when they can and time
  passes.  They have equal priority and FreeRTOS time-slices them; `MaxLag` bounds
  how long a task at work may be held up.
* `FairRxSpec`: the task of the receiver runs when it has something to do (weak
  fairness of `TakeLine` and `HandleLine`; `pccomm_protocol_handle` waits for
  nothing without end).  The PC need not send anything.
* `ClientTableAccess`, `GameTime` and `LedController` have no liveness properties and
  no fairness; nothing in the code would justify one for `ledcontroller_update`.
  `ImpactClicks` is a bounded response, stated as an invariant: time does not pass
  while the task, the most urgent of the application, has something to do.
* Deadlock is checked except in `serial_rx`, where the PC may stop sending, and in
  `game_time`, where modelled time ends at `MaxNow`.
* `LinkTiming` needs no fairness: its properties are invariants.  It assumes that
  within one interval of 500 ms every loop gets its turn and the queues are
  emptied.

## 5. The proofs

TLC checks instances; the theorems hold for every value of the constants that
satisfies the named assumptions of the module.

`ClientTableProofs` (from `MacAssumption`, `MaxClientsAssumption`,
`RequestedRolesAssumption`): `TableTypeCorrect`, `RolesAreUnique`, `SlotsAreUnique`,
`SlotsAreComplete`, `NeverFull` (if there are at least three slots),
`OnlyTakenFeetAreRefused` (at least two), `PairingIsFinal`, `TableImplementsRegistry`.
The argument: `TableInv` is the conjunction of the type, one satellite per role,
one slot per satellite and completeness of used slots.  None of the uniqueness
properties is inductive alone: that a registration keeps roles apart depends on
`find_client` giving the only slot of a satellite, and on used slots having
roles.  The first free or matching slot is a `CHOOSE` of the least index, which
exists by well-founded induction on the naturals (a lemma).  `NeverFull` follows
by counting without cardinalities: of three used slots two would share a role.
`OnlyTakenFeetAreRefused` counts likewise to two: while a foot is free so is a slot.
`TableImplementsRegistry` maps the table to the set of its pairs; `Assign`
becomes `Grant`, or a stutter when nothing changes.

`ClientTableAccessProofs` (the same assumptions and `TornAssumption`,
`ReaderAssumption`): `AccessTypeCorrect`, `AccessForgetsNobody`,
`AccessSendsToClients`, `AccessImplements`.
`AccessInv` is the type, `StoresOK` about the table and the worker (which slots are
complete, whose slot is being written, that complete slots have different
satellites and feet) and `ReaderOK` about each copying task: behind its slot
everyone due is copied or gone with a stop, and whatever strange address it holds
has its excuse.  The two tasks are independent, so a step of one leaves
`ReaderOK` of the other alone.  In the refinement a registration is a `Grant` at
its last store; a `DISCOVER` that changes a role is one at once.

`SatelliteLinkProofs` (the assumptions of `SatelliteLink`, `LinkTiming` and
`ClientTable`), about `LinkSpec`: `LinkImplementsTable`, `LinkPairingIsFinal`,
`LinkImplementsRegistry`, `LinkRefusesOnlyTakenFeet`, `LinkTypeCorrect`,
`ConnectedIsAlwaysRegistered`, `OnePlayerAlways`.
Every step of the link is a step or a stutter of the table, once packets are known
to carry the types their handlers look for; so the table's theorems are theorems
of the link, and three of these cite one.  `OnePlayerPerFoot` needs besides
that the clicks counted are those of satellites that hold the foot while both are
taken, and there uses `TableInv`.  `ConnectedIsRegistered` is inductive with the queues:
only the controller's packets connect a satellite, whatever their type is taken for
(`Genuine`: nobody else sends assignments or heartbeats); it sends them to satellites
of its table, which forgets none before a stop, and a stop makes an orphan of every
satellite still linked to it.

The same module, about `TimedSpec`: `TimedImplementsLink`, `TimedTypeCorrect`,
`TimeoutsNeedLosses`, `SilenceEnds`, `SilenceEndsAlone`.
`TimeoutsNeedLosses` balances the age of a connection against the heartbeats lost
since (`Accounted`): `m` of them account for `m + 1` heartbeat periods.  That is
not inductive alone: the age must still be covered when the next heartbeat comes,
`due` intervals from now, unless a packet waits in the satellite's queue, and a
satellite whose DISCOVER the controller is about to answer has just been heard
from.  `PeriodsFit` is where `Enough` losses are seen to be the heartbeats of a
timeout, by division with its remainder.
`SilenceEnds` joins two invariants: after its turn of the loop a connected
satellite is no older than the timeout (`TurnDone`), and a silence of the
controller's is no longer than that age (`Heard`).  The second needs that nobody
else's packets refresh the age, hence the hypothesis `[]NoStray`, which
two satellites in reach of each other show cannot be left out.  Many behaviours satisfy it;
a satellite alone is one case, where it is proved and no longer assumed
(`SilenceEndsAlone`: a radio does not hear itself).

`SatelliteConnectionProofs` (`TicksAssumption`): `TypeCorrect`, `SilenceIsBounded`,
for every width of the tick count, timeout, interval and lag.
`ConnInv` says that the silence is young while the worker has a packet (`Busy`),
and afterwards bounds it by where the discovery task is in its loop (`Late`).  The
timestamp the task compares may be wrong in both directions: older than the last
packet, which ends the connection early, or cleared after the packet made the
connection, and then younger than the silence by a turn of the loop at most
(`Stamped`).  So the age of the timestamp expires too, and before it wraps: the
lemma `ElapsedGrows` is about the unsigned difference across a wrap of the count.
From these comes the exact bound: `RacePatience` is one interval and three lags
more than a satellite without races needs.  The theorems speak of `Spec`, of which
the run's `FairSpec` is a strengthening.

`ClickHistoryProofs` (`HistoryAssumption`, `MaxClicksAssumption`): `TypeCorrect`,
`QuietReportsAreExact`, `AllReportsAreRecent`, `WindowImplemented`.
`ClickInv` says that going back from the head (where it will be once the push under
way is complete) one finds the latest clicks and then zeros; what a quiet report
has copied; and that for any report pushes and overlaps grow together.  Every
index of the code takes at most one wrap, which one lemma (`Wrap`) states once.

`GameTimeProofs` (`WidthAssumption`, `TimesAssumption`, `DelayAssumption`,
`BoundsAssumption`, `DebounceAssumption`, `RingAssumption`): `ImpactsAlwaysClick`,
`TimeTypeCorrect`, `TornAcrossHalvesOnly`, `ClicksAlwaysLag`.
`PiezoInv` balances the time an impact has gone unheard against what is left of the
delay.  `TimeInv` relates commands, messages and stores to their ages; `ReadInv`
says that each half stored or loaded is a half of a value in force during the read;
`LagInv` bounds the distance of the satellite's start from that of the hub at the
command by the age of the command while its message or its store is under way; what
becomes of the hub's clock afterwards does not enter.  From the distance of the starts to that of the
game times, across the wrap, lead a few lemmas on division (`CloseInstants`,
`CloseModulo`, `CloseTimes`).

`PeripheralProofs` holds the theorems of two components that interact with
nothing else.  On `SerialRx` (`RxSizes`, `RxBounds`): `RxTypeCorrect`,
`FittingLinesAreTaken`, `ChannelImplemented`, for any sizes of assembler, message
and queue.  `RxInv` adds to the type that the assembler holds exactly what has been
typed of the present line unless it discards, and that queued messages are lines of
the PC with increasing numbers.  The theorems speak of `RxSpec`, of which the run's
`FairRxSpec` is a strengthening.
On `LedController` (`FullAssumption`, `DurationsAssumption`): `LampAlwaysFollows`,
`PhasesAlwaysLast`.  `LedInv` relates the variables to the last command (`Follows`),
the lamp to the command (`Seen`) and the age of a phase to what is left of it
(`Lasts`).  A change of brightness keeps `Seen` since `s_on` is false whenever the
command asks for no light, even after failed writes.

`ServerLifecycleProofs` (no assumptions): `ClicksMeetContext`, `UpMeansServing`,
`TypeCorrect`, `UpMeansReporting`, `DownMeansQuiet`.
The invariant `LifecycleInv` says what each step of a start has established and
that the worker exists only at "up"; no failed step can keep a worker.
`PccommInv` says that without a failed undoing call the flags of the USB stack
agree with each other and with where the caller is.

### Only model-checked

Liveness (`EverySearchEnds`, `SilenceEndsInSearch`, `QueueDrains`) is beyond this
prover.  Every invariant, action property and refinement the passing runs check is
a theorem, one of them under a condition the code meets
(`OnlyTakenFeetAreRefused`: it has three slots) and one under a condition it meets only
while satellites do not hear each other (`SilenceEnds`).

## 6. Assumptions of the models

* A handler of the worker is one step except where the module is about its
  accesses (`SatelliteConnection`, `ClickHistory`, `ClientTableAccess`, `GameTime`).
* The stores of `register_client` happen in program order, the copy of an address in
  two parts, and the `memset` that clears the table at once.
* A satellite's search asks for no role in particular (`SearchAssumption`), as
  `send_discovery` does.
* The piezo task has the highest priority of the application's tasks: it acts
  before time passes, and a clock is read at one instant.  An impact rings for
  less than the debounce delay (`RingAssumption`); a longer one makes a click per
  delay.
* Only the satellite's clock is stored in halves; the hub's, which the serial task
  writes and the report task reads, has the same shape and one satellite's clock
  shows what there is to see.
* A `set_time` takes effect within `Delay` of its command or is lost; the delay is
  smaller than the range of the game time (`DelayAssumption`).
* Once a line has gone over the end of `msg.buf` the behaviour is undefined and the
  model stops.  Both sizes are the SDK configuration's; the theorems hold for any.
* The functions of an LED controller are atomic and one brightness component stands
  for the three of a colour.
* Running out of memory in a handler, and a peer the driver refuses, look like a
  lost message.
* The caller of `ServerLifecycle` does not start a server that is up.  The
  firmware itself starts it once and never stops it; both functions are public,
  and the module asks what they promise to a caller that retries.
* Stopping a WiFi driver that is not initialised fails with
  `ESP_ERR_WIFI_NOT_INIT`, as ESP-IDF documents; `satellite_server_wifi_deinit`
  tolerates `ESP_ERR_INVALID_STATE` only.

## 7. Plan

Done, in this order: client table, registry and proofs; link; timing; connection;
click history; start and stop; the table access by access; serial receiver;
piezo and game time; LED controllers; the proofs of section 5.  Left:

1. The hub's clock in halves too, against the report task.
2. Link-level liveness after a restart of the controller; a variant of the
   timeout that is sound against the races of `SatelliteConnection`.
3. The serial sender, with a model of the USB stack's transmit buffer.

## 8. Not modelled

* JSON text, logging, addresses as bytes, the contents of IMU samples (the
  controller drops them) and foot samples (nothing writes them).
* Parsing of the PC's commands: what a malformed one is answered; the fields of a
  report other than the clicks and the time.
* The serial sender: it keeps no state.  When the transmit buffer is full it cuts a
  line short, may lose its newline too, and reports success.
* The peer list of the radio driver, which is looked at only so as not to add a
  peer twice, and power save.
* The ADC of the piezo and its mock: build options that are off.
* `joycon_controller` and `imu_controller`: their source files are empty.
* The USB line-state callback only logs.
* WiFi on the satellite and `main.c`: straight-line start-up.
