--------------------------- MODULE ServerLifecycle ---------------------------
(***************************************************************************)
(* Starting and stopping the controller: runtime_server_init and           *)
(* runtime_server_deinit, with every component they bring up and tear      *)
(* down.                                                                   *)
(*                                                                         *)
(* Each component is one step, and any external call it makes may fail.    *)
(* The tasks already started run between the steps, so an invariant holds  *)
(* for what they meet half-way through a start or a stop.  The caller      *)
(* starts a server that is not up, and stops it at any time; it may retry  *)
(* either for ever.                                                        *)
(***************************************************************************)
EXTENDS Naturals

VARIABLES at,        \* the step the caller is at; "down" and "up" are its rests
          context,   \* the input frame context is initialized
          pc,        \* PC communication: its flags, task, queue and USB stack
          sat,       \* the satellite server: its flags, radio and tasks
          faulty     \* history: a call that undoes something has failed

vars == <<at, context, pc, sat, faulty>>

-----------------------------------------------------------------------------
(* The state. *)

Label == {"down", "pccomm", "usb", "report", "protocol", "wifi", "espnow", "up",
          "wifi_deinit", "protocol_deinit", "pccomm_deinit", "context_deinit"}

\* How far the WiFi driver is.
Off     == 0
Inited  == 1
Started == 2

Init ==
  /\ at = "down"
  /\ context = FALSE
  /\ pc = [ready |-> FALSE, report |-> FALSE, queue |-> FALSE,
           running |-> FALSE, driver |-> FALSE, cdc |-> FALSE]
  /\ sat = [protocol |-> FALSE, wifi |-> Off, espnow |-> FALSE, ready |-> FALSE]
  /\ faulty = FALSE

-----------------------------------------------------------------------------
(* PC communication. *)

\* Mutant of UsbDeinit: the driver goes before the port.
UsbDeinitDriverFirst ==
  IF ~pc.running THEN {pc}
  ELSE {pc, [pc EXCEPT !.driver = FALSE]}
       \cup {p \in {[pc EXCEPT !.running = FALSE, !.driver = FALSE, !.cdc = FALSE]} :
                pc.cdc}

\* What usbdevice_deinit may leave: it fails if and only if `running' stays
\* set, and closing a port that is closed already is a failure.
UsbDeinit ==
  IF ~pc.running THEN {pc}
  ELSE {pc, [pc EXCEPT !.cdc = FALSE]}
       \cup {p \in {[pc EXCEPT !.running = FALSE, !.driver = FALSE, !.cdc = FALSE]} :
                pc.cdc}

\* runtime_pccomm_init returns early when it is initialized.
SkipPccomm ==
  /\ at = "pccomm" /\ pc.ready
  /\ at' = "protocol"
  /\ UNCHANGED <<context, pc, sat, faulty>>

\* usbdevice_serial_rx_init: without the queue or the task app_queue is left
\* NULL.  pccomm_init does not look at the result.
InitRx ==
  /\ at = "pccomm" /\ ~pc.ready
  /\ \E made \in BOOLEAN : pc' = [pc EXCEPT !.queue = made]
  /\ at' = "usb"
  /\ UNCHANGED <<context, sat, faulty>>

\* usbdevice_init: nothing to do, both calls succeed, the driver is refused, or
\* the port is refused and the driver uninstalled without a look at the result.
InitUsb ==
  /\ at = "usb"
  /\ \/ pc.running /\ at' = "report" /\ UNCHANGED <<pc, faulty>>
     \/ /\ ~pc.running /\ ~pc.driver
        /\ at' = "report"
        /\ UNCHANGED faulty
        /\ pc' = [pc EXCEPT !.running = TRUE, !.driver = TRUE, !.cdc = TRUE]
     \/ ~pc.running /\ at' = "context_deinit" /\ UNCHANGED <<pc, faulty>>
     \/ /\ ~pc.running /\ ~pc.driver
        /\ at' = "context_deinit"
        /\ faulty' = TRUE
        /\ pc' = [pc EXCEPT !.driver = TRUE]
  /\ UNCHANGED <<context, sat>>

\* Mutant of InitReport: without the report task USB is left running.
InitReportLeavesUsb ==
  /\ at = "report"
  /\ \/ /\ pc' = [pc EXCEPT !.ready = TRUE, !.report = TRUE]
        /\ at' = "protocol"
     \/ at' = "context_deinit" /\ UNCHANGED pc
  /\ UNCHANGED <<context, sat, faulty>>

\* The rest of runtime_pccomm_init: when the report task cannot be created,
\* pccomm_deinit undoes what was done.
InitReport ==
  /\ at = "report"
  /\ \/ /\ pc' = [pc EXCEPT !.ready = TRUE, !.report = TRUE]
        /\ at' = "protocol"
        /\ UNCHANGED faulty
     \/ /\ pc' \in UsbDeinit
        /\ at' = "context_deinit"
        /\ faulty' = (faulty \/ pc'.running)
  /\ UNCHANGED <<context, sat>>

\* Mutant of PccommDeinit: the flag is never cleared.
PccommDeinitKeepsFlag ==
  /\ at = "pccomm_deinit"
  /\ \/ ~pc.ready /\ UNCHANGED <<pc, faulty>>
     \/ /\ pc.ready
        /\ \E p \in UsbDeinit : pc' = [p EXCEPT !.report = FALSE]
        /\ faulty' = (faulty \/ pc'.running)
  /\ at' = "context_deinit"
  /\ UNCHANGED <<context, sat>>

\* runtime_pccomm_deinit: the task goes first, and the flag is kept when USB
\* cannot be torn down.  Neither queue nor task of the receiver is.
PccommDeinit ==
  /\ at = "pccomm_deinit"
  /\ \/ ~pc.ready /\ UNCHANGED <<pc, faulty>>
     \/ /\ pc.ready
        /\ \E p \in UsbDeinit :
             pc' = [p EXCEPT !.report = FALSE, !.ready = p.running]
        /\ faulty' = (faulty \/ pc'.running)
  /\ at' = "context_deinit"
  /\ UNCHANGED <<context, sat>>

-----------------------------------------------------------------------------
(* The satellite server. *)

\* satellite_server_protocol_init: the heartbeat task and the client table.
InitProtocol ==
  /\ at = "protocol"
  /\ \/ sat' = [sat EXCEPT !.protocol = TRUE] /\ at' = "wifi"
     \/ ~sat.protocol /\ at' = "pccomm_deinit" /\ UNCHANGED sat
  /\ UNCHANGED <<context, pc, faulty>>

\* Mutant of InitWifi: its result is not looked at.
InitWifiUnchecked ==
  /\ at = "wifi"
  /\ \E w \in sat.wifi .. Started : sat' = [sat EXCEPT !.wifi = w]
  /\ at' = "espnow"
  /\ UNCHANGED <<context, pc, faulty>>

\* satellite_server_wifi_init: a failure leaves whatever was reached.
InitWifi ==
  /\ at = "wifi"
  /\ \/ sat' = [sat EXCEPT !.wifi = Started] /\ at' = "espnow"
     \/ \E w \in sat.wifi .. Started :
          sat' = [sat EXCEPT !.wifi = w] /\ at' = "pccomm_deinit"
  /\ UNCHANGED <<context, pc, faulty>>

\* satellite_espnow_init undoes its own failures.  Nothing undoes the protocol
\* and WiFi when it fails.
InitEspnow ==
  /\ at = "espnow"
  /\ \/ sat' = [sat EXCEPT !.espnow = TRUE, !.ready = TRUE] /\ at' = "up"
     \/ ~sat.espnow /\ at' = "pccomm_deinit" /\ UNCHANGED sat
  /\ UNCHANGED <<context, pc, faulty>>

\* Mutant of EspnowDeinit: a failure of esp_now_deinit leaves the worker.
EspnowDeinitKeepsWorker ==
  /\ at \in {"up", "down"}
  /\ \/ /\ sat' = [sat EXCEPT !.espnow = FALSE]
        /\ at' = "wifi_deinit"
        /\ UNCHANGED faulty
     \/ sat.espnow /\ at' = "pccomm_deinit" /\ faulty' = TRUE /\ UNCHANGED sat
  /\ UNCHANGED <<context, pc>>

\* satellite_espnow_deinit: flag, worker and queue go whether esp_now_deinit
\* succeeds or not, but satellite_server_deinit stops at its failure.
EspnowDeinit ==
  /\ at \in {"up", "down"}
  /\ sat' = [sat EXCEPT !.espnow = FALSE]
  /\ \/ at' = "wifi_deinit" /\ UNCHANGED faulty
     \/ sat.espnow /\ at' = "pccomm_deinit" /\ faulty' = TRUE
  /\ UNCHANGED <<context, pc>>

\* satellite_server_wifi_deinit: stopping a driver that is not initialized
\* fails with an error the code does not tolerate.
WifiDeinit ==
  /\ at = "wifi_deinit"
  /\ \/ /\ sat.wifi # Off
        /\ sat' = [sat EXCEPT !.wifi = Off]
        /\ at' = "protocol_deinit"
        /\ UNCHANGED faulty
     \/ /\ \E w \in {sat.wifi} \cup ({Inited} \cap 0 .. sat.wifi) :
             sat' = [sat EXCEPT !.wifi = w]
        /\ at' = "pccomm_deinit"
        /\ faulty' = (faulty \/ sat.wifi # Off)
  /\ UNCHANGED <<context, pc>>

\* satellite_server_protocol_deinit and the end of satellite_server_deinit.
ProtocolDeinit ==
  /\ at = "protocol_deinit"
  /\ sat' = [sat EXCEPT !.protocol = FALSE, !.ready = FALSE]
  /\ at' = "pccomm_deinit"
  /\ UNCHANGED <<context, pc, faulty>>

-----------------------------------------------------------------------------
(* The input frame context, first to come and last to go. *)

InitContext ==
  /\ at = "down"
  /\ context' = TRUE
  /\ at' = "pccomm"
  /\ UNCHANGED <<pc, sat, faulty>>

ContextDeinit ==
  /\ at = "context_deinit"
  /\ context' = FALSE
  /\ at' = "down"
  /\ UNCHANGED <<pc, sat, faulty>>

Next ==
  \/ InitContext \/ SkipPccomm \/ InitRx \/ InitUsb \/ InitReport
  \/ InitProtocol \/ InitWifi \/ InitEspnow
  \/ EspnowDeinit \/ WifiDeinit \/ ProtocolDeinit \/ PccommDeinit
  \/ ContextDeinit

Spec == Init /\ [][Next]_vars

-----------------------------------------------------------------------------
(* Properties. *)

\* The flags are Boolean, and the CDC port is open only over an installed
\* driver.
TypeOK ==
  /\ at \in Label
  /\ context \in BOOLEAN
  /\ pc \in [ready : BOOLEAN, report : BOOLEAN, queue : BOOLEAN,
             running : BOOLEAN, driver : BOOLEAN, cdc : BOOLEAN]
  /\ sat \in [protocol : BOOLEAN, wifi : Off .. Started,
              espnow : BOOLEAN, ready : BOOLEAN]
  /\ faulty \in BOOLEAN
  /\ pc.cdc => pc.driver

\* runtime_satellite_push_callback uses the context without a test for NULL:
\* while a worker can deliver a click the context must exist, half-way through
\* a start or a failed stop too.
ClickHasContext == sat.espnow => context

\* A server that says it is up serves satellites, whatever failed in earlier
\* starts and stops and however much of them was left behind.
UpServesSatellites ==
  at = "up" => /\ context
               /\ sat.protocol /\ sat.espnow /\ sat.ready
               /\ sat.wifi = Started

\* If only starts fail, a server that is up also reports to the PC.  (A failed
\* stop can leave runtime_pccomm initialized without a report task.)
UpReports ==
  at = "up" /\ ~faulty => pc.ready /\ pc.report /\ pc.running /\ pc.cdc

\* If only starts fail, a server that is down has no report task, USB stack,
\* worker or context left.  (The heartbeat task and WiFi may well be left, and
\* the receiver of the serial line always is.)
DownIsQuiet ==
  at = "down" /\ ~faulty => ~(context \/ pc.ready \/ pc.report \/ pc.running
                              \/ pc.driver \/ pc.cdc \/ sat.espnow)
=============================================================================
