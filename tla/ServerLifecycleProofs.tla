------------------------ MODULE ServerLifecycleProofs ------------------------
(***************************************************************************)
(* Theorems about ServerLifecycle: however often starting and stopping the *)
(* controller fails, and wherever, no click meets a missing input frame,   *)
(* and a server that is up has everything a satellite needs; and if only   *)
(* starts fail, up means reporting and down means quiet.                   *)
(*                                                                         *)
(* No property is inductive alone.  LifecycleInv says what is established  *)
(* at each step of a start: the context from "pccomm" to the rest "up",    *)
(* the protocol from "wifi" on, the radio from "espnow" on; and that the   *)
(* worker exists at "up" only.  PccommInv says the same of the PC side, of *)
(* which little is left to say once an undoing call has failed.            *)
(***************************************************************************)
EXTENDS ServerLifecycle, TLAPS

SatType == [protocol : BOOLEAN, wifi : Off .. Started,
            espnow : BOOLEAN, ready : BOOLEAN]

Starting == {"pccomm", "usb", "report", "protocol", "wifi", "espnow", "up"}

LifecycleInv ==
  /\ at \in Label
  /\ sat \in SatType
  /\ at \in Starting => context
  /\ at \in {"wifi", "espnow", "up"} => sat.protocol
  /\ at \in {"espnow", "up"} => sat.wifi = Started
  /\ at = "up" => sat.espnow /\ sat.ready
  /\ sat.espnow => at = "up"

\* The invariant holds when the controller is switched on.
LEMMA InitLifecycle == Init => LifecycleInv
BY DEF Init, LifecycleInv, Starting, Label, SatType, Off, Started

\* Every step of a start, a failed start or a stop keeps it.
LEMMA NextLifecycle == LifecycleInv /\ [Next]_vars => LifecycleInv'
<1> SUFFICES ASSUME LifecycleInv, [Next]_vars
             PROVE  LifecycleInv'
  OBVIOUS
<1> USE DEF LifecycleInv, Starting, Label, SatType, Off, Inited, Started
<1>1. CASE InitContext
  BY <1>1 DEF InitContext
<1>2. CASE SkipPccomm
  BY <1>2 DEF SkipPccomm
<1>3. CASE InitRx
  BY <1>3 DEF InitRx
<1>4. CASE InitUsb
  BY <1>4 DEF InitUsb
<1>5. CASE InitReport
  BY <1>5 DEF InitReport
<1>6. CASE InitProtocol
  BY <1>6 DEF InitProtocol
<1>7. CASE InitWifi
  BY <1>7 DEF InitWifi
<1>8. CASE InitEspnow
  BY <1>8 DEF InitEspnow
<1>9. CASE EspnowDeinit
  BY <1>9 DEF EspnowDeinit
<1>10. CASE WifiDeinit
  BY <1>10 DEF WifiDeinit
<1>11. CASE ProtocolDeinit
  BY <1>11 DEF ProtocolDeinit
<1>12. CASE PccommDeinit
  BY <1>12 DEF PccommDeinit
<1>13. CASE ContextDeinit
  BY <1>13 DEF ContextDeinit
<1>14. CASE UNCHANGED vars
  BY <1>14 DEF vars
<1> QED
  BY <1>1, <1>2, <1>3, <1>4, <1>5, <1>6, <1>7, <1>8, <1>9, <1>10, <1>11,
     <1>12, <1>13, <1>14 DEF Next

LEMMA LifecycleInvariant == Spec => []LifecycleInv
BY InitLifecycle, NextLifecycle, PTL DEF Spec

\* No worker outlives the context runtime_satellite_push_callback dereferences.
THEOREM ClicksMeetContext == Spec => []ClickHasContext
<1>1. LifecycleInv => ClickHasContext
  BY DEF LifecycleInv, Starting, ClickHasContext
<1> QED
  BY <1>1, LifecycleInvariant, PTL

\* runtime_server_init returns ESP_OK only with table, radio and worker up.
THEOREM UpMeansServing == Spec => []UpServesSatellites
<1>1. LifecycleInv => UpServesSatellites
  BY DEF LifecycleInv, Starting, UpServesSatellites
<1> QED
  BY <1>1, LifecycleInvariant, PTL
-----------------------------------------------------------------------------
PcType == [ready : BOOLEAN, report : BOOLEAN, queue : BOOLEAN,
           running : BOOLEAN, driver : BOOLEAN, cdc : BOOLEAN]

Serving == {"protocol", "wifi", "espnow", "up"}

PccommInv ==
  /\ context \in BOOLEAN /\ faulty \in BOOLEAN
  /\ pc \in PcType
  /\ pc.cdc => pc.driver
  /\ at = "down" => ~context
  /\ ~faulty =>
       /\ (pc.running <=> pc.driver) /\ (pc.running <=> pc.cdc) /\ (pc.ready <=> pc.report)
       /\ pc.running <=> pc.ready \/ at = "report"
       /\ at \in {"usb", "report", "context_deinit", "down"} => ~pc.ready
       /\ at \in Serving => pc.ready

LEMMA InitPccomm == Init => PccommInv
<1> SUFFICES ASSUME Init
             PROVE  PccommInv
  OBVIOUS
<1>1. pc \in PcType /\ context \in BOOLEAN /\ faulty \in BOOLEAN
  BY DEF Init, PcType
<1>2. ~(pc.ready \/ pc.report \/ pc.running \/ pc.driver \/ pc.cdc)
  BY DEF Init
<1> QED BY <1>1, <1>2 DEF Init, PccommInv, Serving

\* What usbdevice_deinit leaves, and how `running' tells whether it failed.
LEMMA UsbDeinitLeaves ==
  ASSUME PccommInv, NEW p \in UsbDeinit
  PROVE  /\ p \in PcType
         /\ (p.ready <=> pc.ready) /\ (p.report <=> pc.report)
         /\ p.cdc => p.driver
         /\ ~faulty /\ ~p.running => ~p.driver /\ ~p.cdc
<1>1. /\ pc \in PcType /\ (pc.cdc => pc.driver)
      /\ ~faulty => (pc.running <=> pc.driver) /\ (pc.running <=> pc.cdc)
  BY DEF PccommInv
<1>2. \/ p = pc /\ (~faulty /\ ~p.running => ~p.driver /\ ~p.cdc)
      \/ p = [pc EXCEPT !.cdc = FALSE] /\ pc.running
      \/ p = [pc EXCEPT !.running = FALSE, !.driver = FALSE, !.cdc = FALSE]
  BY <1>1 DEF UsbDeinit
<1>3. CASE p = pc /\ (~faulty /\ ~p.running => ~p.driver /\ ~p.cdc)
  BY <1>1, <1>3
<1>4. CASE p = [pc EXCEPT !.cdc = FALSE] /\ pc.running
  <2>1. p \in PcType
    BY <1>1, <1>4 DEF PcType
  <2>2. ~p.cdc /\ (p.running <=> pc.running) /\ (p.ready <=> pc.ready) /\ (p.report <=> pc.report)
    BY <1>1, <1>4 DEF PcType
  <2> QED BY <1>4, <2>1, <2>2
<1>5. CASE p = [pc EXCEPT !.running = FALSE, !.driver = FALSE, !.cdc = FALSE]
  <2>1. p \in PcType
    BY <1>1, <1>5 DEF PcType
  <2>2. ~p.cdc /\ ~p.driver /\ (p.ready <=> pc.ready) /\ (p.report <=> pc.report)
    BY <1>1, <1>5 DEF PcType
  <2> QED BY <2>1, <2>2
<1> QED BY <1>2, <1>3, <1>4, <1>5

LEMMA NextPccomm == PccommInv /\ [Next]_vars => PccommInv'
<1> SUFFICES ASSUME PccommInv, [Next]_vars
             PROVE  PccommInv'
  OBVIOUS
<1> USE DEF PccommInv, PcType, Serving
<1>1. CASE InitContext
  BY <1>1 DEF InitContext
<1>2. CASE SkipPccomm
  BY <1>2 DEF SkipPccomm
<1>3. CASE InitRx
  BY <1>3 DEF InitRx
<1>4. CASE InitUsb
  BY <1>4 DEF InitUsb
<1>5. CASE InitReport
  <2>1. CASE /\ pc' = [pc EXCEPT !.ready = TRUE, !.report = TRUE]
             /\ at' = "protocol"
             /\ UNCHANGED faulty
    BY <1>5, <2>1 DEF InitReport
  <2>2. CASE /\ pc' \in UsbDeinit
             /\ at' = "context_deinit"
             /\ faulty' = (faulty \/ pc'.running)
    BY <1>5, <2>2, UsbDeinitLeaves DEF InitReport
  <2> QED BY <1>5, <2>1, <2>2 DEF InitReport
<1>6. CASE PccommDeinit
  <2>1. CASE ~pc.ready /\ UNCHANGED <<pc, faulty>>
    BY <1>6, <2>1 DEF PccommDeinit
  <2>2. ASSUME pc.ready, faulty' = (faulty \/ pc'.running), NEW p \in UsbDeinit,
               pc' = [p EXCEPT !.report = FALSE, !.ready = p.running]
        PROVE  PccommInv'
    BY <1>6, <2>2, UsbDeinitLeaves DEF PccommDeinit
  <2> QED BY <1>6, <2>1, <2>2 DEF PccommDeinit
<1>7. CASE InitProtocol \/ InitWifi \/ InitEspnow
  BY <1>7 DEF InitProtocol, InitWifi, InitEspnow
<1>8. CASE EspnowDeinit \/ WifiDeinit \/ ProtocolDeinit
  BY <1>8 DEF EspnowDeinit, WifiDeinit, ProtocolDeinit
<1>9. CASE ContextDeinit
  BY <1>9 DEF ContextDeinit
<1>10. CASE UNCHANGED vars
  BY <1>10 DEF vars
<1> QED
  BY <1>1, <1>2, <1>3, <1>4, <1>5, <1>6, <1>7, <1>8, <1>9, <1>10 DEF Next

LEMMA PccommInvariant == Spec => []PccommInv
BY InitPccomm, NextPccomm, PTL DEF Spec

\* The flags keep their types, and the port is never open without its driver.
THEOREM TypeCorrect == Spec => []TypeOK
<1>1. LifecycleInv /\ PccommInv => TypeOK
  BY DEF LifecycleInv, PccommInv, SatType, PcType, TypeOK
<1> QED
  BY <1>1, LifecycleInvariant, PccommInvariant, PTL

\* If no call that undoes something ever fails, a server that is up reports.
THEOREM UpMeansReporting == Spec => []UpReports
<1>1. PccommInv => UpReports
  BY DEF PccommInv, Serving, UpReports
<1> QED
  BY <1>1, PccommInvariant, PTL

\* If no call that undoes something ever fails, a failed start and a stop leave
\* neither context, report task, USB stack nor worker.
THEOREM DownMeansQuiet == Spec => []DownIsQuiet
<1>1. LifecycleInv /\ PccommInv => DownIsQuiet
  BY DEF LifecycleInv, PccommInv, DownIsQuiet
<1> QED
  BY <1>1, LifecycleInvariant, PccommInvariant, PTL
=============================================================================
