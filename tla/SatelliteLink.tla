--------------------------- MODULE SatelliteLink ----------------------------
(***************************************************************************)
(* The controller and its satellites over ESP-NOW: discovery, assignment,  *)
(* heartbeat, connection timeout and clicks.                               *)
(*                                                                         *)
(* Every device has one receive queue, filled by the radio callback and    *)
(* emptied by its worker task, which runs the handlers (satellite_espnow.c *)
(* on both sides).  A satellite also has its discovery task and its piezo  *)
(* task, the controller its heartbeat task and the task that runs the      *)
(* commands of the PC.  A send reaches any subset of its destinations: a   *)
(* packet may be lost, also because the queue it arrives at is full.       *)
(*                                                                         *)
(* Two values are not initialised by the code and left to the build here:  *)
(* the server address a satellite takes from an assignment (StackMac) and  *)
(* the type it gives to a heartbeat (StackType).                           *)
(*                                                                         *)
(* There is no clock here: a connection may time out at any moment, since  *)
(* any number of heartbeats may be lost.  LinkTiming adds the timers.      *)
(***************************************************************************)
EXTENDS ClientTable, Sequences

CONSTANTS Server,      \* the controller's address
          QueueSize,   \* CONFIG_ESPNOW_QUEUE_SIZE
          Commands,    \* the JSON messages the PC's commands broadcast
          StackMac,    \* what hw_server may hold, uninitialised
          StackType    \* what the type of a heartbeat may hold, uninitialised

Sat  == Mac
Node == Sat \cup {Server}

CommandTypes == {"set_time", "request_status", "blink_satellite"}
MessageTypes == {"CONTROLLER_ACK_ROLE", "CONTROLLER_CMD_START_SONG",
                 "CONTROLLER_CMD_SET_GAME_TIME", "CONTROLLER_CMD_RESET_TIMEHUB",
                 "CONTROLLER_CMD_REQUEST_STATUS", "CONTROLLER_CMD_BLINK_SATELLITE"}

ASSUME ServerAssumption == Server \notin Sat \cup {ZeroMac}
ASSUME QueueSizeAssumption == QueueSize \in Nat \ {0}
ASSUME CommandsAssumption == Commands \subseteq CommandTypes
ASSUME SearchAssumption == Unknown \in RequestedRoles   \* send_discovery asks for it
ASSUME StackAssumption == StackMac # {} /\ StackType # {} /\ StackType \subseteq MessageTypes

VARIABLES
  rxq,                 \* the receive queue of each device
  s_connected,         \* per satellite: the discovery task may rest
  s_server_mac,        \* per satellite: where its clicks go ...
  s_server_mac_valid,  \* ... once this is set
  clock,               \* per satellite: what its game time was last set from
  feet,                \* whose clicks the runtime took for each foot, as long
                       \* as both feet have been taken (an observer)
  orphans              \* which satellites still live on what the controller
                       \* told them before it was stopped (an observer)

satVars  == <<s_connected, s_server_mac, s_server_mac_valid, clock>>
observed == <<feet, orphans>>
linkVars == <<tableVars, rxq, satVars, observed>>

-----------------------------------------------------------------------------
(* The radio. *)

Packet == [type : {"discover", "assign", "heartbeat", "click"} \cup CommandTypes,
           src : Node, role : Role \cup {Unknown}]

Pkt(type, src, role) == [type |-> type, src |-> src, role |-> role]

\* Mutant of Enqueue: the bound of the queue is off by one.
EnqueueOffByOne(n, q, p) ==
  IF (n = Server => s_initialized) /\ Len(q) <= QueueSize THEN Append(q, p) ELSE q

\* The receive callback: without a queue, or with a full one, the packet is
\* dropped.
Enqueue(n, q, p) ==
  IF (n = Server => s_initialized) /\ Len(q) < QueueSize THEN Append(q, p) ELSE q

\* The queues qs once p has reached the devices in got.
Delivered(qs, p, got) == [n \in Node |-> IF n \in got THEN Enqueue(n, qs[n], p) ELSE qs[n]]

\* The queues once the worker of n has taken its first packet.
Taken(n) == [rxq EXCEPT ![n] = Tail(@)]

\* A satellite that is connected, or has a packet of the controller's to take.
Linked(s) == s_connected[s] \/ \E k \in 1 .. Len(rxq[s]) : rxq[s][k].src = Server

-----------------------------------------------------------------------------
(* A satellite. *)

\* Satellites that came loose from the controller are no orphans any more.
LinkedOrphans == orphans' = {s \in orphans : Linked(s)'}

\* Power cycle: the memory and the queue are those of a fresh start.
SatReset(s) ==
  /\ s_connected' = [s_connected EXCEPT ![s] = FALSE]
  /\ s_server_mac' = [s_server_mac EXCEPT ![s] = ZeroMac]
  /\ s_server_mac_valid' = [s_server_mac_valid EXCEPT ![s] = FALSE]
  /\ clock' = [clock EXCEPT ![s] = "boot"]
  /\ rxq' = [rxq EXCEPT ![s] = <<>>]
  /\ LinkedOrphans
  /\ UNCHANGED <<tableVars, feet>>

SendDiscovery(s, got) == rxq' = Delivered(rxq, Pkt("discover", s, Unknown), got)

\* The discovery task's loop on a satellite that is not connected ...
Search(s, got) ==
  /\ ~s_connected[s]
  /\ SendDiscovery(s, got)
  /\ UNCHANGED <<tableVars, satVars, observed>>

\* ... and on one whose connection has timed out: the broadcast follows in the
\* same turn.  The server's address stays valid.
Timeout(s, got) ==
  /\ s_connected[s]
  /\ s_connected' = [s_connected EXCEPT ![s] = FALSE]
  /\ SendDiscovery(s, got)
  /\ LinkedOrphans
  /\ UNCHANGED <<tableVars, s_server_mac, s_server_mac_valid, clock, feet>>

\* The message types the worker may read out of a packet; none when it does
\* not parse.
Parsed(p) ==
  CASE p.type = "assign"          -> {"CONTROLLER_ACK_ROLE"}
    [] p.type = "heartbeat"       -> StackType
    [] p.type = "set_time"        -> {"CONTROLLER_CMD_SET_GAME_TIME"}
    [] p.type = "request_status"  -> {"CONTROLLER_CMD_REQUEST_STATUS"}
    [] p.type = "blink_satellite" -> {"CONTROLLER_CMD_BLINK_SATELLITE"}
    [] OTHER                      -> {}

\* satellite_client_protocol_cb on an acknowledged role: the address comes from
\* hw_server, which nobody has written.
Connect(s, mac) ==
  /\ s_server_mac' = [s_server_mac EXCEPT ![s] = mac]
  /\ s_server_mac_valid' = [s_server_mac_valid EXCEPT ![s] = TRUE]
  /\ s_connected' = [s_connected EXCEPT ![s] = TRUE]

\* runtime_client_callback: the time of a message that is not a set_time is
\* whatever the union holds.
ClockAfter(s, t, p) ==
  CASE t = "CONTROLLER_CMD_SET_GAME_TIME" -> IF p.type = "set_time" THEN "server" ELSE "junk"
    [] t = "CONTROLLER_CMD_RESET_TIMEHUB" -> "restarted"
    [] OTHER                              -> clock[s]

\* The worker takes a packet.
SatReceive(s) ==
  /\ rxq[s] # <<>>
  /\ rxq' = Taken(s)
  /\ LET p == Head(rxq[s])
     IN \/ /\ Parsed(p) = {}
           /\ UNCHANGED satVars
        \/ \E t \in Parsed(p) :
             /\ IF t = "CONTROLLER_ACK_ROLE"
                THEN \E mac \in StackMac : Connect(s, mac)
                ELSE UNCHANGED <<s_connected, s_server_mac, s_server_mac_valid>>
             /\ clock' = [clock EXCEPT ![s] = ClockAfter(s, t, p)]
  /\ LinkedOrphans
  /\ UNCHANGED <<tableVars, feet>>

\* The piezo task pushes a click: connected or not, it goes to the last
\* address taken for the server's.
Click(s, got) ==
  /\ s_server_mac_valid[s]
  /\ rxq' = Delivered(rxq, Pkt("click", s, Unknown), got \cap {s_server_mac[s]})
  /\ UNCHANGED <<tableVars, satVars, observed>>

-----------------------------------------------------------------------------
(* The controller. *)

NoFeet == [r \in Role |-> {}]

ServerStart ==
  /\ ProtocolInit
  /\ UNCHANGED <<rxq, satVars, observed>>

\* A stop, or a reset: the table, the queue and the feet start afresh; the
\* satellites, and the packets before them, stay as they are.
ServerStop ==
  /\ ProtocolDeinit
  /\ rxq' = [rxq EXCEPT ![Server] = <<>>]
  /\ feet' = NoFeet
  /\ orphans' = {s \in Sat : Linked(s)}
  /\ UNCHANGED satVars

\* The worker takes a DISCOVER from s and, if it registers s, answers.
ServerDiscover(s, got) ==
  /\ rxq[Server] # <<>>
  /\ LET p == Head(rxq[Server])
     IN /\ p.type = "discover" /\ p.src = s
        /\ \/ /\ Assign(s, p.role)
              /\ rxq' = Delivered(Taken(Server),
                                  Pkt("assign", Server, AssignedRole(p.role)), got \cap {s})
           \/ /\ Refuse(s, p.role)
              /\ rxq' = Taken(Server)
  /\ UNCHANGED <<satVars, observed>>

\* The worker takes a click: it counts for the foot the table gives its sender.
ServerClick(s) ==
  /\ rxq[Server] # <<>>
  /\ Head(rxq[Server]).type = "click" /\ Head(rxq[Server]).src = s
  /\ rxq' = Taken(Server)
  /\ feet' = IF Known(s) /\ Paired
             THEN [feet EXCEPT ![RoleOf(s)] = @ \cup {s}]
             ELSE feet
  /\ UNCHANGED <<tableVars, satVars, orphans>>

Clients == {s \in Sat : Known(s)}

\* Mutant of SendAll: one broadcast in place of a send to every client.
SendBroadcast(type, got) ==
  /\ s_initialized
  /\ rxq' = Delivered(rxq, Pkt(type, Server, Unknown), got \cap Sat)
  /\ UNCHANGED <<tableVars, satVars, observed>>

\* sendjson_allclients: one send after another, whatever becomes of each.
SendAll(type, got) ==
  /\ s_initialized /\ Clients # {}
  /\ rxq' = Delivered(rxq, Pkt(type, Server, Unknown), got \cap Clients)
  /\ UNCHANGED <<tableVars, satVars, observed>>

Heartbeat(got) == SendAll("heartbeat", got)

Command(got) == \E type \in Commands : SendAll(type, got)

-----------------------------------------------------------------------------
LinkInit ==
  /\ TableInit
  /\ rxq = [n \in Node |-> <<>>]
  /\ s_connected = [s \in Sat |-> FALSE]
  /\ s_server_mac = [s \in Sat |-> ZeroMac]
  /\ s_server_mac_valid = [s \in Sat |-> FALSE]
  /\ clock = [s \in Sat |-> "boot"]
  /\ feet = NoFeet
  /\ orphans = {}

LinkNext ==
  \/ ServerStart
  \/ ServerStop
  \/ \E got \in SUBSET Sat : Heartbeat(got) \/ Command(got)
  \/ \E s \in Sat :
       \/ SatReset(s) \/ SatReceive(s) \/ ServerClick(s)
       \/ \E got \in SUBSET (Node \ {s}) : Search(s, got) \/ Timeout(s, got)
       \/ \E got \in SUBSET {Server} : Click(s, got)
       \/ \E got \in SUBSET {s} : ServerDiscover(s, got)

LinkSpec == LinkInit /\ [][LinkNext]_linkVars

\* The radio and the queues do not fail for ever: a DISCOVER or an answer that
\* could get through again and again does so again and again.  The tasks of a
\* satellite and of the controller are never starved.
Reached(s)  == Search(s, Node \ {s}) /\ rxq'[Server] # rxq[Server]
Answered(s) == ServerDiscover(s, {s}) /\ rxq'[s] # rxq[s]

LinkFairness ==
  /\ WF_linkVars(ServerStart)
  /\ \A s \in Sat : /\ SF_linkVars(SatReceive(s))
                    /\ SF_linkVars(Reached(s))
                    /\ SF_linkVars(Answered(s))
                    /\ WF_linkVars(ServerDiscover(s, {}))
                    /\ WF_linkVars(ServerClick(s))

FairLinkSpec == LinkSpec /\ LinkFairness

-----------------------------------------------------------------------------
(* Properties. *)

LinkTypeOK ==
  /\ TableTypeOK
  /\ rxq \in [Node -> Seq(Packet)]
  /\ \A n \in Node : Len(rxq[n]) <= QueueSize
  /\ s_connected \in [Sat -> BOOLEAN]
  /\ s_server_mac \in [Sat -> StackMac \cup {ZeroMac}]
  /\ s_server_mac_valid \in [Sat -> BOOLEAN]
  /\ clock \in [Sat -> {"boot", "server", "junk", "restarted"}]
  /\ feet \in [Role -> SUBSET Sat]
  /\ orphans \subseteq Sat

\* While both feet are taken the clicks the runtime counts for a foot are all
\* one satellite's, and a satellite plays one foot, through every loss, repeat,
\* timeout and satellite reset: only stopping the controller changes it.
OnePlayerPerFoot ==
  /\ \A r \in Role : \A a, b \in feet[r] : a = b
  /\ feet[Left] \cap feet[Right] = {}

\* A satellite believes itself connected, or is about to hear the controller,
\* only if the controller's table has it, or has had it before a stop that the
\* satellite's connection or a packet under way has outlived.  So a heartbeat
\* whose uninitialised type reads as an acknowledged role connects nobody whom
\* the controller does not know, nor does a late or a repeated assignment, and
\* after a restart of the controller only a DISCOVER makes a new connection.
ConnectedIsRegistered == \A s \in Sat : Linked(s) => Known(s) \/ s \in orphans

\* Under LinkFairness, once the controller is up, no satellite is switched off
\* and on any more and broadcasts leave a place in the queues for an answer
\* (heartbeats are 900 ms apart and the queues have six places), every
\* satellite is connected again and again: no search for the server goes on
\* for ever.
LeavesRoom ==
  \A s \in Sat : rxq'[s] # rxq[s] /\ Len(rxq'[s]) = QueueSize
                    => rxq'[s][QueueSize].type = "assign"

Settled == /\ <>[]s_initialized
           /\ <>[][LeavesRoom]_linkVars
           /\ \A s \in Sat : <>[][~SatReset(s)]_linkVars

EverySearchEnds == Settled => \A s \in Sat : []<>s_connected[s]
=============================================================================
