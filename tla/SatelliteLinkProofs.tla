-------------------------- MODULE SatelliteLinkProofs -------------------------
(***************************************************************************)
(* Theorems about SatelliteLink, for any number of satellites, any size of *)
(* the queues and whatever the uninitialised values are.                   *)
(*                                                                         *)
(* The link implements the client table (LinkImplementsTable), so that     *)
(* every theorem of ClientTableProofs holds of the whole link too.  The    *)
(* invariant LinkInv adds the queues, the satellites and the observer:     *)
(* whoever is in feet has a slot with that role in a table that is paired, *)
(* and a paired table does not change before it is cleared.  That whoever  *)
(* is connected is registered (LinkedOK) needs that assignments and        *)
(* heartbeats are the controller's (Genuine) and that the table forgets    *)
(* nobody before it is cleared.  The timers of LinkTiming only restrict    *)
(* when the steps of the link are taken (TimedImplementsLink), so all of   *)
(* it holds of the timed link too.                                         *)
(***************************************************************************)
EXTENDS LinkTiming, ClientTableProofs

\* A packet as its sender makes it: a search asks for any role, and only the
\* controller assigns and sends heartbeats.
Genuine(p) ==
  /\ p.type = "discover" => p.role = Unknown
  /\ p.type \in {"assign", "heartbeat"} => p.src = Server

QueueOK(q) ==
  /\ q \in Seq(Packet) /\ Len(q) <= QueueSize
  /\ \A k \in 1 .. Len(q) : Genuine(q[k])

QueuesOK == /\ rxq = [n \in Node |-> rxq[n]]
            /\ \A n \in Node : QueueOK(rxq[n])

SatsOK ==
  /\ s_connected \in [Sat -> BOOLEAN]
  /\ s_server_mac \in [Sat -> StackMac \cup {ZeroMac}]
  /\ s_server_mac_valid \in [Sat -> BOOLEAN]
  /\ clock \in [Sat -> {"boot", "server", "junk", "restarted"}]

Holds(s, r) == \E i \in Used : s_clients[i].mac = s /\ s_clients[i].role = r

FeetOK ==
  /\ feet \in [Role -> SUBSET Sat]
  /\ \A r \in Role : \A a \in feet[r] : Paired /\ Holds(a, r)

LinkedOK == orphans \subseteq Sat /\ ConnectedIsRegistered

LinkInv == TableInv /\ QueuesOK /\ SatsOK /\ FeetOK /\ LinkedOK

-----------------------------------------------------------------------------
(* The queues. *)

LEMMA PktIsPacket ==
  ASSUME NEW type \in {"discover", "assign", "heartbeat", "click"} \cup CommandTypes,
         NEW src \in Node, NEW role \in Role \cup {Unknown}
  PROVE  Pkt(type, src, role) \in Packet
BY DEF Pkt, Packet

\* Enqueue keeps a queue within its bound.
LEMMA EnqueueKeeps ==
  ASSUME NEW n, NEW q, QueueOK(q), NEW p \in Packet, Genuine(p)
  PROVE  QueueOK(Enqueue(n, q, p))
<1>1. CASE Enqueue(n, q, p) = q
  BY <1>1
<1>2. CASE Enqueue(n, q, p) # q
  <2>1. Enqueue(n, q, p) = Append(q, p) /\ Len(q) < QueueSize
    BY <1>2 DEF Enqueue
  <2>2. q \in Seq(Packet) /\ Len(q) \in Nat
    BY DEF QueueOK
  <2>3. /\ Append(q, p) \in Seq(Packet)
        /\ Len(Append(q, p)) = Len(q) + 1
        /\ \A k \in 1 .. Len(q) : Append(q, p)[k] = q[k]
        /\ Append(q, p)[Len(q) + 1] = p
    BY <2>2
  <2>4. \A k \in 1 .. Len(q) + 1 : k \in 1 .. Len(q) \/ k = Len(q) + 1
    BY <2>2
  <2>5. Len(q) + 1 <= QueueSize
    BY <2>1, <2>2, QueueSizeAssumption
  <2> QED BY <2>1, <2>3, <2>4, <2>5 DEF QueueOK
<1> QED BY <1>1, <1>2

LEMMA TailKeeps ==
  ASSUME NEW q, QueueOK(q), q # <<>>
  PROVE  QueueOK(Tail(q)) /\ Head(q) \in Packet /\ Genuine(Head(q))
<1>1. q \in Seq(Packet) /\ Len(q) \in Nat \ {0}
  BY DEF QueueOK
<1>2. /\ Tail(q) \in Seq(Packet) /\ Len(Tail(q)) = Len(q) - 1
      /\ \A k \in 1 .. Len(q) - 1 : Tail(q)[k] = q[k + 1]
      /\ Head(q) = q[1] /\ Head(q) \in Packet
  BY <1>1
<1>3. \A k \in 1 .. Len(q) - 1 : k + 1 \in 1 .. Len(q)
  BY <1>1
<1>4. 1 \in 1 .. Len(q) /\ Len(q) - 1 <= QueueSize
  BY <1>1, QueueSizeAssumption DEF QueueOK
<1> QED BY <1>1, <1>2, <1>3, <1>4 DEF QueueOK

\* A send leaves every queue within its bound, whomever it reaches.
LEMMA DeliveredKeeps ==
  ASSUME NEW qs, \A n \in Node : QueueOK(qs[n]), NEW got, NEW p \in Packet, Genuine(p)
  PROVE  /\ Delivered(qs, p, got) = [n \in Node |-> Delivered(qs, p, got)[n]]
         /\ \A n \in Node : QueueOK(Delivered(qs, p, got)[n])
BY EnqueueKeeps DEF Delivered

LEMMA TakenKeeps ==
  ASSUME QueuesOK, NEW n \in Node, rxq[n] # <<>>
  PROVE  /\ Taken(n) = [m \in Node |-> Taken(n)[m]]
         /\ \A m \in Node : QueueOK(Taken(n)[m])
         /\ Head(rxq[n]) \in Packet
         /\ Genuine(Head(rxq[n]))
BY TailKeeps DEF Taken, QueuesOK

-----------------------------------------------------------------------------
(* The table: each step of the link is a step of ClientTable or a stutter. *)

LEMMA TableStep == QueuesOK /\ [LinkNext]_linkVars => [TableNext]_tableVars
<1> SUFFICES ASSUME QueuesOK, [LinkNext]_linkVars
             PROVE  [TableNext]_tableVars
  OBVIOUS
<1>1. CASE ServerStart
  BY <1>1 DEF ServerStart, TableNext
<1>2. CASE ServerStop
  BY <1>2 DEF ServerStop, TableNext
<1>3. CASE \E got \in SUBSET Sat : Heartbeat(got) \/ Command(got)
  BY <1>3 DEF Heartbeat, Command, SendAll
<1>4. CASE \E s \in Sat : SatReset(s) \/ SatReceive(s) \/ ServerClick(s)
  BY <1>4 DEF SatReset, SatReceive, ServerClick
<1>5. CASE \E s \in Sat : \E got \in SUBSET (Node \ {s}) : Search(s, got) \/ Timeout(s, got)
  BY <1>5 DEF Search, Timeout
<1>6. CASE \E s \in Sat : \E got \in SUBSET {Server} : Click(s, got)
  BY <1>6 DEF Click
<1>7. ASSUME NEW s \in Sat, NEW got \in SUBSET {s}, ServerDiscover(s, got)
      PROVE  TableNext
  <2>1. Head(rxq[Server]).role = Unknown
    <3>1. Server \in Node /\ rxq[Server] # <<>> /\ Head(rxq[Server]).type = "discover"
      BY <1>7 DEF ServerDiscover, Node
    <3> QED BY <3>1, TakenKeeps DEF Genuine
  <2>2. Assign(s, Unknown) \/ Refuse(s, Unknown)
    BY <1>7, <2>1 DEF ServerDiscover
  <2> QED BY <2>2, SearchAssumption DEF TableNext, Sat
<1>8. CASE UNCHANGED linkVars
  BY <1>8 DEF linkVars
<1> QED BY <1>1, <1>2, <1>3, <1>4, <1>5, <1>6, <1>7, <1>8 DEF LinkNext

-----------------------------------------------------------------------------
(* The queues, step by step. *)

LEMMA QueuesStep == QueuesOK /\ [LinkNext]_linkVars => QueuesOK'
<1> SUFFICES ASSUME QueuesOK, [LinkNext]_linkVars
             PROVE  QueuesOK'
  OBVIOUS
<1>1. ASSUME UNCHANGED rxq
      PROVE  QueuesOK'
  BY <1>1 DEF QueuesOK, QueueOK
<1>2. ASSUME NEW n \in Node, rxq' = [rxq EXCEPT ![n] = <<>>]
      PROVE  QueuesOK'
  <2>1. QueueOK(<<>>)
    BY QueueSizeAssumption DEF QueueOK
  <2> QED BY <1>2, <2>1 DEF QueuesOK, QueueOK
<1>3. ASSUME NEW p \in Packet, Genuine(p), NEW got,
             rxq' = Delivered(rxq, p, got)
      PROVE  QueuesOK'
  <2>1. \A n \in Node : QueueOK(rxq[n])
    BY DEF QueuesOK
  <2>2. /\ rxq' = [n \in Node |-> rxq'[n]]
        /\ \A n \in Node : QueueOK(rxq'[n])
    BY <1>3, <2>1, DeliveredKeeps
  <2> QED BY <2>2 DEF QueuesOK, QueueOK
<1>4. ASSUME NEW n \in Node, rxq[n] # <<>>, rxq' = Taken(n)
      PROVE  QueuesOK'
  BY <1>4, TakenKeeps DEF QueuesOK, QueueOK
<1>5. ASSUME NEW n \in Node, rxq[n] # <<>>, NEW p \in Packet, Genuine(p),
             NEW got, rxq' = Delivered(Taken(n), p, got)
      PROVE  QueuesOK'
  <2>1. \A m \in Node : QueueOK(Taken(n)[m])
    BY <1>5, TakenKeeps
  <2>2. /\ rxq' = [m \in Node |-> rxq'[m]]
        /\ \A m \in Node : QueueOK(rxq'[m])
    BY <1>5, <2>1, DeliveredKeeps
  <2> QED BY <2>2 DEF QueuesOK, QueueOK
<1>6. ASSUME NEW type \in {"discover", "assign", "heartbeat", "click"} \cup CommandTypes,
             NEW src \in Node, NEW role \in Role \cup {Unknown},
             type = "discover" => role = Unknown,
             type \in {"assign", "heartbeat"} => src = Server
      PROVE  Pkt(type, src, role) \in Packet /\ Genuine(Pkt(type, src, role))
  <2>1. Pkt(type, src, role) \in Packet
    BY <1>6, PktIsPacket
  <2>2. /\ Pkt(type, src, role).type = type /\ Pkt(type, src, role).src = src
        /\ Pkt(type, src, role).role = role
    BY DEF Pkt
  <2> QED BY <1>6, <2>1, <2>2 DEF Genuine
<1>7. Server \in Node /\ Sat \subseteq Node
  BY DEF Node
<1>8. CASE ServerStart
  BY <1>1, <1>8 DEF ServerStart
<1>9. CASE ServerStop
  BY <1>2, <1>7, <1>9 DEF ServerStop
<1>10. ASSUME NEW got, NEW type \in {"heartbeat"} \cup CommandTypes, SendAll(type, got)
       PROVE  QueuesOK'
  <2>1. type # "discover" /\ Unknown \in Role \cup {Unknown}
    BY <1>10 DEF CommandTypes
  <2>2. Pkt(type, Server, Unknown) \in Packet /\ Genuine(Pkt(type, Server, Unknown))
    BY <1>6, <1>7, <1>10, <2>1
  <2> QED BY <1>3, <1>10, <2>2 DEF SendAll
<1>11. CASE \E got \in SUBSET Sat : Heartbeat(got) \/ Command(got)
  BY <1>10, <1>11, CommandsAssumption DEF Heartbeat, Command
<1>12. ASSUME NEW s \in Sat, SatReset(s)
       PROVE  QueuesOK'
  BY <1>2, <1>7, <1>12 DEF SatReset
<1>13. ASSUME NEW s \in Sat, SatReceive(s)
       PROVE  QueuesOK'
  BY <1>4, <1>7, <1>13 DEF SatReceive
<1>14. ASSUME NEW s \in Sat, ServerClick(s)
       PROVE  QueuesOK'
  BY <1>4, <1>7, <1>14 DEF ServerClick
<1>15. ASSUME NEW s \in Sat, NEW got, Search(s, got) \/ Timeout(s, got)
       PROVE  QueuesOK'
  BY <1>3, <1>6, <1>7, <1>15 DEF Search, Timeout, SendDiscovery
<1>16. ASSUME NEW s \in Sat, NEW got, Click(s, got)
       PROVE  QueuesOK'
  BY <1>3, <1>6, <1>7, <1>16 DEF Click
<1>17. ASSUME NEW s \in Sat, NEW got, ServerDiscover(s, got)
       PROVE  QueuesOK'
  <2> DEFINE p == Head(rxq[Server])
             q == Pkt("assign", Server, AssignedRole(p.role))
  <2>1. rxq[Server] # <<>> /\ p \in Packet
    BY <1>7, <1>17, TakenKeeps DEF ServerDiscover
  <2>2. AssignedRole(p.role) \in Role \cup {Unknown}
    BY <2>1 DEF AssignedRole, RoleAvailable, Packet, Role
  <2>3. q \in Packet /\ Genuine(q)
    BY <1>6, <1>7, <2>2
  <2>4. \/ rxq' = Delivered(Taken(Server), q, got \cap {s})
        \/ rxq' = Taken(Server)
    BY <1>17 DEF ServerDiscover
  <2> HIDE DEF p, q
  <2> QED BY <1>4, <1>5, <1>7, <2>1, <2>3, <2>4
<1>18. CASE UNCHANGED linkVars
  BY <1>1, <1>18 DEF linkVars
<1> QED BY <1>8, <1>9, <1>11, <1>12, <1>13, <1>14, <1>15, <1>16, <1>17, <1>18 DEF LinkNext

-----------------------------------------------------------------------------
(* The satellites. *)

LEMMA SatsStep == SatsOK /\ [LinkNext]_linkVars => SatsOK'
<1> SUFFICES ASSUME SatsOK, [LinkNext]_linkVars
             PROVE  SatsOK'
  OBVIOUS
<1> USE DEF SatsOK
<1>1. ASSUME UNCHANGED satVars
      PROVE  SatsOK'
  BY <1>1 DEF satVars
<1>2. CASE ServerStart \/ ServerStop
  BY <1>1, <1>2 DEF ServerStart, ServerStop
<1>3. CASE \E got \in SUBSET Sat : Heartbeat(got) \/ Command(got)
  BY <1>1, <1>3 DEF Heartbeat, Command, SendAll
<1>4. ASSUME NEW s \in Sat, SatReset(s)
      PROVE  SatsOK'
  BY <1>4 DEF SatReset
<1>5. ASSUME NEW s \in Sat, SatReceive(s)
      PROVE  SatsOK'
  <2>1. ASSUME NEW t, NEW p, clock' = [clock EXCEPT ![s] = ClockAfter(s, t, p)]
        PROVE  clock' \in [Sat -> {"boot", "server", "junk", "restarted"}]
    BY <2>1 DEF ClockAfter
  <2>2. ASSUME NEW mac \in StackMac, Connect(s, mac),
               clock' \in [Sat -> {"boot", "server", "junk", "restarted"}]
        PROVE  SatsOK'
    BY <2>2 DEF Connect
  <2>3. ASSUME UNCHANGED <<s_connected, s_server_mac, s_server_mac_valid>>,
               clock' \in [Sat -> {"boot", "server", "junk", "restarted"}]
        PROVE  SatsOK'
    BY <2>3
  <2> QED BY <1>1, <1>5, <2>1, <2>2, <2>3 DEF SatReceive
<1>6. ASSUME NEW s \in Sat, ServerClick(s)
      PROVE  SatsOK'
  BY <1>1, <1>6 DEF ServerClick
<1>7. ASSUME NEW s \in Sat, NEW got, Search(s, got) \/ Timeout(s, got)
      PROVE  SatsOK'
  BY <1>1, <1>7 DEF Search, Timeout
<1>8. ASSUME NEW s \in Sat, NEW got, Click(s, got) \/ ServerDiscover(s, got)
      PROVE  SatsOK'
  BY <1>1, <1>8 DEF Click, ServerDiscover
<1>9. CASE UNCHANGED linkVars
  BY <1>1, <1>9 DEF linkVars
<1> QED BY <1>2, <1>3, <1>4, <1>5, <1>6, <1>7, <1>8, <1>9 DEF LinkNext

-----------------------------------------------------------------------------
(* Whose clicks count. *)

\* A known satellite holds the role by which its click is counted.
LEMMA KnownHolds ==
  ASSUME TableInv, NEW s, Known(s)
  PROVE  RoleOf(s) \in Role /\ Holds(s, RoleOf(s))
<1>1. FindClient(s) \in Used /\ s_clients[FindClient(s)].mac = s
  BY FindClientFinds
<1> QED BY <1>1 DEF TableInv, UsedSlotsAreComplete, Holds, RoleOf

LEMMA FeetStep == TableInv /\ FeetOK /\ [LinkNext]_linkVars => FeetOK'
<1> SUFFICES ASSUME TableInv, FeetOK, [LinkNext]_linkVars
             PROVE  FeetOK'
  OBVIOUS
<1>1. ASSUME s_clients' = s_clients, feet' = feet
      PROVE  FeetOK'
  BY <1>1 DEF FeetOK, Paired, Occupied, Holds, Used
<1>2. ASSUME feet' = NoFeet
      PROVE  FeetOK'
  BY <1>2 DEF FeetOK, NoFeet
<1>3. CASE ServerStart
  <2>1. s_clients = Cleared
    BY <1>3 DEF ServerStart, ProtocolInit, TableInv, TableTypeOK
  <2> QED BY <1>1, <1>3, <2>1 DEF ServerStart, ProtocolInit, observed
<1>4. CASE ServerStop
  BY <1>2, <1>4 DEF ServerStop
<1>5. CASE \E got \in SUBSET Sat : Heartbeat(got) \/ Command(got)
  BY <1>1, <1>5 DEF Heartbeat, Command, SendAll, tableVars, observed
<1>6. ASSUME NEW s \in Sat, SatReset(s) \/ SatReceive(s)
      PROVE  FeetOK'
  BY <1>1, <1>6 DEF SatReset, SatReceive, tableVars
<1>7. ASSUME NEW s \in Sat, ServerClick(s)
      PROVE  FeetOK'
  <2>1. UNCHANGED s_clients
    BY <1>7 DEF ServerClick, tableVars
  <2>2. CASE Known(s) /\ Paired
    <3>1. RoleOf(s) \in Role /\ Holds(s, RoleOf(s))
      BY <2>2, KnownHolds
    <3>2. feet' = [feet EXCEPT ![RoleOf(s)] = @ \cup {s}]
      BY <1>7, <2>2 DEF ServerClick
    <3>3. feet' \in [Role -> SUBSET Sat]
      BY <3>1, <3>2 DEF FeetOK
    <3>4. \A r \in Role : \A a \in feet'[r] : Paired /\ Holds(a, r)
      BY <2>2, <3>1, <3>2 DEF FeetOK
    <3> QED BY <2>1, <3>3, <3>4 DEF FeetOK, Paired, Occupied, Holds, Used
  <2>3. CASE ~(Known(s) /\ Paired)
    BY <1>1, <1>7, <2>1, <2>3 DEF ServerClick
  <2> QED BY <2>2, <2>3
<1>8. ASSUME NEW s \in Sat, NEW got, Search(s, got) \/ Timeout(s, got) \/ Click(s, got)
      PROVE  FeetOK'
  BY <1>1, <1>8 DEF Search, Timeout, Click, tableVars, observed
<1>9. ASSUME NEW s \in Sat, NEW got, ServerDiscover(s, got)
      PROVE  FeetOK'
  <2>1. feet' = feet
    BY <1>9 DEF ServerDiscover, observed
  <2>2. CASE Paired
    <3>1. \/ Assign(s, Head(rxq[Server]).role)
          \/ Refuse(s, Head(rxq[Server]).role)
      BY <1>9 DEF ServerDiscover
    <3>2. s_clients' = s_clients
      BY <2>2, <3>1, PairedAssignment DEF Refuse, tableVars, Sat
    <3> QED BY <1>1, <2>1, <3>2
  <2>3. CASE ~Paired
    BY <2>1, <2>3 DEF FeetOK
  <2> QED BY <2>2, <2>3
<1>10. CASE UNCHANGED linkVars
  BY <1>1, <1>10 DEF linkVars, tableVars, observed
<1> QED BY <1>3, <1>4, <1>5, <1>6, <1>7, <1>8, <1>9, <1>10 DEF LinkNext

-----------------------------------------------------------------------------
(* Who is connected is registered. *)

\* A packet of the controller's in a queue.
Ours(q) == \E k \in 1 .. Len(q) : q[k].src = Server

LEMMA OursEnqueued ==
  ASSUME NEW n, NEW q, QueueOK(q), NEW p \in Packet, Ours(Enqueue(n, q, p))
  PROVE  Ours(q) \/ p.src = Server
<1>1. q \in Seq(Packet) /\ Len(q) \in Nat
  BY DEF QueueOK
<1>2. /\ Len(Append(q, p)) = Len(q) + 1
      /\ \A k \in 1 .. Len(q) : Append(q, p)[k] = q[k]
      /\ Append(q, p)[Len(q) + 1] = p
  BY <1>1
<1>3. \A k \in 1 .. Len(q) + 1 : k \in 1 .. Len(q) \/ k = Len(q) + 1
  BY <1>1
<1>4. Enqueue(n, q, p) = q \/ Enqueue(n, q, p) = Append(q, p)
  BY DEF Enqueue
<1> QED BY <1>2, <1>3, <1>4 DEF Ours

LEMMA OursTaken ==
  ASSUME NEW q, QueueOK(q), q # <<>>, Ours(Tail(q)) \/ Head(q).src = Server
  PROVE  Ours(q)
<1>1. q \in Seq(Packet) /\ Len(q) \in Nat \ {0}
  BY DEF QueueOK
<1>2. /\ Len(Tail(q)) = Len(q) - 1 /\ Head(q) = q[1]
      /\ \A k \in 1 .. Len(q) - 1 : Tail(q)[k] = q[k + 1]
  BY <1>1
<1>3. 1 \in 1 .. Len(q) /\ \A k \in 1 .. Len(q) - 1 : k + 1 \in 1 .. Len(q)
  BY <1>1
<1> QED BY <1>2, <1>3 DEF Ours

\* The table forgets nobody it registers somebody into.
LEMMA AssignKeepsKnown ==
  ASSUME TableInv, NEW m \in Mac, NEW req, Assign(m, req)
  PROVE  Known(m)' /\ \A a : Known(a) => Known(a)'
<1> DEFINE i == SlotFor(m)
           r == AssignedRole(req)
<1>1. RegisterError(m, r) = "ESP_OK" /\ s_clients' = Registered(m, r)
  BY DEF Assign
<1> HIDE DEF r
<1>2. i \in Slot
  BY <1>1, AcceptedRegistration
<1>3. /\ s_clients'[i] = [used |-> TRUE, mac |-> m, role |-> r]
      /\ \A j \in Slot \ {i} : s_clients'[j] = s_clients[j]
      /\ Used' = Used \cup {i}
  BY <1>1, RegisteredTable
<1>4. i \in Used => s_clients[i].mac = m
  <2>1. CASE Known(m)
    BY <2>1, FindClientFinds DEF SlotFor
  <2>2. CASE ~Known(m)
    <3>1. Free # {}
      BY <1>1, <2>2 DEF RegisterError
    <3> QED BY <2>2, <3>1, FindFreeFinds DEF SlotFor
  <2> QED BY <2>1, <2>2
<1> HIDE DEF i
<1>5. Known(m)'
  BY <1>3 DEF Known, ClientSlots
<1>6. ASSUME NEW a, Known(a)
      PROVE  Known(a)'
  <2>1. PICK j \in Used : s_clients[j].mac = a
    BY <1>6 DEF Known, ClientSlots
  <2>2. CASE j = i
    BY <1>4, <1>5, <2>1, <2>2
  <2>3. CASE j # i
    <3>1. j \in Used' /\ s_clients'[j].mac = a
      BY <1>3, <2>1, <2>3 DEF Used
    <3> QED BY <3>1 DEF Known, ClientSlots
  <2> QED BY <2>2, <2>3
<1> QED BY <1>5, <1>6

LEMMA LinkedIs ==
  /\ \A s : Linked(s) <=> (s_connected[s] \/ Ours(rxq[s]))
  /\ \A s : Linked(s)' <=> (s_connected'[s] \/ Ours(rxq'[s]))
BY DEF Linked, Ours

\* A step that keeps the table and links nobody.
LEMMA LinksNobody ==
  ASSUME LinkedOK, UNCHANGED s_clients, \A s \in Sat : Linked(s)' => Linked(s),
         LinkedOrphans \/ UNCHANGED orphans
  PROVE  LinkedOK'
<1>1. \A s : Known(s)' <=> Known(s)
  BY DEF Known, ClientSlots, Used
<1> QED BY <1>1 DEF LinkedOK, ConnectedIsRegistered, LinkedOrphans

\* A packet of a satellite's links nobody.
LEMMA OthersPacket ==
  ASSUME QueuesOK, NEW p \in Packet, p.src # Server, NEW got,
         rxq' = Delivered(rxq, p, got),
         \A s \in Sat : s_connected'[s] => s_connected[s]
  PROVE  \A s \in Sat : Linked(s)' => Linked(s)
<1> SUFFICES ASSUME NEW s \in Sat, Linked(s)'
             PROVE  Linked(s)
  OBVIOUS
<1>1. s \in Node /\ QueueOK(rxq[s])
  BY DEF QueuesOK, Node
<1>2. rxq'[s] = rxq[s] \/ rxq'[s] = Enqueue(s, rxq[s], p)
  BY <1>1 DEF Delivered
<1>3. Ours(rxq'[s]) => Ours(rxq[s])
  BY <1>1, <1>2, OursEnqueued
<1> QED BY <1>3, LinkedIs

\* A packet of the controller's reaches whom the table has.
LEMMA ServersPacket ==
  ASSUME LinkedOK, NEW qs, \A s \in Sat : QueueOK(qs[s]) /\ qs[s] = rxq[s],
         NEW p \in Packet, NEW got,
         rxq' = Delivered(qs, p, got), UNCHANGED <<s_connected, orphans>>,
         \A s \in Sat : Known(s) \/ s \in got => Known(s)'
  PROVE  LinkedOK'
<1> SUFFICES ASSUME NEW s \in Sat, Linked(s)', s \notin orphans, ~Known(s)'
             PROVE  FALSE
  BY DEF LinkedOK, ConnectedIsRegistered
<1>1. rxq'[s] = rxq[s]
  BY DEF Delivered, Node
<1> QED BY <1>1, LinkedIs DEF LinkedOK, ConnectedIsRegistered

LEMMA LinkedStep ==
  TableInv /\ QueuesOK /\ SatsOK /\ LinkedOK /\ [LinkNext]_linkVars => LinkedOK'
<1> SUFFICES ASSUME TableInv, QueuesOK, SatsOK, LinkedOK, [LinkNext]_linkVars
             PROVE  LinkedOK'
  OBVIOUS
<1>1. \A s \in Sat : s \in Node /\ s # Server /\ QueueOK(rxq[s])
  BY ServerAssumption DEF Node, Sat, QueuesOK
<1>2. Server \in Node /\ QueueOK(rxq[Server])
  BY DEF Node, QueuesOK
<1>3. CASE ServerStart
  <2>1. UNCHANGED <<s_clients, rxq, s_connected, orphans>>
    BY <1>3 DEF ServerStart, ProtocolInit, TableInv, TableTypeOK, satVars, observed
  <2> QED BY <2>1, LinkedIs, LinksNobody
<1>4. CASE ServerStop
  <2>1. \A s \in Sat : rxq'[s] = rxq[s] /\ s_connected' = s_connected
    BY <1>1, <1>4 DEF ServerStop, satVars, QueuesOK
  <2>2. \A s \in Sat : Linked(s)' <=> Linked(s)
    BY <2>1, LinkedIs
  <2>3. orphans' = {s \in Sat : Linked(s)}
    BY <1>4 DEF ServerStop
  <2> QED BY <2>2, <2>3 DEF LinkedOK, ConnectedIsRegistered
<1>5. ASSUME NEW got, NEW type \in {"heartbeat"} \cup CommandTypes, SendAll(type, got)
      PROVE  LinkedOK'
  <2>1. Pkt(type, Server, Unknown) \in Packet
    BY <1>2, PktIsPacket
  <2>2. /\ rxq' = Delivered(rxq, Pkt(type, Server, Unknown), got \cap Clients)
        /\ UNCHANGED <<s_clients, s_connected, orphans>>
    BY <1>5 DEF SendAll, tableVars, satVars, observed
  <2>3. \A s \in Sat : Known(s) \/ s \in got \cap Clients => Known(s)'
    BY <2>2 DEF Clients, Known, ClientSlots, Used
  <2> QED BY <1>1, <2>1, <2>2, <2>3, ServersPacket
<1>6. CASE \E got \in SUBSET Sat : Heartbeat(got) \/ Command(got)
  BY <1>5, <1>6, CommandsAssumption DEF Heartbeat, Command
<1>7. ASSUME NEW s \in Sat, SatReset(s)
      PROVE  LinkedOK'
  <2>1. \A t \in Sat : \/ (~s_connected'[t] /\ rxq'[t] = <<>>)
                        \/ (s_connected'[t] = s_connected[t] /\ rxq'[t] = rxq[t])
    BY <1>1, <1>7 DEF SatReset, SatsOK, QueuesOK
  <2>2. ~Ours(<<>>)
    BY DEF Ours
  <2>3. \A t \in Sat : Linked(t)' => Linked(t)
    BY <2>1, <2>2, LinkedIs
  <2> QED BY <1>7, <2>3, LinksNobody DEF SatReset, tableVars
<1>8. ASSUME NEW s \in Sat, SatReceive(s)
      PROVE  LinkedOK'
  <2> DEFINE p == Head(rxq[s])
  <2>1. rxq[s] # <<>> /\ rxq' = Taken(s)
    BY <1>8 DEF SatReceive
  <2>2. p \in Packet /\ Genuine(p)
    BY <1>1, <2>1, TakenKeeps
  <2>3. rxq'[s] = Tail(rxq[s]) /\ \A t \in Sat \ {s} : rxq'[t] = rxq[t]
    BY <1>1, <2>1 DEF Taken, QueuesOK
  <2>4. \A t \in Sat \ {s} : s_connected'[t] = s_connected[t]
    BY <1>8 DEF SatReceive, Connect, satVars, SatsOK
  <2>5. s_connected'[s] => s_connected[s] \/ p.src = Server
    <3>1. CASE s_connected' = s_connected
      BY <3>1
    <3>2. CASE "CONTROLLER_ACK_ROLE" \in Parsed(p)
      BY <2>2, <3>2 DEF Parsed, Genuine, Packet, CommandTypes
    <3> QED BY <1>8, <3>1, <3>2 DEF SatReceive, satVars
  <2>6. Ours(rxq'[s]) \/ p.src = Server => Ours(rxq[s])
    BY <1>1, <2>1, <2>3, OursTaken
  <2> HIDE DEF p
  <2>7. \A t \in Sat : Linked(t)' => Linked(t)
    BY <2>3, <2>4, <2>5, <2>6, LinkedIs
  <2> QED BY <1>8, <2>7, LinksNobody DEF SatReceive, tableVars
<1>9. ASSUME NEW s \in Sat, ServerClick(s)
      PROVE  LinkedOK'
  <2>1. rxq[Server] # <<>> /\ rxq' = Taken(Server)
    BY <1>9 DEF ServerClick
  <2>2. \A t \in Sat : rxq'[t] = rxq[t]
    BY <1>1, <2>1 DEF Taken
  <2>3. UNCHANGED <<s_clients, s_connected, orphans>>
    BY <1>9 DEF ServerClick, tableVars, satVars
  <2> QED BY <2>2, <2>3, LinkedIs, LinksNobody
<1>10. ASSUME NEW s \in Sat, NEW got, NEW type \in {"discover", "click"},
              rxq' = Delivered(rxq, Pkt(type, s, Unknown), got),
              \A t \in Sat : s_connected'[t] => s_connected[t],
              UNCHANGED s_clients, LinkedOrphans \/ UNCHANGED orphans
       PROVE  LinkedOK'
  <2>1. Pkt(type, s, Unknown) \in Packet /\ Pkt(type, s, Unknown).src # Server
    BY <1>1, PktIsPacket DEF Pkt
  <2> QED BY <1>10, <2>1, OthersPacket, LinksNobody
<1>11. ASSUME NEW s \in Sat, NEW got, Search(s, got) \/ Timeout(s, got)
       PROVE  LinkedOK'
  BY <1>10, <1>11 DEF Search, Timeout, SendDiscovery, tableVars, satVars, observed, SatsOK
<1>12. ASSUME NEW s \in Sat, NEW got, Click(s, got)
       PROVE  LinkedOK'
  BY <1>10, <1>12 DEF Click, tableVars, satVars, observed
<1>13. ASSUME NEW s \in Sat, NEW got, ServerDiscover(s, got)
       PROVE  LinkedOK'
  <2> DEFINE req == Head(rxq[Server]).role
             p == Pkt("assign", Server, AssignedRole(req))
  <2>1. rxq[Server] # <<>> /\ Head(rxq[Server]) \in Packet
    BY <1>2, <1>13, TakenKeeps DEF ServerDiscover
  <2>2. p \in Packet
    <3>1. AssignedRole(req) \in Role \cup {Unknown}
      BY <2>1 DEF AssignedRole, RoleAvailable, Packet, Role
    <3> QED BY <1>2, <3>1, PktIsPacket
  <2>3. \A t \in Sat : Taken(Server)[t] = rxq[t]
    BY <1>1 DEF Taken
  <2>4. UNCHANGED <<s_connected, orphans>>
    BY <1>13 DEF ServerDiscover, satVars, observed
  <2> HIDE DEF p, req
  <2>5. CASE Assign(s, req) /\ rxq' = Delivered(Taken(Server), p, got \cap {s})
    <3>1. \A t \in Sat : Known(t) \/ t \in got \cap {s} => Known(t)'
      BY <2>5, AssignKeepsKnown DEF Sat
    <3> QED BY <1>1, <2>2, <2>3, <2>4, <2>5, <3>1, ServersPacket
  <2>6. CASE Refuse(s, req) /\ rxq' = Taken(Server)
    BY <2>3, <2>4, <2>6, LinkedIs, LinksNobody DEF Refuse, tableVars
  <2> QED BY <1>13, <2>5, <2>6 DEF ServerDiscover, p, req
<1>14. CASE UNCHANGED linkVars
  BY <1>14, LinkedIs, LinksNobody DEF linkVars, tableVars, satVars, observed
<1> QED BY <1>3, <1>4, <1>6, <1>7, <1>8, <1>9, <1>11, <1>12, <1>13, <1>14 DEF LinkNext

-----------------------------------------------------------------------------
(* The theorems. *)

LEMMA LinkInvInit == LinkInit => LinkInv
<1> SUFFICES ASSUME LinkInit
             PROVE  LinkInv
  OBVIOUS
<1>1. TableInv
  BY TableInvInit DEF LinkInit
<1>2. QueuesOK
  BY QueueSizeAssumption DEF LinkInit, QueuesOK, QueueOK
<1>3. SatsOK
  BY DEF LinkInit, SatsOK
<1>4. FeetOK
  BY DEF LinkInit, FeetOK, NoFeet
<1>5. LinkedOK
  BY QueueSizeAssumption DEF LinkInit, LinkedOK, ConnectedIsRegistered, Linked, Node
<1> QED BY <1>1, <1>2, <1>3, <1>4, <1>5 DEF LinkInv

LEMMA LinkInvStep == LinkInv /\ [LinkNext]_linkVars => LinkInv'
BY TableStep, TableInvStep, QueuesStep, SatsStep, FeetStep, LinkedStep DEF LinkInv

LEMMA LinkInvAlways == LinkSpec => []LinkInv
BY LinkInvInit, LinkInvStep, PTL DEF LinkSpec

\* Queues, losses, timeouts and resets do to the table only what ClientTable
\* says: the theorems on it are theorems on the link.
THEOREM LinkImplementsTable == LinkSpec => TableSpec
<1>1. LinkInit => TableInit
  BY DEF LinkInit
<1>2. LinkInv /\ [LinkNext]_linkVars => [TableNext]_tableVars
  BY TableStep DEF LinkInv
<1> QED BY <1>1, <1>2, LinkInvAlways, PTL DEF LinkSpec, TableSpec

\* Also over the radio nothing but a stop of the controller takes a foot away
\* once both are taken.
THEOREM LinkPairingIsFinal == LinkSpec => FrozenWhenPaired
BY LinkImplementsTable, PairingIsFinal

\* The whole link, with its queues, losses and resets, implements the registry
\* of feet: satellites that time out, restart or ask again do to it only what
\* grants, starts and stops do.
THEOREM LinkImplementsRegistry == LinkSpec => ImplementsRegistry
BY LinkImplementsTable, TableImplementsRegistry

\* Nor does the link refuse more than the table must: the DISCOVER of a satellite
\* is refused for a taken foot only, whatever was lost before.
THEOREM LinkRefusesOnlyTakenFeet ==
  MaxClients > 1 => (LinkSpec => []RefusedOnlyForTakenFeet)
BY LinkImplementsTable, OnlyTakenFeetAreRefused

\* Queues stay within their bound, and every variable has its type.
THEOREM LinkTypeCorrect == LinkSpec => []LinkTypeOK
<1>1. LinkInv => LinkTypeOK
  <2> SUFFICES ASSUME LinkInv
               PROVE  LinkTypeOK
    OBVIOUS
  <2>1. rxq \in [Node -> Seq(Packet)] /\ \A n \in Node : Len(rxq[n]) <= QueueSize
    BY DEF LinkInv, QueuesOK, QueueOK
  <2> QED BY <2>1 DEF LinkInv, TableInv, SatsOK, FeetOK, LinkedOK, LinkTypeOK
<1> QED BY <1>1, LinkInvAlways, PTL

\* Whatever was lost, late, repeated or misread, no satellite is connected to a
\* controller whose table has not got it, unless the connection, or the packet
\* it comes of, is older than the last stop of the controller.
THEOREM ConnectedIsAlwaysRegistered == LinkSpec => []ConnectedIsRegistered
<1>1. LinkInv => ConnectedIsRegistered
  BY DEF LinkInv, LinkedOK
<1> QED BY <1>1, LinkInvAlways, PTL

\* The clicks counted for a foot are one satellite's, and a satellite's clicks
\* are counted for one foot, from the pairing until the controller stops.
THEOREM OnePlayerAlways == LinkSpec => []OnePlayerPerFoot
<1>1. LinkInv => OnePlayerPerFoot
  <2> SUFFICES ASSUME LinkInv
               PROVE  OnePlayerPerFoot
    OBVIOUS
  <2>1. OneSatellitePerRole /\ OneSlotPerSatellite
    BY DEF LinkInv, TableInv
  <2>2. \A r \in Role : \A a \in feet[r] : Holds(a, r)
    BY DEF LinkInv, FeetOK
  <2>3. \A r \in Role : \A a, b \in feet[r] : a = b
    BY <2>1, <2>2 DEF Holds, OneSatellitePerRole
  <2>4. ASSUME NEW a \in feet[Left], a \in feet[Right]
        PROVE  FALSE
    <3>1. Holds(a, Left) /\ Holds(a, Right)
      BY <2>2, <2>4 DEF Role
    <3> QED BY <2>1, <3>1 DEF Holds, OneSlotPerSatellite, Left, Right
  <2> QED BY <2>3, <2>4 DEF OnePlayerPerFoot
<1> QED BY <1>1, LinkInvAlways, PTL

-----------------------------------------------------------------------------
(* The timers. *)

LEMMA TimedStep == [TimedNext]_timedVars => [LinkNext]_linkVars
<1> SUFFICES ASSUME [TimedNext]_timedVars
             PROVE  [LinkNext]_linkVars
  OBVIOUS
<1>1. CASE Tick
  BY <1>1 DEF Tick
<1>2. CASE Start
  BY <1>2 DEF Start, LinkNext
<1>3. CASE Untimed
  BY <1>3 DEF Untimed, LinkNext
<1>4. ASSUME NEW got \in SUBSET Sat, HeartbeatTurn(got)
      PROVE  [LinkNext]_linkVars
  BY <1>4 DEF HeartbeatTurn, LinkNext
<1>5. ASSUME NEW s \in Sat, Receive(s)
      PROVE  [LinkNext]_linkVars
  BY <1>5 DEF Receive, LinkNext
<1>6. ASSUME NEW s \in Sat, Reset(s)
      PROVE  [LinkNext]_linkVars
  BY <1>6 DEF Reset, LinkNext
<1>7. ASSUME NEW s \in Sat, NEW got \in SUBSET (Node \ {s}), Turn(s, got)
      PROVE  [LinkNext]_linkVars
  BY <1>7 DEF Turn, LinkNext
<1>8. CASE UNCHANGED timedVars
  BY <1>8 DEF timedVars
<1> QED BY <1>1, <1>2, <1>3, <1>4, <1>5, <1>6, <1>7, <1>8 DEF TimedNext

\* The timers decide when a satellite gives up and when the controller sends a
\* heartbeat, never what happens then: the theorems on the link are theorems on
\* the timed link.
THEOREM TimedImplementsLink == TimedSpec => LinkSpec
<1>1. TimedInit => LinkInit
  BY DEF TimedInit
<1> QED BY <1>1, TimedStep, PTL DEF TimedSpec, LinkSpec

TimersOK ==
  /\ age \in [Sat -> 0 .. MaxAge]
  /\ looped \in SUBSET Sat
  /\ due \in 0 .. HeartbeatTicks
  /\ silence \in [Sat -> 0 .. MaxSilence]
  /\ missed \in [Sat -> 0 .. Enough]

LEMMA Bounds == /\ HeartbeatTicks \in Nat /\ TimeoutTicks \in Nat
                /\ MaxAge \in Nat /\ MaxSilence \in Nat /\ Enough \in Nat
<1>1. HeartbeatTicks \in Nat \ {0} /\ TimeoutTicks \in Nat
  BY TimersAssumption
<1> QED BY <1>1 DEF MaxAge, MaxSilence, Enough

LEMMA LesserKeeps ==
  ASSUME NEW n \in Nat, NEW m \in 0 .. n
  PROVE  Lesser(m + 1, n) \in 0 .. n
BY DEF Lesser

LEMMA TimersStep == TimersOK /\ [TimedNext]_timedVars => TimersOK'
<1> SUFFICES ASSUME TimersOK, [TimedNext]_timedVars
             PROVE  TimersOK'
  OBVIOUS
<1> USE DEF TimersOK
<1>1. 0 \in 0 .. MaxAge /\ 0 \in 0 .. MaxSilence /\ 0 \in 0 .. Enough /\ Enough \in 0 .. Enough
  BY Bounds
<1>2. CASE Tick
  <2>1. due' \in 0 .. HeartbeatTicks
    BY <1>2, Bounds DEF Tick
  <2>2. \A s \in Sat : /\ Lesser(age[s] + 1, MaxAge) \in 0 .. MaxAge
                       /\ Lesser(silence[s] + 1, MaxSilence) \in 0 .. MaxSilence
    BY Bounds, LesserKeeps
  <2>3. age' \in [Sat -> 0 .. MaxAge]
    BY <1>1, <1>2, <2>2 DEF Tick
  <2>4. silence' \in [Sat -> 0 .. MaxSilence]
    BY <1>2, <2>2 DEF Tick
  <2>5. missed' \in [Sat -> 0 .. Enough]
    BY <1>1, <1>2 DEF Tick
  <2> QED BY <1>2, <2>1, <2>3, <2>4, <2>5 DEF Tick
<1>3. CASE Start
  BY <1>3, Bounds DEF Start
<1>4. CASE Untimed
  BY <1>4 DEF Untimed, timers
<1>5. ASSUME NEW got \in SUBSET Sat, HeartbeatTurn(got)
      PROVE  TimersOK'
  <2>1. \A s \in Sat : Lesser(missed[s] + 1, Enough) \in 0 .. Enough
    BY Bounds, LesserKeeps
  <2>2. missed' \in [Sat -> 0 .. Enough]
    BY <1>5, <2>1 DEF HeartbeatTurn
  <2> QED BY <1>5, <2>2, Bounds DEF HeartbeatTurn
<1>6. ASSUME NEW s \in Sat, Receive(s)
      PROVE  TimersOK'
  BY <1>1, <1>6 DEF Receive
<1>7. ASSUME NEW s \in Sat, Reset(s)
      PROVE  TimersOK'
  BY <1>1, <1>7 DEF Reset
<1>8. ASSUME NEW s \in Sat, NEW got \in SUBSET (Node \ {s}), Turn(s, got)
      PROVE  TimersOK'
  BY <1>8 DEF Turn
<1>9. CASE UNCHANGED timedVars
  BY <1>9 DEF timedVars, timers
<1> QED BY <1>2, <1>3, <1>4, <1>5, <1>6, <1>7, <1>8, <1>9 DEF TimedNext

LEMMA TimersAlways == TimedSpec => []TimersOK
<1>1. TimedInit => TimersOK
  BY Bounds DEF TimedInit, TimersOK
<1> QED BY <1>1, TimersStep, PTL DEF TimedSpec

\* Every timer stays within its bound, and the link within its types, however
\* the timers run.
THEOREM TimedTypeCorrect == TimedSpec => []TimedTypeOK
<1>1. LinkTypeOK /\ TimersOK => TimedTypeOK
  BY DEF TimersOK, TimedTypeOK
<1> QED BY <1>1, TimersAlways, TimedImplementsLink, LinkTypeCorrect, PTL
-----------------------------------------------------------------------------
(* The heartbeat is short enough for the timeout. *)

Periods(m) == HeartbeatTicks * (m + 1)

\* An age that so many losses account for.
Kept(a, m) == m >= Enough \/ a <= Periods(m)

\* A DISCOVER of s waits for the controller's worker.
Asking(s) == \E k \in 1 .. Len(rxq[Server]) : /\ rxq[Server][k].type = "discover"
                                              /\ rxq[Server][k].src = s

\* The losses account for the age of a connection, and for a client with an
\* empty queue for the age at which the next heartbeat comes.  A satellite that
\* is about to become a client has just been heard from.
Accounted(s) ==
  s_connected[s] =>
    /\ Kept(age[s], missed[s])
    /\ s \in Clients /\ rxq[s] = <<>> => Kept(age[s] + due, missed[s])
    /\ Asking(s) => age[s] = 0

HeartInv == \A s \in Sat : Accounted(s)

LEMMA PeriodsGrow ==
  ASSUME NEW m \in Nat
  PROVE  /\ Periods(m) \in Nat /\ Periods(m) >= HeartbeatTicks
         /\ Periods(m + 1) = Periods(m) + HeartbeatTicks
<1>1. HeartbeatTicks \in Nat
  BY Bounds
<1>2. HeartbeatTicks * m \in Nat
  BY <1>1
<1>3. /\ HeartbeatTicks * (m + 1) = (HeartbeatTicks * m) + HeartbeatTicks
      /\ HeartbeatTicks * ((m + 1) + 1) = (HeartbeatTicks * m) + HeartbeatTicks + HeartbeatTicks
  BY <1>1
<1> QED BY <1>1, <1>2, <1>3 DEF Periods

\* As many periods as Enough fit into the timeout.
LEMMA PeriodsFit ==
  ASSUME NEW m \in Nat, m < Enough
  PROVE  Periods(m) <= TimeoutTicks
<1> DEFINE h == HeartbeatTicks
           q == TimeoutTicks \div h
           r == TimeoutTicks % h
<1>1. h \in Nat \ {0} /\ TimeoutTicks \in Nat
  BY TimersAssumption
<1>2. q \in Int /\ r \in 0 .. h - 1 /\ TimeoutTicks = (h * q) + r
  BY <1>1
<1>3. m + 1 <= q
  BY <1>2 DEF Enough
<1> HIDE DEF h, q, r
<1>4. q - (m + 1) \in Nat
  BY <1>2, <1>3
<1>5. h * (q - (m + 1)) >= 0
  BY <1>1, <1>4
<1>6. h * (q - (m + 1)) = (h * q) - (h * (m + 1)) /\ h * q \in Int /\ h * (m + 1) \in Int
  BY <1>1, <1>2
<1>7. h * (m + 1) <= TimeoutTicks
  BY <1>1, <1>2, <1>5, <1>6
<1> QED BY <1>7 DEF Periods, h

LEMMA KeptYoung ==
  ASSUME NEW a \in Nat, a <= HeartbeatTicks, NEW m \in Nat
  PROVE  Kept(a, m)
BY PeriodsGrow, Bounds DEF Kept

LEMMA KeptYounger ==
  ASSUME NEW a \in Nat, NEW m \in Nat, Kept(a, m), NEW b \in Nat, b <= a
  PROVE  Kept(b, m)
BY PeriodsGrow, Bounds DEF Kept

\* One more loss accounts for one more period.
LEMMA KeptByLoss ==
  ASSUME NEW a \in Nat, NEW m \in 0 .. Enough, Kept(a, m)
  PROVE  Kept(a, Lesser(m + 1, Enough)) /\ Kept(a + HeartbeatTicks, Lesser(m + 1, Enough))
<1>1. CASE m + 1 >= Enough
  BY <1>1, Bounds DEF Kept, Lesser
<1>2. CASE m + 1 < Enough
  <2>1. a <= Periods(m) /\ Lesser(m + 1, Enough) = m + 1
    BY <1>2, Bounds DEF Kept, Lesser
  <2>2. Periods(m) \in Nat /\ Periods(m + 1) = Periods(m) + HeartbeatTicks
    BY PeriodsGrow
  <2> QED BY <2>1, <2>2, Bounds DEF Kept
<1> QED BY <1>1, <1>2, Bounds

\* What a step that does not touch the connection of s has to leave alone.
LEMMA Undisturbed ==
  ASSUME NEW s \in Sat, Accounted(s),
         s_connected'[s] =>
           /\ s_connected[s] /\ age'[s] = age[s] /\ missed'[s] = missed[s]
           /\ s \in Clients' => s \in Clients /\ due' = due
           /\ rxq'[s] = <<>> => rxq[s] = <<>>
           /\ Asking(s)' => Asking(s)
  PROVE  Accounted(s)'
BY DEF Accounted

\* A packet that refreshes the connection settles the account.
LEMMA Refreshed ==
  ASSUME NEW s \in Sat, TimersOK', s_connected'[s] => age'[s] = 0
  PROVE  Accounted(s)'
<1>1. PICK m \in Nat, d \in Nat : m = missed'[s] /\ d = due' /\ d <= HeartbeatTicks
  BY Bounds DEF TimersOK
<1>2. Kept(0, m) /\ Kept(0 + d, m)
  BY <1>1, KeptYoung, Bounds
<1> QED BY <1>1, <1>2 DEF Accounted

\* What a send leaves in a queue: what was there, and perhaps what was sent.
LEMMA DeliveredIs ==
  ASSUME NEW qs, NEW n \in Node, QueueOK(qs[n]), NEW p \in Packet, NEW got
  PROVE  /\ Delivered(qs, p, got)[n] = <<>> => qs[n] = <<>>
         /\ \A k \in 1 .. Len(Delivered(qs, p, got)[n]) :
              \/ k \in 1 .. Len(qs[n]) /\ Delivered(qs, p, got)[n][k] = qs[n][k]
              \/ n \in got /\ Delivered(qs, p, got)[n][k] = p
<1>1. qs[n] \in Seq(Packet) /\ Len(qs[n]) \in Nat
  BY DEF QueueOK
<1>2. CASE Delivered(qs, p, got)[n] = qs[n]
  BY <1>1, <1>2
<1>3. CASE Delivered(qs, p, got)[n] # qs[n]
  <2>1. Delivered(qs, p, got)[n] = Append(qs[n], p) /\ n \in got
    BY <1>3 DEF Delivered, Enqueue
  <2>2. /\ Len(Append(qs[n], p)) = Len(qs[n]) + 1
        /\ \A k \in 1 .. Len(qs[n]) : Append(qs[n], p)[k] = qs[n][k]
        /\ Append(qs[n], p)[Len(qs[n]) + 1] = p
        /\ Append(qs[n], p) # <<>>
    BY <1>1
  <2>3. \A k \in 1 .. Len(qs[n]) + 1 : k \in 1 .. Len(qs[n]) \/ k = Len(qs[n]) + 1
    BY <1>1
  <2> QED BY <2>1, <2>2, <2>3
<1> QED BY <1>2, <1>3

\* What taking a packet leaves.
LEMMA TakenIs ==
  ASSUME QueuesOK, NEW n \in Node, rxq[n] # <<>>
  PROVE  /\ \A m \in Node \ {n} : Taken(n)[m] = rxq[m]
         /\ QueueOK(Taken(n)[n])
         /\ \A k \in 1 .. Len(Taken(n)[n]) : k + 1 \in 1 .. Len(rxq[n])
                                             /\ Taken(n)[n][k] = rxq[n][k + 1]
         /\ 1 \in 1 .. Len(rxq[n]) /\ Head(rxq[n]) = rxq[n][1]
<1>1. rxq[n] \in Seq(Packet) /\ Len(rxq[n]) \in Nat \ {0} /\ QueueOK(Tail(rxq[n]))
  BY TailKeeps DEF QueuesOK, QueueOK
<1>2. Taken(n)[n] = Tail(rxq[n]) /\ \A m \in Node \ {n} : Taken(n)[m] = rxq[m]
  BY DEF Taken, QueuesOK
<1>3. /\ Len(Tail(rxq[n])) = Len(rxq[n]) - 1
      /\ \A k \in 1 .. Len(rxq[n]) - 1 : Tail(rxq[n])[k] = rxq[n][k + 1]
      /\ Head(rxq[n]) = rxq[n][1]
  BY <1>1
<1>4. \A k \in 1 .. Len(rxq[n]) - 1 : k + 1 \in 1 .. Len(rxq[n])
  BY <1>1
<1> QED BY <1>1, <1>2, <1>3, <1>4

LEMMA NoClients == s_clients = Cleared => Clients = {}
BY DEF Cleared, Clients, Known, ClientSlots, Used

LEMMA NoClientsNext == s_clients' = Cleared => Clients' = {}
<1>1. (s_clients = Cleared => Clients = {})'
  BY NoClients, PTL
<1> QED BY <1>1 DEF Cleared, Slot

\* Whoever is registered, nobody else becomes a client.
LEMMA OthersStay ==
  ASSUME TableInv, NEW m \in Sat, NEW req, Assign(m, req) \/ Refuse(m, req),
         NEW s \in Sat \ {m}, s \in Clients'
  PROVE  s \in Clients
<1>1. CASE Refuse(m, req)
  BY <1>1 DEF Refuse, tableVars, Clients, Known, ClientSlots, Used
<1>2. CASE Assign(m, req)
  <2> DEFINE r == AssignedRole(req)
  <2>1. RegisterError(m, r) = "ESP_OK" /\ s_clients' = Registered(m, r)
    BY <1>2 DEF Assign
  <2> HIDE DEF r
  <2>2. /\ Used' = Used \cup {SlotFor(m)}
        /\ s_clients'[SlotFor(m)] = [used |-> TRUE, mac |-> m, role |-> r]
        /\ \A i \in Slot \ {SlotFor(m)} : s_clients'[i] = s_clients[i]
    BY <2>1, RegisteredTable DEF Sat
  <2>3. PICK i \in Used' : s_clients'[i].mac = s
    BY DEF Clients, Known, ClientSlots
  <2>4. i \in Used /\ s_clients[i].mac = s
    BY <2>2, <2>3 DEF Used
  <2> QED BY <2>4 DEF Clients, Known, ClientSlots
<1> QED BY <1>1, <1>2

LEMMA TickAccounts ==
  ASSUME TimersOK, TimersOK', LinkInv, HeartInv, Tick
  PROVE  HeartInv'
<1> SUFFICES ASSUME NEW s \in Sat, s_connected'[s]
             PROVE  Accounted(s)'
  BY DEF HeartInv, Accounted
<1>1. /\ UNCHANGED linkVars
      /\ \A n \in Node : rxq[n] = <<>>
      /\ Clients' = Clients
  BY DEF Tick, linkVars, tableVars, Clients, Known, ClientSlots, Used
<1>2. s_connected[s] /\ rxq'[s] = <<>> /\ rxq'[Server] = <<>>
  BY <1>1 DEF linkVars, satVars, Node
<1>3. ~Asking(s)'
  BY <1>2 DEF Asking
<1>4. PICK a \in Nat, b \in Nat, m \in 0 .. Enough, d \in Nat :
        a = age[s] /\ b = age'[s] /\ m = missed[s] /\ d = due
  BY Bounds DEF TimersOK
<1>5. b <= a + 1
  BY <1>2, <1>4, Bounds DEF Tick, Lesser
<1>6. CASE s \in Clients
  <2>1. s_initialized
    BY <1>6, NoClients DEF LinkInv, TableInv, TableTypeOK
  <2>2. d > 0 /\ due' = d - 1 /\ missed'[s] = m
    BY <1>4, <1>6, <2>1 DEF Tick
  <2>3. Kept(a + d, m)
    BY <1>1, <1>2, <1>4, <1>6 DEF HeartInv, Accounted, Node
  <2>4. Kept(b, m) /\ Kept(b + (d - 1), m)
    BY <1>5, <2>2, <2>3, KeptYounger, Bounds
  <2> QED BY <1>3, <1>4, <2>2, <2>4 DEF Accounted
<1>7. CASE s \notin Clients
  <2>1. missed'[s] = Enough
    BY <1>7 DEF Tick
  <2>2. \A x : Kept(x, Enough)
    BY Bounds DEF Kept
  <2> QED BY <1>3, <2>1, <2>2 DEF Accounted
<1> QED BY <1>6, <1>7

LEMMA HeartbeatAccounts ==
  ASSUME TimersOK, TimersOK', LinkInv, HeartInv, NEW got \in SUBSET Sat, HeartbeatTurn(got)
  PROVE  HeartInv'
<1> SUFFICES ASSUME NEW s \in Sat, s_connected'[s]
             PROVE  Accounted(s)'
  BY DEF HeartInv, Accounted
<1> DEFINE p == Pkt("heartbeat", Server, Unknown)
<1>1. /\ UNCHANGED <<tableVars, satVars, age>>
      /\ due = 0 /\ due' = HeartbeatTicks
      /\ missed'[s] = IF s \in Clients /\ rxq'[s] = rxq[s]
                      THEN Lesser(missed[s] + 1, Enough) ELSE missed[s]
      /\ \/ rxq' = Delivered(rxq, p, got \cap Clients)
         \/ rxq' = rxq
  BY DEF HeartbeatTurn, Heartbeat, SendAll, linkVars
<1>2. s_connected[s] /\ Clients' = Clients /\ age' = age
  BY <1>1 DEF satVars, tableVars, Clients, Known, ClientSlots, Used
<1>3. p \in Packet /\ p.type # "discover"
  BY PktIsPacket DEF Pkt, Node
<1>4. \A n \in Node : QueueOK(rxq[n])
  BY DEF LinkInv, QueuesOK
<1> HIDE DEF p
<1>5. rxq'[s] = <<>> => rxq[s] = <<>>
  BY <1>1, <1>3, <1>4, DeliveredIs DEF Node
<1>6. Asking(s)' => Asking(s)
  <2>1. CASE rxq' = rxq
    BY <2>1 DEF Asking
  <2>2. CASE rxq' = Delivered(rxq, p, got \cap Clients)
    <3>1. Server \notin got \cap Clients
      BY ServerAssumption DEF Clients, Sat
    <3>2. rxq'[Server] = rxq[Server]
      BY <2>2, <3>1 DEF Delivered, Node
    <3> QED BY <3>2 DEF Asking
  <2> QED BY <1>1, <2>1, <2>2
<1>7. PICK a \in Nat, m \in 0 .. Enough : a = age[s] /\ m = missed[s]
  BY Bounds DEF TimersOK
<1>8. Kept(a, m) /\ (Asking(s) => a = 0)
  BY <1>2, <1>7 DEF HeartInv, Accounted
<1>9. CASE s \in Clients /\ rxq'[s] = rxq[s]
  BY <1>1, <1>2, <1>6, <1>7, <1>8, <1>9, KeptByLoss DEF Accounted
<1>10. CASE s \notin Clients
  BY <1>1, <1>2, <1>6, <1>7, <1>8, <1>10 DEF Accounted
<1>11. CASE rxq'[s] # rxq[s]
  <2>1. rxq'[s] # <<>>
    BY <1>5, <1>11
  <2> QED BY <1>1, <1>2, <1>6, <1>7, <1>8, <1>11, <2>1 DEF Accounted
<1> QED BY <1>9, <1>10, <1>11

LEMMA ReceiveAccounts ==
  ASSUME TimersOK, TimersOK', LinkInv, HeartInv, NEW s \in Sat, Receive(s)
  PROVE  HeartInv'
<1>1. /\ rxq[s] # <<>> /\ rxq' = Taken(s)
      /\ UNCHANGED <<tableVars, due>>
      /\ age' = [age EXCEPT ![s] = IF s_connected[s] \/ s_connected'[s] THEN 0 ELSE @]
  BY DEF Receive, SatReceive
<1>2. s \in Node /\ Server \in Node /\ Server # s /\ Sat \subseteq Node
  BY ServerAssumption DEF Node, Sat
<1>3. \A n \in Node \ {s} : rxq'[n] = rxq[n]
  BY <1>1, <1>2, TakenIs DEF LinkInv
<1>4. Accounted(s)'
  BY <1>1, Refreshed DEF TimersOK
<1>5. ASSUME NEW t \in Sat \ {s}
      PROVE  Accounted(t)'
  <2>1. age'[t] = age[t] /\ missed'[t] = missed[t] /\ s_connected'[t] = s_connected[t]
    <3>1. missed'[t] = missed[t]
      BY DEF Receive, TimersOK
    <3>2. s_connected'[t] = s_connected[t]
      BY DEF Receive, SatReceive, Connect, satVars, LinkInv, SatsOK
    <3> QED BY <1>1, <3>1, <3>2 DEF TimersOK
  <2>2. rxq'[t] = rxq[t] /\ rxq'[Server] = rxq[Server]
    BY <1>2, <1>3
  <2>3. (t \in Clients' => t \in Clients) /\ (Asking(t)' => Asking(t))
    BY <1>1, <2>2 DEF Asking, tableVars, Clients, Known, ClientSlots, Used
  <2> QED BY <1>1, <2>1, <2>2, <2>3, Undisturbed DEF HeartInv
<1> QED BY <1>4, <1>5 DEF HeartInv

LEMMA ResetAccounts ==
  ASSUME TimersOK, TimersOK', LinkInv, HeartInv, NEW s \in Sat, Reset(s)
  PROVE  HeartInv'
<1>1. /\ rxq' = [rxq EXCEPT ![s] = <<>>]
      /\ UNCHANGED <<tableVars, due>>
      /\ s_connected' = [s_connected EXCEPT ![s] = FALSE]
      /\ age' = [age EXCEPT ![s] = 0] /\ missed' = [missed EXCEPT ![s] = 0]
  BY DEF Reset, SatReset
<1>2. Server \in Node /\ Server # s /\ Sat \subseteq Node
  BY ServerAssumption DEF Node, Sat
<1>3. Accounted(s)'
  BY <1>1 DEF Accounted, LinkInv, SatsOK
<1>4. ASSUME NEW t \in Sat \ {s}
      PROVE  Accounted(t)'
  <2>1. age'[t] = age[t] /\ missed'[t] = missed[t] /\ s_connected'[t] = s_connected[t]
    BY <1>1 DEF TimersOK, LinkInv, SatsOK
  <2>2. rxq'[t] = rxq[t] /\ rxq'[Server] = rxq[Server]
    BY <1>1, <1>2 DEF LinkInv, QueuesOK
  <2>3. (t \in Clients' => t \in Clients) /\ (Asking(t)' => Asking(t))
    BY <1>1, <2>2 DEF Asking, tableVars, Clients, Known, ClientSlots, Used
  <2> QED BY <1>1, <2>1, <2>2, <2>3, Undisturbed DEF HeartInv
<1> QED BY <1>3, <1>4 DEF HeartInv

LEMMA TurnAccounts ==
  ASSUME TimersOK, LinkInv, HeartInv, NEW s \in Sat, NEW got, Turn(s, got)
  PROVE  HeartInv'
<1> SUFFICES ASSUME NEW t \in Sat, s_connected'[t]
             PROVE  Accounted(t)'
  BY DEF HeartInv, Accounted
<1> DEFINE p == Pkt("discover", s, Unknown)
<1>1. UNCHANGED <<tableVars, age, due, missed>>
  BY DEF Turn, Search, Timeout, linkVars
<1>2. t \in Clients' => t \in Clients
  BY <1>1 DEF tableVars, Clients, Known, ClientSlots, Used
<1>3. CASE UNCHANGED linkVars
  <2>1. rxq' = rxq /\ s_connected' = s_connected
    BY <1>3 DEF linkVars, satVars
  <2>2. Asking(t)' => Asking(t)
    BY <2>1 DEF Asking
  <2> QED BY <1>1, <1>2, <2>1, <2>2, Undisturbed DEF HeartInv
<1>4. CASE Search(s, got) \/ Timeout(s, got)
  <2>1. rxq' = Delivered(rxq, p, got)
    BY <1>4 DEF Search, Timeout, SendDiscovery
  <2>2. ~s_connected'[s] /\ (s_connected'[t] => s_connected[t])
    BY <1>4 DEF Search, Timeout, satVars, LinkInv, SatsOK
  <2>3. p \in Packet /\ p.src = s
    BY PktIsPacket DEF Pkt, Node
  <2>4. \A n \in Node : QueueOK(rxq[n])
    BY DEF LinkInv, QueuesOK
  <2> HIDE DEF p
  <2>5. Server \in Node /\ t \in Node
    BY DEF Node
  <2>6. rxq'[t] = <<>> => rxq[t] = <<>>
    BY <2>1, <2>3, <2>4, <2>5, DeliveredIs
  <2>7. Asking(t)' => Asking(t)
    <3>1. SUFFICES ASSUME NEW k \in 1 .. Len(rxq'[Server]),
                          rxq'[Server][k].type = "discover", rxq'[Server][k].src = t
                   PROVE  Asking(t)
      BY DEF Asking
    <3>2. k \in 1 .. Len(rxq[Server]) /\ rxq'[Server][k] = rxq[Server][k]
      BY <2>1, <2>2, <2>3, <2>4, <2>5, <3>1, DeliveredIs
    <3> QED BY <3>1, <3>2 DEF Asking
  <2> QED BY <1>1, <1>2, <2>2, <2>6, <2>7, Undisturbed DEF HeartInv
<1> QED BY <1>3, <1>4 DEF Turn

LEMMA DiscoverAccounts ==
  ASSUME TimersOK, TimersOK', LinkInv, HeartInv, NEW s \in Sat, NEW got, ServerDiscover(s, got),
         UNCHANGED timers
  PROVE  HeartInv'
<1> SUFFICES ASSUME NEW t \in Sat, s_connected'[t]
             PROVE  Accounted(t)'
  BY DEF HeartInv, Accounted
<1> DEFINE req == Head(rxq[Server]).role
           p == Pkt("assign", Server, AssignedRole(req))
<1>1. /\ rxq[Server] # <<>> /\ Head(rxq[Server]).type = "discover" /\ Head(rxq[Server]).src = s
      /\ Assign(s, req) \/ Refuse(s, req)
      /\ rxq' = Delivered(Taken(Server), p, got \cap {s}) \/ rxq' = Taken(Server)
      /\ UNCHANGED satVars
  BY DEF ServerDiscover
<1>2. Server \in Node /\ t \in Node /\ t # Server /\ s # Server
  BY ServerAssumption DEF Node, Sat
<1>3. QueuesOK /\ Head(rxq[Server]) \in Packet
  BY <1>1, <1>2, TakenKeeps DEF LinkInv
<1>4. p \in Packet
  <2>1. AssignedRole(req) \in Role \cup {Unknown}
    BY <1>3 DEF AssignedRole, RoleAvailable, Packet, Role
  <2> QED BY <1>2, <2>1, PktIsPacket
<1> HIDE DEF req, p
<1>5. Asking(s)
  BY <1>1, <1>2, <1>3, TakenIs DEF Asking
<1>6. \A n \in Node : QueueOK(Taken(Server)[n])
  BY <1>1, <1>2, <1>3, TakenKeeps
<1>7. rxq'[t] = <<>> => rxq[t] = <<>>
  <2>1. Taken(Server)[t] = rxq[t]
    BY <1>1, <1>2, <1>3, TakenIs
  <2> QED BY <1>1, <1>2, <1>4, <1>6, <2>1, DeliveredIs
<1>8. Asking(t)' => Asking(t)
  <2>1. rxq'[Server] = Taken(Server)[Server]
    BY <1>1, <1>2 DEF Delivered
  <2>2. \A k \in 1 .. Len(Taken(Server)[Server]) :
          k + 1 \in 1 .. Len(rxq[Server]) /\ Taken(Server)[Server][k] = rxq[Server][k + 1]
    BY <1>1, <1>2, <1>3, TakenIs
  <2> QED BY <2>1, <2>2 DEF Asking
<1>9. s_connected[t] /\ age' = age /\ missed' = missed /\ due' = due
  BY <1>1 DEF satVars, timers
<1>10. CASE t \in Clients \/ t # s
  <2>1. t \in Clients' => t \in Clients
    BY <1>1, <1>10, OthersStay DEF LinkInv
  <2> QED BY <1>7, <1>8, <1>9, <2>1, Undisturbed DEF HeartInv
<1>11. CASE t = s
  <2>1. age'[t] = 0
    BY <1>5, <1>9, <1>11 DEF HeartInv, Accounted
  <2> QED BY <2>1, Refreshed
<1> QED BY <1>10, <1>11

LEMMA HeartStep ==
  ASSUME TimersOK, TimersOK', LinkInv, HeartInv, [TimedNext]_timedVars
  PROVE  HeartInv'
<1>1. CASE Tick
  BY <1>1, TickAccounts
<1>2. ASSUME s_clients' = Cleared, UNCHANGED <<s_connected, age, missed>>,
             \A n \in Node : rxq'[n] = rxq[n] \/ (n = Server /\ rxq'[n] = <<>>)
      PROVE  HeartInv'
  <2>1. Clients' = {}
    BY <1>2, NoClientsNext
  <2>2. \A s \in Sat : s \in Node /\ s # Server
    BY ServerAssumption DEF Node, Sat
  <2>3. \A s \in Sat : Asking(s)' => Asking(s)
    BY <1>2 DEF Asking, Node
  <2> QED BY <1>2, <2>1, <2>2, <2>3, Undisturbed DEF HeartInv
<1>3. CASE Start
  <2>1. s_clients' = Cleared /\ UNCHANGED <<rxq, s_connected, age, missed>>
    BY <1>3 DEF Start, ServerStart, ProtocolInit, satVars
  <2> QED BY <1>2, <2>1
<1>4. CASE Untimed
  <2>1. CASE ServerStop /\ UNCHANGED timers
    <3>1. s_clients' = Cleared /\ UNCHANGED <<s_connected, age, missed>>
      BY <2>1 DEF ServerStop, ProtocolDeinit, satVars, timers
    <3>2. \A n \in Node : rxq'[n] = rxq[n] \/ (n = Server /\ rxq'[n] = <<>>)
      BY <2>1 DEF ServerStop, LinkInv, QueuesOK
    <3> QED BY <1>2, <3>1, <3>2
  <2> QED BY <1>4, <2>1, DiscoverAccounts DEF Untimed
<1>5. ASSUME NEW got \in SUBSET Sat, HeartbeatTurn(got)
      PROVE  HeartInv'
  BY <1>5, HeartbeatAccounts
<1>6. ASSUME NEW s \in Sat, Receive(s) \/ Reset(s)
      PROVE  HeartInv'
  BY <1>6, ReceiveAccounts, ResetAccounts
<1>7. ASSUME NEW s \in Sat, NEW got \in SUBSET (Node \ {s}), Turn(s, got)
      PROVE  HeartInv'
  BY <1>7, TurnAccounts
<1>8. CASE UNCHANGED timedVars
  BY <1>8 DEF timedVars, timers, linkVars, tableVars, satVars, HeartInv, Accounted, Asking,
              Clients, Known, ClientSlots, Used
<1> QED BY <1>1, <1>3, <1>4, <1>5, <1>6, <1>7, <1>8 DEF TimedNext

LEMMA HeartInvAlways == TimedSpec => []HeartInv
<1>1. TimedInit => HeartInv
  BY DEF TimedInit, LinkInit, HeartInv, Accounted
<1>2. TimersOK /\ TimersOK' /\ LinkInv /\ HeartInv /\ [TimedNext]_timedVars => HeartInv'
  BY HeartStep
<1>3. TimedSpec => []LinkInv
  BY TimedImplementsLink, LinkInvAlways, PTL
<1> QED BY <1>1, <1>2, <1>3, TimersAlways, PTL DEF TimedSpec

\* For any number of satellites and any order of losses: a connection to a
\* satellite that the controller knows times out only after every heartbeat of
\* the timeout was lost.
THEOREM TimeoutsNeedLosses == TimedSpec => []TimeoutNeedsLosses
<1>1. TimersOK /\ HeartInv => TimeoutNeedsLosses
  <2> SUFFICES ASSUME TimersOK, HeartInv, NEW s \in Sat, s_connected[s], age[s] > TimeoutTicks
               PROVE  missed[s] >= Enough
    BY DEF TimeoutNeedsLosses, Expired
  <2>1. age[s] \in Nat /\ missed[s] \in Nat /\ Kept(age[s], missed[s])
    BY Bounds DEF TimersOK, HeartInv, Accounted
  <2>2. missed[s] < Enough => Periods(missed[s]) <= TimeoutTicks /\ Periods(missed[s]) \in Nat
    BY <2>1, PeriodsFit, PeriodsGrow
  <2> QED BY <2>1, <2>2, Bounds DEF Kept
<1> QED BY <1>1, TimersAlways, HeartInvAlways, PTL
-----------------------------------------------------------------------------
(* A silence of the controller's ends the connection. *)

\* After its turn of the loop a connected satellite has been heard by somebody
\* within the timeout.
TurnDone == \A s \in Sat : s \in looped /\ s_connected[s] => age[s] <= TimeoutTicks

\* The last packet of anyone's is the controller's.
Heard == \A s \in Sat : s_connected[s] => silence[s] <= age[s] \/ age[s] = MaxAge

\* Every packet a satellite is about to take is the controller's.
NoStray == \A s \in Sat : \A k \in 1 .. Len(rxq[s]) : rxq[s][k].src = Server

\* No radio hears itself.
Foreign == \A s \in Sat : \A k \in 1 .. Len(rxq[s]) : rxq[s][k].src # s

LEMMA TurnDoneStep ==
  ASSUME TimersOK, LinkInv, TurnDone, [TimedNext]_timedVars
  PROVE  TurnDone'
<1> USE DEF TurnDone
<1>1. CASE Tick
  BY <1>1 DEF Tick
<1>2. ASSUME UNCHANGED <<s_connected, age, looped>>
      PROVE  TurnDone'
  BY <1>2
<1>3. CASE Start \/ Untimed
  BY <1>2, <1>3 DEF Start, ServerStart, Untimed, ServerStop, ServerDiscover, satVars, timers
<1>4. ASSUME NEW got \in SUBSET Sat, HeartbeatTurn(got)
      PROVE  TurnDone'
  BY <1>2, <1>4 DEF HeartbeatTurn, Heartbeat, SendAll, linkVars, satVars
<1>5. ASSUME NEW s \in Sat, Receive(s)
      PROVE  TurnDone'
  <2>1. /\ looped' = looped
        /\ age' = [age EXCEPT ![s] = IF s_connected[s] \/ s_connected'[s] THEN 0 ELSE @]
    BY <1>5 DEF Receive
  <2>2. \A t \in Sat \ {s} : s_connected'[t] = s_connected[t] /\ age'[t] = age[t]
    <3>1. \A t \in Sat \ {s} : s_connected'[t] = s_connected[t]
      BY <1>5 DEF Receive, SatReceive, Connect, satVars, LinkInv, SatsOK
    <3> QED BY <2>1, <3>1 DEF TimersOK
  <2>3. s_connected'[s] => age'[s] = 0
    BY <2>1 DEF TimersOK
  <2> QED BY <2>1, <2>2, <2>3, Bounds
<1>6. ASSUME NEW s \in Sat, Reset(s)
      PROVE  TurnDone'
  BY <1>6 DEF Reset, SatReset, TimersOK, LinkInv, SatsOK
<1>7. ASSUME NEW s \in Sat, NEW got, Turn(s, got)
      PROVE  TurnDone'
  <2>1. looped' = looped \cup {s} /\ age' = age
    BY <1>7 DEF Turn
  <2>2. CASE Search(s, got) \/ Timeout(s, got)
    <3>1. ~s_connected'[s] /\ \A t \in Sat : s_connected'[t] => s_connected[t]
      BY <2>2 DEF Search, Timeout, satVars, LinkInv, SatsOK
    <3> QED BY <2>1, <3>1
  <2>3. CASE ~Expired(s) /\ UNCHANGED linkVars
    <3>1. s_connected' = s_connected /\ age[s] <= TimeoutTicks
      BY <2>3, Bounds DEF Expired, TimersOK, linkVars, satVars
    <3> QED BY <2>1, <3>1
  <2> QED BY <1>7, <2>2, <2>3 DEF Turn
<1>8. CASE UNCHANGED timedVars
  BY <1>2, <1>8 DEF timedVars, timers, linkVars, satVars
<1> QED BY <1>1, <1>3, <1>4, <1>5, <1>6, <1>7, <1>8 DEF TimedNext

LEMMA HeardStep ==
  ASSUME TimersOK, LinkInv, NoStray, Heard, [TimedNext]_timedVars
  PROVE  Heard'
<1> USE DEF Heard
<1>1. CASE Tick
  <2> SUFFICES ASSUME NEW s \in Sat, s_connected'[s]
               PROVE  silence'[s] <= age'[s] \/ age'[s] = MaxAge
    OBVIOUS
  <2>1. s_connected[s]
    BY <1>1 DEF Tick, linkVars, satVars
  <2>2. PICK a \in Nat, q \in Nat : a = age[s] /\ q = silence[s] /\ a <= MaxAge
    BY Bounds DEF TimersOK
  <2>3. age'[s] = Lesser(a + 1, MaxAge) /\ silence'[s] = Lesser(q + 1, MaxSilence)
    BY <1>1, <2>1, <2>2 DEF Tick
  <2>4. q <= a \/ a = MaxAge
    BY <2>1, <2>2
  <2>5. Lesser(q + 1, MaxSilence) <= Lesser(a + 1, MaxAge) \/ Lesser(a + 1, MaxAge) = MaxAge
    BY <2>2, <2>4, Bounds DEF Lesser
  <2> QED BY <2>3, <2>5
<1>2. ASSUME UNCHANGED <<s_connected, age, silence>>
      PROVE  Heard'
  BY <1>2
<1>3. CASE Start \/ Untimed
  BY <1>2, <1>3 DEF Start, ServerStart, Untimed, ServerStop, ServerDiscover, satVars, timers
<1>4. ASSUME NEW got \in SUBSET Sat, HeartbeatTurn(got)
      PROVE  Heard'
  BY <1>2, <1>4 DEF HeartbeatTurn, Heartbeat, SendAll, linkVars, satVars
<1>5. ASSUME NEW s \in Sat, Receive(s)
      PROVE  Heard'
  <2>1. rxq[s] # <<>>
    BY <1>5 DEF Receive, SatReceive
  <2>2. Head(rxq[s]).src = Server
    <3>1. 1 \in 1 .. Len(rxq[s]) /\ Head(rxq[s]) = rxq[s][1]
      BY <2>1, TakenIs DEF LinkInv, Node
    <3> QED BY <3>1 DEF NoStray
  <2>3. /\ age' = [age EXCEPT ![s] = IF s_connected[s] \/ s_connected'[s] THEN 0 ELSE @]
        /\ silence' = [silence EXCEPT ![s] = 0]
    BY <1>5, <2>2 DEF Receive
  <2>4. \A t \in Sat \ {s} :
          s_connected'[t] = s_connected[t] /\ age'[t] = age[t] /\ silence'[t] = silence[t]
    <3>1. \A t \in Sat \ {s} : s_connected'[t] = s_connected[t]
      BY <1>5 DEF Receive, SatReceive, Connect, satVars, LinkInv, SatsOK
    <3> QED BY <2>3, <3>1 DEF TimersOK
  <2>5. silence'[s] = 0 /\ (s_connected'[s] => age'[s] = 0)
    BY <2>3 DEF TimersOK
  <2> QED BY <2>4, <2>5
<1>6. ASSUME NEW s \in Sat, Reset(s)
      PROVE  Heard'
  BY <1>6 DEF Reset, SatReset, TimersOK, LinkInv, SatsOK
<1>7. ASSUME NEW s \in Sat, NEW got, Turn(s, got)
      PROVE  Heard'
  <2>1. age' = age /\ silence' = silence
    BY <1>7 DEF Turn
  <2>2. \A t \in Sat : s_connected'[t] => s_connected[t]
    BY <1>7 DEF Turn, Search, Timeout, linkVars, satVars, LinkInv, SatsOK
  <2> QED BY <2>1, <2>2
<1>8. CASE UNCHANGED timedVars
  BY <1>2, <1>8 DEF timedVars, timers, linkVars, satVars
<1> QED BY <1>1, <1>3, <1>4, <1>5, <1>6, <1>7, <1>8 DEF TimedNext

LEMMA ForeignStep ==
  ASSUME LinkInv, Foreign, [TimedNext]_timedVars
  PROVE  Foreign'
<1>1. \A s \in Sat : s \in Node /\ s # Server
  BY ServerAssumption DEF Node, Sat
<1>2. Server \in Node /\ QueuesOK /\ \A n \in Node : QueueOK(rxq[n])
  BY DEF LinkInv, QueuesOK, Node
<1>3. ASSUME \A s \in Sat : rxq'[s] = rxq[s] \/ rxq'[s] = <<>>
      PROVE  Foreign'
  BY <1>3 DEF Foreign
<1>4. ASSUME NEW qs, \A s \in Sat : QueueOK(qs[s]) /\ qs[s] = rxq[s],
             NEW p \in Packet, NEW got, p.src \notin got, rxq' = Delivered(qs, p, got)
      PROVE  Foreign'
  BY <1>1, <1>4, DeliveredIs DEF Foreign
<1>5. ASSUME NEW type \in {"discover", "assign", "heartbeat"}, NEW src \in Node,
             NEW role \in Role \cup {Unknown}
      PROVE  Pkt(type, src, role) \in Packet /\ Pkt(type, src, role).src = src
  BY PktIsPacket DEF Pkt
<1>6. CASE UNCHANGED rxq
  BY <1>3, <1>6
<1>7. CASE Tick \/ Start \/ UNCHANGED timedVars
  BY <1>6, <1>7 DEF Tick, Start, ServerStart, timedVars, linkVars
<1>8. CASE Untimed
  <2>1. CASE ServerStop
    BY <1>1, <1>2, <1>3, <2>1 DEF ServerStop, QueuesOK
  <2>2. ASSUME NEW s \in Sat, NEW got \in SUBSET {s}, ServerDiscover(s, got)
        PROVE  Foreign'
    <3> DEFINE req == Head(rxq[Server]).role
               p == Pkt("assign", Server, AssignedRole(req))
    <3>1. /\ rxq[Server] # <<>>
          /\ rxq' = Delivered(Taken(Server), p, got \cap {s}) \/ rxq' = Taken(Server)
      BY <2>2 DEF ServerDiscover
    <3>2. AssignedRole(req) \in Role \cup {Unknown}
      <4>1. Head(rxq[Server]) \in Packet
        BY <1>2, <3>1, TakenKeeps
      <4> QED BY <4>1 DEF AssignedRole, RoleAvailable, Packet, Role
    <3>3. p \in Packet /\ p.src = Server
      BY <1>2, <1>5, <3>2
    <3> HIDE DEF p, req
    <3>4. \A t \in Sat : Taken(Server)[t] = rxq[t]
      BY <1>1, <1>2, <3>1, TakenIs
    <3>5. Server \notin got \cap {s}
      BY <1>1, <2>2
    <3>6. CASE rxq' = Taken(Server)
      BY <1>3, <3>4, <3>6
    <3>7. CASE rxq' = Delivered(Taken(Server), p, got \cap {s})
      BY <1>1, <1>2, <1>4, <3>3, <3>4, <3>5, <3>7
    <3> QED BY <3>1, <3>6, <3>7
  <2> QED BY <1>8, <2>1, <2>2 DEF Untimed
<1>9. ASSUME NEW got \in SUBSET Sat, HeartbeatTurn(got)
      PROVE  Foreign'
  <2>1. rxq' = Delivered(rxq, Pkt("heartbeat", Server, Unknown), got \cap Clients) \/ rxq' = rxq
    BY <1>9 DEF HeartbeatTurn, Heartbeat, SendAll, linkVars
  <2>2. Server \notin got \cap Clients
    BY <1>1 DEF Clients
  <2> QED BY <1>1, <1>2, <1>4, <1>5, <1>6, <2>1, <2>2
<1>10. ASSUME NEW s \in Sat, Receive(s)
       PROVE  Foreign'
  <2>1. rxq[s] # <<>> /\ rxq' = Taken(s)
    BY <1>10 DEF Receive, SatReceive
  <2> QED BY <1>1, <1>2, <2>1, TakenIs DEF Foreign
<1>11. ASSUME NEW s \in Sat, Reset(s)
       PROVE  Foreign'
  BY <1>1, <1>2, <1>3, <1>11 DEF Reset, SatReset, QueuesOK
<1>12. ASSUME NEW s \in Sat, NEW got \in SUBSET (Node \ {s}), Turn(s, got)
       PROVE  Foreign'
  <2>1. rxq' = Delivered(rxq, Pkt("discover", s, Unknown), got) \/ rxq' = rxq
    BY <1>12 DEF Turn, Search, Timeout, SendDiscovery, linkVars
  <2> QED BY <1>1, <1>2, <1>4, <1>5, <1>6, <2>1
<1> QED BY <1>7, <1>8, <1>9, <1>10, <1>11, <1>12 DEF TimedNext

LEMMA TurnDoneAlways == TimedSpec => []TurnDone
<1>1. TimedInit => TurnDone
  BY DEF TimedInit, TurnDone
<1>2. TimersOK /\ LinkInv /\ TurnDone /\ [TimedNext]_timedVars => TurnDone'
  BY TurnDoneStep
<1>3. TimedSpec => []LinkInv
  BY TimedImplementsLink, LinkInvAlways, PTL
<1> QED BY <1>1, <1>2, <1>3, TimersAlways, PTL DEF TimedSpec

LEMMA ForeignAlways == TimedSpec => []Foreign
<1>1. TimedInit => Foreign
  BY DEF TimedInit, LinkInit, Foreign, Node
<1>2. LinkInv /\ Foreign /\ [TimedNext]_timedVars => Foreign'
  BY ForeignStep
<1>3. TimedSpec => []LinkInv
  BY TimedImplementsLink, LinkInvAlways, PTL
<1> QED BY <1>1, <1>2, <1>3, PTL DEF TimedSpec

\* As long as no packet of another satellite's reaches a satellite, a silence of
\* the controller's longer than the timeout ends the connection at the next turn
\* of the loop.  (A packet of another satellite's refreshes the connection like
\* the controller's.)
THEOREM SilenceEnds == TimedSpec /\ []NoStray => []SilenceEndsConnection
<1>1. TimedInit => Heard
  BY DEF TimedInit, LinkInit, Heard
<1>2. TimersOK /\ LinkInv /\ NoStray /\ Heard /\ [TimedNext]_timedVars => Heard'
  BY HeardStep
<1>3. TimedSpec => []LinkInv
  BY TimedImplementsLink, LinkInvAlways, PTL
<1>4. TimersOK /\ TurnDone /\ Heard => SilenceEndsConnection
  <2> SUFFICES ASSUME TimersOK, TurnDone, Heard, NEW s \in Sat, silence[s] > TimeoutTicks,
                      s \in looped, s_connected[s]
               PROVE  FALSE
    BY DEF SilenceEndsConnection
  <2>1. age[s] \in Nat /\ silence[s] \in Nat /\ age[s] <= TimeoutTicks
    BY Bounds DEF TimersOK, TurnDone
  <2>2. silence[s] <= age[s] \/ age[s] = TimeoutTicks + 1
    BY DEF Heard, MaxAge
  <2> QED BY <2>1, <2>2, Bounds
<1> QED BY <1>1, <1>2, <1>3, <1>4, TimersAlways, TurnDoneAlways, PTL DEF TimedSpec

\* In particular a satellite without another one in reach notices that the
\* controller has gone silent.
THEOREM SilenceEndsAlone ==
  (\A a, b \in Sat : a = b) => (TimedSpec => []SilenceEndsConnection)
<1> SUFFICES ASSUME \A a, b \in Sat : a = b
             PROVE  TimedSpec => []SilenceEndsConnection
  OBVIOUS
<1>1. LinkInv /\ Foreign => NoStray
  <2> SUFFICES ASSUME LinkInv, Foreign, NEW s \in Sat, NEW k \in 1 .. Len(rxq[s])
               PROVE  rxq[s][k].src = Server
    BY DEF NoStray
  <2>1. rxq[s] \in Seq(Packet)
    BY DEF LinkInv, QueuesOK, QueueOK, Node
  <2>2. rxq[s][k] \in Packet
    BY <2>1
  <2>3. rxq[s][k].src \in Sat \cup {Server}
    BY <2>2 DEF Packet, Node
  <2> QED BY <2>3 DEF Foreign
<1>2. TimedSpec => []LinkInv
  BY TimedImplementsLink, LinkInvAlways, PTL
<1> QED BY <1>1, <1>2, ForeignAlways, SilenceEnds, PTL
=============================================================================
