----------------------- MODULE ClientTableAccessProofs -----------------------
(***************************************************************************)
(* Theorems about ClientTableAccess, for any number of satellites and of   *)
(* slots: registrations cut into stores and cut off by stops still give a  *)
(* foot to one satellite, and what the readers take out of the table       *)
(* without a lock is bounded.                                              *)
(*                                                                         *)
(* None of it is inductive alone.  StoresOK says what a half-written slot  *)
(* looks like, that it keeps its role from everyone else and that its      *)
(* satellite has no other slot; ReaderOK says, for a task in the middle of *)
(* its copy, where the satellites are that it has yet to come to.          *)
(***************************************************************************)
EXTENDS ClientTableAccess, ClientTableProofs

Busy == worker.at # "idle"

\* A free slot is clear, an address is stored after its role, and no two slots in
\* use share a foot or a satellite.
EntriesOK ==
  /\ \A i \in Slot : ~s_clients[i].used => s_clients[i] = Cleared[i]
  /\ \A i \in Used : s_clients[i].mac \in Mac => s_clients[i].role \in Role
  /\ \A i, j \in Used :
        s_clients[i].role \in Role /\ s_clients[i].role = s_clients[j].role => i = j
  /\ \A i, j \in Used :
        s_clients[i].mac \in Mac /\ s_clients[i].mac = s_clients[j].mac => i = j

\* The slot the worker is at has no address yet, and neither foot nor satellite
\* has another slot.
WorkerOK ==
  Busy =>
    /\ worker.slot \in Used
    /\ s_clients[worker.slot].mac \notin Mac
    /\ s_clients[worker.slot].role =
         IF worker.at = "role" THEN Unknown ELSE worker.role
    /\ \A i \in Used : s_clients[i].mac # worker.mac
    /\ \A i \in Used \ {worker.slot} : s_clients[i].role # worker.role

\* Whoever else has no address was left behind by a stop.
GhostsOK ==
  \A i \in Used : s_clients[i].mac \notin Mac /\ (Busy => worker.slot # i) => aborted

StoresOK == EntriesOK /\ WorkerOK /\ GhostsOK

LEMMA SlotsOfTable == Slot \subseteq Nat /\ 0 \in Slot /\ Used \subseteq Slot
BY MaxClientsAssumption DEF Slot, Used

\* Storing one entry changes this entry.
LEMMA StoreEntry ==
  ASSUME s_clients \in [Slot -> AccessEntry], NEW i \in Slot, NEW e \in AccessEntry,
         s_clients' = [s_clients EXCEPT ![i] = e]
  PROVE  /\ s_clients' \in [Slot -> AccessEntry]
         /\ s_clients'[i] = e
         /\ \A j \in Slot \ {i} : s_clients'[j] = s_clients[j]
         /\ e.used => Used' = Used \cup {i}
<1>1. /\ s_clients' \in [Slot -> AccessEntry]
      /\ s_clients'[i] = e
      /\ \A j \in Slot \ {i} : s_clients'[j] = s_clients[j]
  OBVIOUS
<1> QED BY <1>1 DEF Used

\* The stores of the worker, one field each.
LEMMA StoreField ==
  ASSUME s_clients \in [Slot -> AccessEntry], NEW i \in Slot,
         NEW r \in Role \cup {Unknown}, NEW m \in Mac \cup {ZeroMac, Torn},
         \/ s_clients' = [s_clients EXCEPT ![i].used = TRUE]
         \/ s_clients' = [s_clients EXCEPT ![i].role = r] /\ s_clients[i].used
         \/ s_clients' = [s_clients EXCEPT ![i].mac = m] /\ s_clients[i].used
  PROVE  /\ s_clients' \in [Slot -> AccessEntry]
         /\ \A j \in Slot \ {i} : s_clients'[j] = s_clients[j]
         /\ Used' = Used \cup {i}
         /\ s_clients' = [s_clients EXCEPT ![i].used = TRUE] =>
               s_clients'[i].mac = s_clients[i].mac /\ s_clients'[i].role = s_clients[i].role
         /\ s_clients' = [s_clients EXCEPT ![i].role = r] =>
               s_clients'[i].mac = s_clients[i].mac /\ s_clients'[i].role = r
         /\ s_clients' = [s_clients EXCEPT ![i].mac = m] =>
               s_clients'[i].mac = m /\ s_clients'[i].role = s_clients[i].role
<1>1. s_clients[i] \in AccessEntry
  OBVIOUS
<1>2. /\ \A j \in Slot \ {i} : s_clients'[j] = s_clients[j]
      /\ s_clients'[i].used
      /\ s_clients' = [s_clients EXCEPT ![i].used = TRUE] =>
               s_clients'[i].mac = s_clients[i].mac /\ s_clients'[i].role = s_clients[i].role
      /\ s_clients' = [s_clients EXCEPT ![i].role = r] =>
               s_clients'[i].mac = s_clients[i].mac /\ s_clients'[i].role = r
      /\ s_clients' = [s_clients EXCEPT ![i].mac = m] =>
               s_clients'[i].mac = m /\ s_clients'[i].role = s_clients[i].role
  BY <1>1 DEF AccessEntry
<1>3. s_clients' \in [Slot -> AccessEntry]
  <2>1. ASSUME NEW f \in [Slot -> AccessEntry], NEW e \in AccessEntry
        PROVE  [f EXCEPT ![i] = e] \in [Slot -> AccessEntry]
    OBVIOUS
  <2>2. [s_clients[i] EXCEPT !.used = TRUE] \in AccessEntry
    BY <1>1 DEF AccessEntry
  <2>3. [s_clients[i] EXCEPT !.role = r] \in AccessEntry
    BY <1>1 DEF AccessEntry
  <2>4. [s_clients[i] EXCEPT !.mac = m] \in AccessEntry
    BY <1>1 DEF AccessEntry
  <2> QED BY <2>1, <2>2, <2>3, <2>4
<1>4. Used' = Used \cup {i}
  BY <1>2 DEF Used
<1> QED BY <1>2, <1>3, <1>4

\* What register_client has found when it accepts a satellite.
LEMMA Accepted ==
  ASSUME NEW m, NEW r, RegisterError(m, r) = "ESP_OK"
  PROVE  /\ s_initialized /\ r \in Role
         /\ ~Known(m) => /\ FindFreeClient \in Slot \ Used
                         /\ \A i \in Used : s_clients[i].role # r /\ s_clients[i].mac # m
         /\ Known(m) => /\ FindClient(m) \in Used
                        /\ s_clients[FindClient(m)].mac = m
                        /\ \/ s_clients[FindClient(m)].role = r
                           \/ \A i \in Used \ {FindClient(m)} : s_clients[i].role # r
<1>1. s_initialized /\ r \in Role
  BY DEF RegisterError
<1>2. CASE ~Known(m)
  <2>1. Free # {} /\ ~Occupied(r)
    BY <1>1, <1>2 DEF RegisterError
  <2> QED BY <1>1, <1>2, <2>1, FindFreeFinds DEF Occupied, Known, ClientSlots
<1>3. CASE Known(m)
  BY <1>1, <1>3, FindClientFinds DEF RegisterError, RoleOf
<1> QED BY <1>2, <1>3

-----------------------------------------------------------------------------
(* Types. *)

Shape == [at : {"idle", "test", "copy", "send"}, slot : 0 .. MaxClients,
          targets : SUBSET (Mac \cup {ZeroMac, Torn}), due : SUBSET Mac,
          crossed : BOOLEAN, cleared : BOOLEAN]

LEMMA IdleShape == IdleReader \in Shape
BY MaxClientsAssumption DEF IdleReader, Shape

\* A step of one reader leaves the other alone.
LEMMA MovedReader ==
  ASSUME reader \in [Reader -> Shape], NEW t \in Reader, NEW r \in Shape, Moved(t, r)
  PROVE  /\ reader' \in [Reader -> Shape]
         /\ reader'[t] = r
         /\ \A u \in Reader : u # t => reader'[u] = reader[u]
BY DEF Moved

\* Where a step takes a reader, field by field.
LEMMA BeginMoves ==
  ASSUME AccessTypeOK, NEW t \in Reader, Begin(t)
  PROVE  \E r \in Shape :
           /\ Moved(t, r)
           /\ r.at = "test" /\ r.slot = 0 /\ r.targets = {} /\ r.due = RegisteredNow
           /\ r.crossed <=> Busy
<1> DEFINE b == worker.at # "idle"
           r == [IdleReader EXCEPT !.at = "test", !.due = RegisteredNow, !.crossed = b]
<1>1. RegisteredNow \subseteq Mac
  BY DEF RegisteredNow, Complete
<1>2. Moved(t, r)
  BY DEF Begin
<1>3. b \in BOOLEAN /\ (b <=> Busy)
  BY DEF Busy
<1> HIDE DEF b
<1>4. r \in Shape
  BY <1>1, <1>3, IdleShape DEF Shape
<1>5. /\ r.at = "test" /\ r.slot = 0 /\ r.targets = {} /\ r.due = RegisteredNow
      /\ r.crossed <=> Busy
  BY <1>3, IdleShape DEF Shape, IdleReader
<1> HIDE DEF r
<1> QED BY <1>2, <1>4, <1>5

LEMMA TestUsedMoves ==
  ASSUME AccessTypeOK, NEW t \in Reader, TestUsed(t)
  PROVE  \E r \in Shape :
           /\ Moved(t, r)
           /\ r.targets = reader[t].targets /\ r.due = reader[t].due
           /\ (r.crossed <=> reader[t].crossed) /\ (r.cleared <=> reader[t].cleared)
           /\ \/ r.at = "send" /\ reader[t].slot = MaxClients
              \/ r.at = "copy" /\ r.slot = reader[t].slot /\ r.slot \in Used
              \/ /\ r.at = "test" /\ r.slot = reader[t].slot + 1
                 /\ reader[t].slot \in Slot \ Used
<1> DEFINE q == reader[t]
<1>1. q \in Shape /\ q.at = "test"
  BY DEF AccessTypeOK, Shape, TestUsed
<1>2. CASE q.slot = MaxClients
  <2> DEFINE r == [q EXCEPT !.at = "send", !.slot = 0]
  <2>1. Moved(t, r)
    BY <1>2 DEF TestUsed
  <2>2. r \in Shape
    <3>1. 0 \in 0 .. MaxClients
      BY MaxClientsAssumption
    <3> QED BY <1>1, <3>1 DEF Shape
  <2>3. /\ r.at = "send" /\ r.targets = q.targets /\ r.due = q.due
        /\ (r.crossed <=> q.crossed) /\ (r.cleared <=> q.cleared)
    BY <1>1 DEF Shape
  <2> QED BY <1>2, <2>1, <2>2, <2>3
<1>3. CASE q.slot # MaxClients /\ s_clients[q.slot].used
  <2> DEFINE r == [q EXCEPT !.at = "copy"]
  <2>1. Moved(t, r)
    BY <1>3 DEF TestUsed
  <2>2. r \in Shape
    BY <1>1 DEF Shape
  <2>3. /\ r.at = "copy" /\ r.slot = q.slot /\ r.targets = q.targets /\ r.due = q.due
        /\ (r.crossed <=> q.crossed) /\ (r.cleared <=> q.cleared)
    BY <1>1 DEF Shape
  <2>4. q.slot \in Used
    BY <1>1, <1>3, MaxClientsAssumption DEF Used, Slot, Shape
  <2> QED BY <2>1, <2>2, <2>3, <2>4
<1>4. CASE q.slot # MaxClients /\ ~s_clients[q.slot].used
  <2> DEFINE r == [q EXCEPT !.slot = q.slot + 1]
  <2>1. Moved(t, r)
    BY <1>4 DEF TestUsed
  <2>2. q.slot \in Slot \ Used /\ q.slot + 1 \in 0 .. MaxClients
    BY <1>1, <1>4, MaxClientsAssumption DEF Used, Slot, Shape
  <2>3. r \in Shape
    BY <1>1, <2>2 DEF Shape
  <2>4. /\ r.at = "test" /\ r.slot = q.slot + 1 /\ r.targets = q.targets /\ r.due = q.due
        /\ (r.crossed <=> q.crossed) /\ (r.cleared <=> q.cleared)
    BY <1>1 DEF Shape
  <2> QED BY <2>1, <2>2, <2>3, <2>4
<1> QED BY <1>2, <1>3, <1>4

LEMMA CopyMoves ==
  ASSUME AccessTypeOK, NEW t \in Reader, Copy(t)
  PROVE  \E r \in Shape :
           /\ Moved(t, r)
           /\ reader[t].at = "copy" /\ reader[t].slot \in Slot
           /\ r.at = "test" /\ r.slot = reader[t].slot + 1 /\ r.due = reader[t].due
           /\ r.targets = reader[t].targets \cup {s_clients[reader[t].slot].mac}
           /\ (r.crossed <=> reader[t].crossed) /\ (r.cleared <=> reader[t].cleared)
<1> DEFINE q == reader[t]
           r == [q EXCEPT !.at = "test", !.slot = q.slot + 1,
                          !.targets = q.targets \cup {s_clients[q.slot].mac}]
<1>1. q \in Shape /\ q.at = "copy" /\ q.slot \in Slot
  BY DEF AccessTypeOK, Shape, Copy
<1>2. Moved(t, r)
  BY DEF Copy
<1>3. q.slot + 1 \in 0 .. MaxClients
  BY <1>1, MaxClientsAssumption DEF Slot
<1>4. s_clients[q.slot].mac \in Mac \cup {ZeroMac, Torn}
  BY <1>1 DEF AccessTypeOK, AccessEntry
<1>5. r \in Shape
  BY <1>1, <1>3, <1>4 DEF Shape
<1>6. /\ r.at = "test" /\ r.slot = q.slot + 1 /\ r.due = q.due
      /\ r.targets = q.targets \cup {s_clients[q.slot].mac}
      /\ (r.crossed <=> q.crossed) /\ (r.cleared <=> q.cleared)
  BY <1>1 DEF Shape
<1> HIDE DEF r
<1> QED BY <1>1, <1>2, <1>5, <1>6

LEMMA SendMoves ==
  ASSUME AccessTypeOK, NEW t \in Reader, Send(t)
  PROVE  /\ reader[t].at = "send"
         /\ \E r \in Shape :
              /\ Moved(t, r)
              /\ \/ r = IdleReader
                 \/ /\ r.at = "send"
                    /\ \E a : /\ r.due = reader[t].due \ {a}
                              /\ r.targets = reader[t].targets \ {a}
                    /\ (r.crossed <=> reader[t].crossed) /\ (r.cleared <=> reader[t].cleared)
<1> DEFINE q == reader[t]
<1>1. q \in Shape /\ q.at = "send"
  BY DEF AccessTypeOK, Shape, Send
<1>2. CASE Moved(t, IdleReader)
  BY <1>1, <1>2, IdleShape
<1>3. ASSUME NEW a, Moved(t, [q EXCEPT !.targets = q.targets \ {a}, !.due = q.due \ {a}])
      PROVE  \E r \in Shape :
              /\ Moved(t, r)
              /\ r.at = "send" /\ r.due = q.due \ {a} /\ r.targets = q.targets \ {a}
              /\ (r.crossed <=> q.crossed) /\ (r.cleared <=> q.cleared)
  <2> DEFINE r == [q EXCEPT !.targets = q.targets \ {a}, !.due = q.due \ {a}]
  <2>1. r \in Shape
    BY <1>1 DEF Shape
  <2>2. /\ r.at = "send" /\ r.due = q.due \ {a} /\ r.targets = q.targets \ {a}
        /\ (r.crossed <=> q.crossed) /\ (r.cleared <=> q.cleared)
    BY <1>1 DEF Shape
  <2>3. Moved(t, r)
    BY <1>3
  <2> HIDE DEF r
  <2> QED BY <2>1, <2>2, <2>3
<1>4. \/ Moved(t, IdleReader)
      \/ \E a : Moved(t, [q EXCEPT !.targets = q.targets \ {a}, !.due = q.due \ {a}])
  BY DEF Send
<1> QED BY <1>1, <1>2, <1>3, <1>4

\* Worker and stop, as the readers see them.
LEMMA CrossedReaders ==
  ASSUME reader \in [Reader -> Shape]
  PROVE  /\ Crossed \in [Reader -> Shape]
         /\ \A t \in Reader :
              /\ Crossed[t].at = reader[t].at /\ Crossed[t].slot = reader[t].slot
              /\ Crossed[t].targets = reader[t].targets /\ Crossed[t].due = reader[t].due
              /\ Crossed[t].crossed <=> reader[t].crossed \/ t \in Scanning
              /\ Crossed[t].cleared <=> reader[t].cleared
<1> SUFFICES ASSUME NEW t \in Reader
             PROVE  /\ Crossed[t] \in Shape
                    /\ Crossed[t].at = reader[t].at /\ Crossed[t].slot = reader[t].slot
                    /\ Crossed[t].targets = reader[t].targets /\ Crossed[t].due = reader[t].due
                    /\ Crossed[t].crossed <=> reader[t].crossed \/ t \in Scanning
                    /\ Crossed[t].cleared <=> reader[t].cleared
  BY DEF Crossed
<1> DEFINE b == reader[t].crossed \/ t \in Scanning
<1>1. b \in BOOLEAN /\ (b <=> reader[t].crossed \/ t \in Scanning)
  OBVIOUS
<1>2. Crossed[t] = [reader[t] EXCEPT !.crossed = b]
  BY DEF Crossed
<1> HIDE DEF b
<1> QED BY <1>1, <1>2 DEF Shape

LEMMA StoppedReaders ==
  ASSUME reader \in [Reader -> Shape], FinishStop
  PROVE  /\ reader' \in [Reader -> Shape]
         /\ reader'[Heartbeat] = IdleReader
         /\ \A t \in Reader :
              \/ reader'[t] = IdleReader
              \/ /\ reader'[t].at = reader[t].at /\ reader'[t].slot = reader[t].slot
                 /\ reader[t].at # "idle"
                 /\ reader'[t].targets = reader[t].targets /\ reader'[t].due = {}
                 /\ reader'[t].crossed <=> reader[t].crossed
                 /\ reader'[t].cleared
<1>1. reader' = [t \in Reader |->
                  IF t = Heartbeat \/ reader[t].at = "idle" THEN IdleReader
                  ELSE [reader[t] EXCEPT !.due = {}, !.cleared = TRUE]]
  BY DEF FinishStop
<1>2. ASSUME NEW t \in Reader
      PROVE  /\ [reader[t] EXCEPT !.due = {}, !.cleared = TRUE] \in Shape
             /\ [reader[t] EXCEPT !.due = {}, !.cleared = TRUE].at = reader[t].at
             /\ [reader[t] EXCEPT !.due = {}, !.cleared = TRUE].slot = reader[t].slot
             /\ [reader[t] EXCEPT !.due = {}, !.cleared = TRUE].targets = reader[t].targets
             /\ [reader[t] EXCEPT !.due = {}, !.cleared = TRUE].due = {}
             /\ [reader[t] EXCEPT !.due = {}, !.cleared = TRUE].crossed <=> reader[t].crossed
             /\ [reader[t] EXCEPT !.due = {}, !.cleared = TRUE].cleared
  BY DEF Shape
<1>3. Heartbeat \in Reader
  BY DEF Reader
<1> QED BY <1>1, <1>2, <1>3, IdleShape

\* What the worker's step is about: an accepted registration writes a slot of the
\* table on behalf of a satellite and a foot.
LEMMA DiscoverCases ==
  ASSUME AccessTypeOK, NEW m \in Mac, NEW req, Discover(m, req)
  PROVE  \/ UNCHANGED <<s_clients, worker, reader>>
         \/ \E r \in Role : RegisterError(m, r) = "ESP_OK" /\ (StoreUsed(m, r) \/ UpdateRole(m, r))
BY Accepted DEF Discover

LEMMA TypesStep == AccessTypeOK /\ [AccessNext]_accessVars => AccessTypeOK'
<1> SUFFICES ASSUME AccessTypeOK, [AccessNext]_accessVars
             PROVE  AccessTypeOK'
  OBVIOUS
<1> USE DEF Shape
<1>1. /\ s_initialized = (service # "down")
      /\ s_clients \in [Slot -> AccessEntry]
      /\ reader \in [Reader -> Shape]
      /\ worker.slot \in Slot
  BY DEF AccessTypeOK
<1>2. Heartbeat \in Reader /\ Command \in Reader /\ Heartbeat # Command /\ Slot \subseteq 0 .. MaxClients
  BY ReaderAssumption, MaxClientsAssumption DEF Reader, Slot
<1>3. /\ Crossed \in [Reader -> Shape]
      /\ \A t \in Reader : Crossed[t].at = reader[t].at /\ Crossed[t].slot = reader[t].slot
  BY <1>1, CrossedReaders
<1>4. ASSUME NEW m \in Mac, NEW req, Discover(m, req)
      PROVE  AccessTypeOK'
  <2>1. service = "up" /\ UNCHANGED <<s_initialized, service, aborted>>
    BY <1>4 DEF Discover
  <2>2. CASE UNCHANGED <<s_clients, worker, reader>>
    BY <2>1, <2>2 DEF AccessTypeOK
  <2>3. ASSUME NEW r \in Role, RegisterError(m, r) = "ESP_OK", StoreUsed(m, r)
        PROVE  AccessTypeOK'
    <3>1. FindFreeClient \in Slot
      BY <2>3, Accepted DEF StoreUsed
    <3>2. s_clients' \in [Slot -> AccessEntry]
      BY <1>1, <2>3, <3>1, StoreField DEF StoreUsed
    <3>3. worker' = [at |-> "role", slot |-> FindFreeClient, mac |-> m, role |-> r]
          /\ reader' = Crossed
      BY <2>3 DEF StoreUsed
    <3> QED BY <1>1, <1>3, <2>1, <3>1, <3>2, <3>3 DEF AccessTypeOK
  <2>4. ASSUME NEW r \in Role, RegisterError(m, r) = "ESP_OK", UpdateRole(m, r)
        PROVE  AccessTypeOK'
    <3>1. FindClient(m) \in Slot
      BY <2>4, Accepted DEF UpdateRole, Used
    <3>2. [used |-> TRUE, mac |-> m, role |-> r] \in AccessEntry
      BY DEF AccessEntry
    <3>3. s_clients' \in [Slot -> AccessEntry]
      BY <1>1, <2>4, <3>1, <3>2 DEF UpdateRole, Registered, SlotFor
    <3>4. UNCHANGED <<worker, reader>>
      BY <2>4 DEF UpdateRole
    <3> QED BY <2>1, <3>3, <3>4 DEF AccessTypeOK
  <2> QED BY <1>4, <2>2, <2>3, <2>4, DiscoverCases
<1>5. CASE StoreRole
  <2>1. worker.role \in Role /\ service = "up"
    BY <1>5 DEF StoreRole, AccessTypeOK
  <2>2. [s_clients[worker.slot] EXCEPT !.role = worker.role] \in AccessEntry
    BY <1>1, <2>1 DEF AccessEntry
  <2>3. s_clients' \in [Slot -> AccessEntry]
    BY <1>1, <1>5, <2>2 DEF StoreRole
  <2> QED BY <1>5, <2>1, <2>3 DEF StoreRole, AccessTypeOK
<1>6. CASE StoreHalf
  <2>1. service = "up"
    BY <1>6 DEF StoreHalf, AccessTypeOK
  <2>2. [s_clients[worker.slot] EXCEPT !.mac = Torn] \in AccessEntry
    BY <1>1 DEF AccessEntry
  <2>3. s_clients' \in [Slot -> AccessEntry]
    BY <1>1, <1>6, <2>2 DEF StoreHalf
  <2> QED BY <1>6, <2>1, <2>3 DEF StoreHalf, AccessTypeOK
<1>7. CASE StoreRest
  <2>1. service = "up" /\ worker.mac \in Mac
    BY <1>7 DEF StoreRest, AccessTypeOK
  <2>2. [s_clients[worker.slot] EXCEPT !.mac = worker.mac] \in AccessEntry
    BY <1>1, <2>1 DEF AccessEntry
  <2>3. s_clients' \in [Slot -> AccessEntry]
    BY <1>1, <1>7, <2>2 DEF StoreRest
  <2> QED BY <1>7, <2>1, <2>3, SlotsOfTable DEF StoreRest, AccessTypeOK, IdleWorker
<1>8. ASSUME NEW t \in Reader, NEW r \in Shape, Moved(t, r),
             r.at = "copy" => r.slot \in Slot,
             service = "down" => t # Heartbeat
      PROVE  AccessTypeOK'
  <2>1. /\ reader' \in [Reader -> Shape] /\ reader'[t] = r
        /\ \A u \in Reader : u # t => reader'[u] = reader[u]
    BY <1>1, <1>8, MovedReader
  <2> QED BY <1>2, <1>8, <2>1 DEF AccessTypeOK, Moved
<1>9. ASSUME NEW t \in Reader, Begin(t)
      PROVE  AccessTypeOK'
  <2>1. service # "down"
    BY <1>1, <1>9 DEF Begin
  <2> QED BY <1>8, <1>9, <2>1, BeginMoves
<1>10. ASSUME NEW t \in Reader, TestUsed(t) \/ Copy(t) \/ Send(t)
       PROVE  AccessTypeOK'
  <2>1. service = "down" => t # Heartbeat
    <3>1. reader[t].at \in {"test", "copy", "send"}
      BY <1>10 DEF TestUsed, Copy, Send
    <3> QED BY <3>1 DEF AccessTypeOK, IdleReader
  <2>2. CASE TestUsed(t)
    BY <1>8, <2>1, <2>2, TestUsedMoves, SlotsOfTable
  <2>3. CASE Copy(t)
    BY <1>8, <2>1, <2>3, CopyMoves
  <2>4. CASE Send(t)
    BY <1>8, <2>1, <2>4, SendMoves DEF IdleReader
  <2> QED BY <1>10, <2>2, <2>3, <2>4
<1>12. CASE Start
  <2>1. Cleared \in [Slot -> AccessEntry]
    BY DEF Cleared, AccessEntry
  <2> QED BY <1>12, <2>1 DEF Start, ProtocolInit, AccessTypeOK
<1>13. CASE StopWorker
  BY <1>13, SlotsOfTable DEF StopWorker, AccessTypeOK, IdleWorker
<1>14. CASE FinishStop
  <2>1. Cleared \in [Slot -> AccessEntry]
    BY DEF Cleared, AccessEntry
  <2>2. /\ reader' \in [Reader -> Shape] /\ reader'[Heartbeat] = IdleReader
        /\ \A t \in Reader : reader'[t].at = "copy" => reader'[t].slot \in Slot
    BY <1>1, <1>14, StoppedReaders DEF AccessTypeOK, IdleReader
  <2>3. /\ s_initialized' = FALSE /\ s_clients' = Cleared /\ service' = "down" /\ aborted' = FALSE
        /\ worker' = worker /\ service = "halted"
    BY <1>14 DEF FinishStop, ProtocolDeinit
  <2>4. Cleared' = Cleared /\ IdleReader' = IdleReader
    BY DEF Cleared, Slot, IdleReader
  <2> QED BY <2>1, <2>2, <2>3, <2>4 DEF AccessTypeOK
<1>11. CASE Restart
  BY <1>11 DEF Restart, AccessTypeOK
<1>15. CASE UNCHANGED accessVars
  BY <1>15 DEF accessVars, AccessTypeOK, Cleared, IdleReader
<1> QED BY <1>4, <1>5, <1>6, <1>7, <1>9, <1>10, <1>11, <1>12, <1>13, <1>14, <1>15
           DEF AccessNext

-----------------------------------------------------------------------------
(* The stores. *)

\* The first store: a free slot is taken by a satellite that has none, for a foot
\* nobody has.
LEMMA StoreUsedTakes ==
  ASSUME AccessTypeOK, StoresOK, NEW m \in Mac, NEW r \in Role,
         RegisterError(m, r) = "ESP_OK", StoreUsed(m, r)
  PROVE  /\ worker'.slot \in Slot \ Used
         /\ Used' = Used \cup {worker'.slot}
         /\ \A j \in Slot \ {worker'.slot} : s_clients'[j] = s_clients[j]
         /\ s_clients'[worker'.slot].mac = ZeroMac
         /\ s_clients'[worker'.slot].role = Unknown
         /\ worker'.at = "role" /\ worker'.mac = m /\ worker'.role = r
         /\ \A i \in Used : s_clients[i].role # r /\ s_clients[i].mac # m
<1> DEFINE f == FindFreeClient
<1>1. /\ worker' = [at |-> "role", slot |-> f, mac |-> m, role |-> r]
      /\ s_clients' = [s_clients EXCEPT ![f].used = TRUE]
      /\ ~Known(m)
  BY DEF StoreUsed
<1>2. f \in Slot \ Used /\ \A i \in Used : s_clients[i].role # r /\ s_clients[i].mac # m
  BY <1>1, Accepted
<1>3. s_clients[f] = Cleared[f]
  BY <1>2 DEF StoresOK, EntriesOK, Used
<1>4. s_clients[f].mac = ZeroMac /\ s_clients[f].role = Unknown
  BY <1>2, <1>3 DEF Cleared
<1> HIDE DEF f
<1>5. /\ \A j \in Slot \ {f} : s_clients'[j] = s_clients[j]
      /\ Used' = Used \cup {f}
      /\ s_clients'[f].mac = s_clients[f].mac /\ s_clients'[f].role = s_clients[f].role
  BY <1>1, <1>2, StoreField DEF AccessTypeOK
<1> QED BY <1>1, <1>2, <1>4, <1>5

\* A known satellite gets a foot that is its own already or nobody's.
LEMMA UpdateRoleMoves ==
  ASSUME AccessTypeOK, NEW m \in Mac, NEW r \in Role,
         RegisterError(m, r) = "ESP_OK", UpdateRole(m, r)
  PROVE  \E f \in Used :
           /\ s_clients[f].mac = m
           /\ Used' = Used
           /\ \A j \in Slot \ {f} : s_clients'[j] = s_clients[j]
           /\ s_clients'[f].used /\ s_clients'[f].mac = m /\ s_clients'[f].role = r
           /\ \/ s_clients[f].role = r
              \/ \A i \in Used \ {f} : s_clients[i].role # r
<1> DEFINE f == FindClient(m)
           e == [used |-> TRUE, mac |-> m, role |-> r]
<1>1. Known(m) /\ s_clients' = [s_clients EXCEPT ![f] = e]
  BY DEF UpdateRole, Registered, SlotFor
<1>2. /\ f \in Used /\ s_clients[f].mac = m
      /\ \/ s_clients[f].role = r
         \/ \A i \in Used \ {f} : s_clients[i].role # r
  BY <1>1, Accepted
<1>3. f \in Slot /\ e \in AccessEntry /\ e.used
  BY <1>2 DEF Used, AccessEntry
<1>4. e.mac = m /\ e.role = r
  OBVIOUS
<1> HIDE DEF f, e
<1>5. /\ s_clients'[f] = e
      /\ \A j \in Slot \ {f} : s_clients'[j] = s_clients[j]
      /\ Used' = Used \cup {f}
  BY <1>1, <1>3, StoreEntry DEF AccessTypeOK
<1> QED BY <1>2, <1>3, <1>4, <1>5

\* The later stores write the worker's slot only.
LEMMA WorkerStores ==
  ASSUME AccessTypeOK, StoresOK, StoreRole \/ StoreHalf \/ StoreRest
  PROVE  /\ Busy /\ worker.slot \in Used /\ worker.mac \in Mac /\ worker.role \in Role
         /\ Used' = Used
         /\ \A j \in Slot \ {worker.slot} : s_clients'[j] = s_clients[j]
         /\ StoreRole => /\ s_clients'[worker.slot].mac = s_clients[worker.slot].mac
                         /\ s_clients'[worker.slot].role = worker.role
         /\ StoreHalf => /\ s_clients'[worker.slot].mac = Torn
                         /\ s_clients'[worker.slot].role = s_clients[worker.slot].role
         /\ StoreRest => /\ s_clients'[worker.slot].mac = worker.mac
                         /\ s_clients'[worker.slot].role = s_clients[worker.slot].role
<1>1. Busy
  BY DEF StoreRole, StoreHalf, StoreRest, Busy
<1>2. /\ worker.slot \in Used /\ worker.slot \in Slot /\ s_clients[worker.slot].used
      /\ worker.mac \in Mac /\ worker.role \in Role
      /\ s_clients \in [Slot -> AccessEntry]
  BY <1>1 DEF StoresOK, WorkerOK, Busy, AccessTypeOK, Used
<1>3. CASE StoreRole
  <2>1. s_clients' = [s_clients EXCEPT ![worker.slot].role = worker.role]
    BY <1>3 DEF StoreRole
  <2>2. worker.at = "role"
    BY <1>3 DEF StoreRole
  <2>3. /\ \A j \in Slot \ {worker.slot} : s_clients'[j] = s_clients[j]
        /\ Used' = Used \cup {worker.slot}
        /\ s_clients'[worker.slot].mac = s_clients[worker.slot].mac
        /\ s_clients'[worker.slot].role = worker.role
    BY <1>2, <2>1, StoreField
  <2>4. Used' = Used
    BY <1>2, <2>3
  <2>5. ~StoreHalf /\ ~StoreRest
    BY <2>2 DEF StoreHalf, StoreRest
  <2> QED BY <1>1, <1>2, <2>3, <2>4, <2>5
<1>4. CASE StoreHalf
  <2>1. s_clients' = [s_clients EXCEPT ![worker.slot].mac = Torn]
    BY <1>4 DEF StoreHalf
  <2>2. worker.at = "mac"
    BY <1>4 DEF StoreHalf
  <2>3. /\ \A j \in Slot \ {worker.slot} : s_clients'[j] = s_clients[j]
        /\ Used' = Used \cup {worker.slot}
        /\ s_clients'[worker.slot].mac = Torn
        /\ s_clients'[worker.slot].role = s_clients[worker.slot].role
    BY <1>2, <2>1, StoreField
  <2>4. Used' = Used
    BY <1>2, <2>3
  <2>5. ~StoreRole /\ ~StoreRest
    BY <2>2 DEF StoreRole, StoreRest
  <2> QED BY <1>1, <1>2, <2>3, <2>4, <2>5
<1>5. CASE StoreRest
  <2>1. s_clients' = [s_clients EXCEPT ![worker.slot].mac = worker.mac]
    BY <1>5 DEF StoreRest
  <2>2. worker.at = "rest"
    BY <1>5 DEF StoreRest
  <2>3. /\ \A j \in Slot \ {worker.slot} : s_clients'[j] = s_clients[j]
        /\ Used' = Used \cup {worker.slot}
        /\ s_clients'[worker.slot].mac = worker.mac
        /\ s_clients'[worker.slot].role = s_clients[worker.slot].role
    BY <1>2, <2>1, StoreField
  <2>4. Used' = Used
    BY <1>2, <2>3
  <2>5. ~StoreRole /\ ~StoreHalf
    BY <2>2 DEF StoreRole, StoreHalf
  <2> QED BY <1>1, <1>2, <2>3, <2>4, <2>5
<1> QED BY <1>3, <1>4, <1>5

\* Whatever leaves the table, the worker's place and the history of aborted
\* workers alone keeps StoresOK.
LEMMA StoresStutter ==
  ASSUME StoresOK, UNCHANGED <<s_clients, worker, aborted>>
  PROVE  StoresOK'
BY DEF StoresOK, EntriesOK, WorkerOK, GhostsOK, Busy, Used, Cleared, Slot

LEMMA ClearedStores ==
  ASSUME s_clients' = Cleared, worker'.at = "idle"
  PROVE  StoresOK'
<1>1. Used' = {} /\ Cleared' = Cleared
  BY DEF Used, Cleared, Slot
<1> QED BY <1>1 DEF StoresOK, EntriesOK, WorkerOK, GhostsOK, Busy

LEMMA DiscoverStores ==
  ASSUME AccessTypeOK, StoresOK, NEW m \in Mac, NEW req, Discover(m, req)
  PROVE  StoresOK'
<1> USE DEF StoresOK
<1>1. ~Busy /\ aborted' = aborted
  BY DEF Discover, Busy
<1>2. CASE UNCHANGED <<s_clients, worker, reader>>
  BY <1>1, <1>2, StoresStutter
<1>3. ASSUME NEW r \in Role, RegisterError(m, r) = "ESP_OK", StoreUsed(m, r)
      PROVE  StoresOK'
  <2> DEFINE f == worker'.slot
  <2>1. /\ f \in Slot \ Used /\ Used' = Used \cup {f}
        /\ \A j \in Slot \ {f} : s_clients'[j] = s_clients[j]
        /\ s_clients'[f].mac = ZeroMac /\ s_clients'[f].role = Unknown
        /\ worker'.at = "role" /\ worker'.mac = m /\ worker'.role = r
        /\ \A i \in Used : s_clients[i].role # r /\ s_clients[i].mac # m
    BY <1>3, StoreUsedTakes
  <2> HIDE DEF f
  <2>2. /\ Used \subseteq Slot \ {f} /\ ZeroMac \notin Mac /\ Unknown \notin Role
        /\ ZeroMac # m
    BY <2>1, MacAssumption DEF Used, Unknown, Role, Left, Right
  <2>3. EntriesOK'
    <3>1. \A i \in Slot : ~s_clients'[i].used => i # f /\ ~s_clients[i].used
      BY <2>1 DEF Used
    <3>2. \A i \in Slot : ~s_clients'[i].used => s_clients'[i] = Cleared[i]
      BY <2>1, <3>1 DEF EntriesOK
    <3>3. \A i \in Used' : s_clients'[i].mac \in Mac => s_clients'[i].role \in Role
      BY <2>1, <2>2 DEF EntriesOK
    <3>4. \A i, j \in Used' : s_clients'[i].role \in Role /\ s_clients'[i].role = s_clients'[j].role => i = j
      BY <2>1, <2>2 DEF EntriesOK
    <3>5. \A i, j \in Used' : s_clients'[i].mac \in Mac /\ s_clients'[i].mac = s_clients'[j].mac => i = j
      BY <2>1, <2>2 DEF EntriesOK
    <3> QED BY <3>2, <3>3, <3>4, <3>5 DEF EntriesOK, Cleared, Slot
  <2>4. WorkerOK'
    BY <2>1, <2>2 DEF WorkerOK, Busy, f
  <2>5. GhostsOK'
    BY <1>1, <2>1, <2>2 DEF GhostsOK, Busy, f
  <2> QED BY <2>3, <2>4, <2>5
<1>4. ASSUME NEW r \in Role, RegisterError(m, r) = "ESP_OK", UpdateRole(m, r)
      PROVE  StoresOK'
  <2>1. PICK f \in Used :
           /\ s_clients[f].mac = m
           /\ Used' = Used
           /\ \A j \in Slot \ {f} : s_clients'[j] = s_clients[j]
           /\ s_clients'[f].used /\ s_clients'[f].mac = m /\ s_clients'[f].role = r
           /\ \/ s_clients[f].role = r
              \/ \A i \in Used \ {f} : s_clients[i].role # r
    BY <1>4, UpdateRoleMoves
  <2>2. Used \subseteq Slot /\ worker' = worker
    BY <1>4 DEF Used, UpdateRole
  <2>3. \A i \in Used \ {f} : s_clients[i].role # r
    BY <2>1 DEF EntriesOK
  <2>4. EntriesOK'
    <3>1. \A i \in Slot : ~s_clients'[i].used => i # f /\ ~s_clients[i].used
      BY <2>1, <2>2 DEF Used
    <3>2. \A i \in Slot : ~s_clients'[i].used => s_clients'[i] = Cleared[i]
      BY <2>1, <3>1 DEF EntriesOK
    <3>3. \A i \in Used' : s_clients'[i].mac \in Mac => s_clients'[i].role \in Role
      BY <2>1, <2>2 DEF EntriesOK
    <3>4. \A i, j \in Used' : s_clients'[i].role \in Role /\ s_clients'[i].role = s_clients'[j].role => i = j
      BY <2>1, <2>2, <2>3 DEF EntriesOK
    <3>5. \A i, j \in Used' : s_clients'[i].mac \in Mac /\ s_clients'[i].mac = s_clients'[j].mac => i = j
      BY <2>1, <2>2 DEF EntriesOK
    <3> QED BY <3>2, <3>3, <3>4, <3>5 DEF EntriesOK, Cleared, Slot
  <2>5. WorkerOK' /\ GhostsOK'
    BY <1>1, <2>1, <2>2 DEF WorkerOK, GhostsOK, Busy
  <2> QED BY <2>4, <2>5
<1> QED BY <1>2, <1>3, <1>4, DiscoverCases

LEMMA LaterStores ==
  ASSUME AccessTypeOK, StoresOK, StoreRole \/ StoreHalf \/ StoreRest
  PROVE  StoresOK'
<1> USE DEF StoresOK
<1> DEFINE f == worker.slot
<1>1. /\ Busy /\ f \in Used /\ worker.mac \in Mac /\ worker.role \in Role
      /\ Used' = Used
      /\ \A j \in Slot \ {f} : s_clients'[j] = s_clients[j]
      /\ StoreRole => s_clients'[f].mac = s_clients[f].mac /\ s_clients'[f].role = worker.role
      /\ StoreHalf => s_clients'[f].mac = Torn /\ s_clients'[f].role = s_clients[f].role
      /\ StoreRest => s_clients'[f].mac = worker.mac /\ s_clients'[f].role = s_clients[f].role
  BY WorkerStores
<1>2. /\ s_clients[f].mac \notin Mac
      /\ s_clients[f].role = IF worker.at = "role" THEN Unknown ELSE worker.role
      /\ \A i \in Used : s_clients[i].mac # worker.mac
      /\ \A i \in Used \ {f} : s_clients[i].role # worker.role
  BY <1>1 DEF WorkerOK
<1>3. Used \subseteq Slot /\ aborted' = aborted /\ Torn \notin Mac /\ Unknown \notin Role
  BY TornAssumption DEF Used, StoreRole, StoreHalf, StoreRest, Unknown, Role, Left, Right
<1>4. /\ StoreRole => /\ worker'.at = "mac" /\ worker'.slot = f
                      /\ worker'.mac = worker.mac /\ worker'.role = worker.role
      /\ StoreHalf => /\ worker'.at = "rest" /\ worker'.slot = f /\ worker.at = "mac"
                      /\ worker'.mac = worker.mac /\ worker'.role = worker.role
      /\ StoreRest => worker'.at = "idle" /\ worker.at = "rest"
  BY DEF StoreRole, StoreHalf, StoreRest, IdleWorker, AccessTypeOK
<1> HIDE DEF f
<1>5. /\ s_clients'[f].mac = worker.mac \/ s_clients'[f].mac \notin Mac
      /\ s_clients'[f].role = worker.role
  BY <1>1, <1>2, <1>3, <1>4
<1>6. EntriesOK'
  <2>1. \A i \in Slot : ~s_clients'[i].used => i # f /\ ~s_clients[i].used
    BY <1>1, <1>3 DEF Used
  <2>2. \A i \in Slot : ~s_clients'[i].used => s_clients'[i] = Cleared[i]
    BY <1>1, <2>1 DEF EntriesOK
  <2>3. \A i \in Used' : s_clients'[i].mac \in Mac => s_clients'[i].role \in Role
    BY <1>1, <1>3, <1>5 DEF EntriesOK
  <2>4. \A i, j \in Used' : s_clients'[i].role \in Role /\ s_clients'[i].role = s_clients'[j].role => i = j
    BY <1>1, <1>2, <1>3, <1>5 DEF EntriesOK
  <2>5. \A i, j \in Used' : s_clients'[i].mac \in Mac /\ s_clients'[i].mac = s_clients'[j].mac => i = j
    BY <1>1, <1>2, <1>3, <1>5 DEF EntriesOK
  <2> QED BY <2>2, <2>3, <2>4, <2>5 DEF EntriesOK, Cleared, Slot
<1>7. WorkerOK'
  <2>1. CASE StoreRole \/ StoreHalf
    BY <1>1, <1>2, <1>3, <1>4, <1>5, <2>1 DEF WorkerOK, Busy
  <2>2. CASE StoreRest
    BY <1>4, <2>2 DEF WorkerOK, Busy
  <2> QED BY <2>1, <2>2
<1>8. GhostsOK'
  <2>1. CASE StoreRole \/ StoreHalf
    BY <1>1, <1>3, <1>4, <2>1 DEF GhostsOK, Busy, f
  <2>2. CASE StoreRest
    BY <1>1, <1>3, <1>4, <2>2 DEF GhostsOK, Busy, f
  <2> QED BY <2>1, <2>2
<1> QED BY <1>6, <1>7, <1>8

LEMMA StopWorkerStores ==
  ASSUME AccessTypeOK, StoresOK, StopWorker
  PROVE  StoresOK'
<1>1. /\ s_clients' = s_clients /\ worker'.at = "idle"
      /\ aborted' <=> aborted \/ Busy
  BY DEF StopWorker, IdleWorker, Busy, AccessTypeOK
<1> QED BY <1>1 DEF StoresOK, EntriesOK, WorkerOK, GhostsOK, Busy, Used, Cleared, Slot

LEMMA StoresStep ==
  AccessTypeOK /\ StoresOK /\ [AccessNext]_accessVars => StoresOK'
<1> SUFFICES ASSUME AccessTypeOK, StoresOK, [AccessNext]_accessVars
             PROVE  StoresOK'
  OBVIOUS
<1>1. ASSUME NEW m \in Mac, NEW req, Discover(m, req)
      PROVE  StoresOK'
  BY <1>1, DiscoverStores
<1>2. CASE StoreRole \/ StoreHalf \/ StoreRest
  BY <1>2, LaterStores
<1>3. ASSUME NEW t \in Reader, Begin(t) \/ TestUsed(t) \/ Copy(t) \/ Send(t)
      PROVE  StoresOK'
  BY <1>3, StoresStutter DEF Begin, TestUsed, Copy, Send, Moved
<1>4. CASE Start \/ FinishStop
  <2>1. worker' = worker /\ worker.at = "idle"
    BY <1>4 DEF Start, FinishStop, AccessTypeOK
  <2> QED BY <1>4, <2>1, ClearedStores DEF Start, FinishStop, ProtocolInit, ProtocolDeinit
<1>5. CASE StopWorker
  BY <1>5, StopWorkerStores
<1>6. CASE Restart
  BY <1>6, StoresStutter DEF Restart
<1>7. CASE UNCHANGED accessVars
  BY <1>7, StoresStutter DEF accessVars
<1> QED BY <1>1, <1>2, <1>3, <1>4, <1>5, <1>6, <1>7 DEF AccessNext

-----------------------------------------------------------------------------
(* The readers. *)

\* Where a task is with its copy: whoever it owes a message is in the copy
\* already or in a slot it has yet to come to, and what it has copied names a
\* satellite of the table, or has an excuse.
ReaderOK(t) ==
  LET r == reader[t]
  IN /\ r.at = "idle" => r.targets = {} /\ r.due = {}
     /\ r.at = "send" => r.due \subseteq r.targets
     /\ r.at \in {"test", "copy"} =>
          \A a \in r.due : a \in r.targets \/ \E i \in Used : i >= r.slot /\ s_clients[i].mac = a
     /\ r.at = "copy" => r.slot \in Used \/ r.cleared
     /\ Busy /\ r.at \in {"test", "copy"} => r.crossed
     /\ \A a \in r.targets :
          \/ a \in Mac /\ Known(a)
          \/ r.cleared
          \/ a \notin Mac /\ (r.crossed \/ Ghosts # {})

\* A slot without an address is the worker's or a ghost.
LEMMA GhostsHaveNoMac ==
  ASSUME EntriesOK, EntriesOK'
  PROVE  /\ Ghosts = {i \in Used : s_clients[i].mac \notin Mac /\ (Busy => worker.slot # i)}
         /\ Ghosts' = {i \in Used' : s_clients'[i].mac \notin Mac /\ (Busy' => worker'.slot # i)}
<1>1. \A i \in Used : Complete(i) <=> s_clients[i].mac \in Mac
  BY DEF EntriesOK, Complete
<1>2. \A i \in Used' : Complete(i)' <=> s_clients'[i].mac \in Mac
  BY DEF EntriesOK, Complete
<1> QED BY <1>1, <1>2 DEF Ghosts, Busy

\* What every step does to the table but the last one of a stop: slots stay in
\* use, addresses of satellites stay where they are, and ghosts do not leave.
Grows ==
  /\ Used \subseteq Used'
  /\ \A i \in Used : s_clients[i].mac \in Mac => s_clients'[i].mac = s_clients[i].mac
  /\ Ghosts # {} => Ghosts' # {}

\* A reader that stays where it is while the table grows.
LEMMA ReaderKept ==
  ASSUME NEW t \in Reader, reader[t] \in Shape, ReaderOK(t), Grows,
         reader'[t].at = reader[t].at, reader'[t].slot = reader[t].slot,
         reader'[t].targets = reader[t].targets, reader'[t].due = reader[t].due,
         reader[t].crossed => reader'[t].crossed,
         reader[t].cleared => reader'[t].cleared,
         Busy' /\ reader[t].at \in {"test", "copy"} => reader'[t].crossed
  PROVE  ReaderOK(t)'
<1> DEFINE q == reader[t]
           r == reader'[t]
<1>1. r.at \in {"test", "copy"} =>
        \A a \in r.due : a \in r.targets \/ \E i \in Used' : i >= r.slot /\ s_clients'[i].mac = a
  <2> SUFFICES ASSUME r.at \in {"test", "copy"}, NEW a \in r.due, a \notin r.targets
               PROVE  \E i \in Used' : i >= r.slot /\ s_clients'[i].mac = a
    OBVIOUS
  <2>1. PICK i \in Used : i >= q.slot /\ s_clients[i].mac = a
    BY DEF ReaderOK
  <2>2. a \in Mac
    BY DEF Shape
  <2> QED BY <2>1, <2>2 DEF Grows
<1>2. \A a \in r.targets :
        \/ a \in Mac /\ Known(a)'
        \/ r.cleared
        \/ a \notin Mac /\ (r.crossed \/ Ghosts' # {})
  <2>1. \A a \in Mac : Known(a) => Known(a)'
    BY DEF Known, ClientSlots, Grows
  <2> QED BY <2>1 DEF ReaderOK, Grows
<1>3. /\ r.at = "idle" => r.targets = {} /\ r.due = {}
      /\ r.at = "send" => r.due \subseteq r.targets
      /\ r.at = "copy" => r.slot \in Used' \/ r.cleared
      /\ Busy' /\ r.at \in {"test", "copy"} => r.crossed
  BY DEF ReaderOK, Grows
<1> QED BY <1>1, <1>2, <1>3 DEF ReaderOK

LEMMA DiscoverGrows ==
  ASSUME AccessTypeOK, StoresOK, NEW m \in Mac, NEW req, Discover(m, req)
  PROVE  Grows
<1>1. ~Busy /\ EntriesOK /\ EntriesOK'
  BY DiscoverStores DEF Discover, Busy, StoresOK
<1>2. /\ Ghosts = {i \in Used : s_clients[i].mac \notin Mac /\ (Busy => worker.slot # i)}
      /\ Ghosts' = {i \in Used' : s_clients'[i].mac \notin Mac /\ (Busy' => worker'.slot # i)}
  BY <1>1, GhostsHaveNoMac
<1>3. CASE UNCHANGED <<s_clients, worker, reader>>
  BY <1>3 DEF Grows, Used, Ghosts, Complete
<1>4. ASSUME NEW r \in Role, RegisterError(m, r) = "ESP_OK", StoreUsed(m, r)
      PROVE  Grows
  <2> DEFINE f == worker'.slot
  <2>1. /\ f \in Slot \ Used /\ Used' = Used \cup {f}
        /\ \A j \in Slot \ {f} : s_clients'[j] = s_clients[j]
    BY <1>4, StoreUsedTakes
  <2>2. \A i \in Used : i # f /\ s_clients'[i] = s_clients[i]
    BY <2>1 DEF Used
  <2> QED BY <1>1, <1>2, <2>1, <2>2 DEF Grows
<1>5. ASSUME NEW r \in Role, RegisterError(m, r) = "ESP_OK", UpdateRole(m, r)
      PROVE  Grows
  <2>1. PICK f \in Used :
           /\ s_clients[f].mac = m
           /\ Used' = Used
           /\ \A j \in Slot \ {f} : s_clients'[j] = s_clients[j]
           /\ s_clients'[f].mac = m
    BY <1>5, UpdateRoleMoves
  <2>2. worker' = worker /\ Busy' = Busy
    BY <1>5 DEF UpdateRole, Busy
  <2>3. \A i \in Used : s_clients'[i].mac = s_clients[i].mac
    BY <2>1 DEF Used
  <2> QED BY <1>1, <1>2, <2>1, <2>2, <2>3 DEF Grows
<1> QED BY <1>3, <1>4, <1>5, DiscoverCases

LEMMA LaterGrows ==
  ASSUME AccessTypeOK, StoresOK, StoreRole \/ StoreHalf \/ StoreRest
  PROVE  Grows
<1> DEFINE f == worker.slot
<1>1. /\ Busy /\ f \in Used /\ Used' = Used
      /\ \A j \in Slot \ {f} : s_clients'[j] = s_clients[j]
  BY WorkerStores
<1>2. EntriesOK /\ EntriesOK' /\ s_clients[f].mac \notin Mac
  BY <1>1, LaterStores DEF StoresOK, WorkerOK
<1>3. /\ Ghosts = {i \in Used : s_clients[i].mac \notin Mac /\ (Busy => f # i)}
      /\ Ghosts' = {i \in Used' : s_clients'[i].mac \notin Mac /\ (Busy' => worker'.slot # i)}
  BY <1>2, GhostsHaveNoMac
<1>4. Busy' => worker'.slot = f
  BY DEF StoreRole, StoreHalf, StoreRest, IdleWorker, Busy, AccessTypeOK
<1> HIDE DEF f
<1>5. \A i \in Used : i # f => s_clients'[i] = s_clients[i]
  BY <1>1 DEF Used
<1> QED BY <1>1, <1>2, <1>3, <1>4, <1>5 DEF Grows

LEMMA TableStays ==
  ASSUME UNCHANGED s_clients, worker'.at # "idle" => worker' = worker
  PROVE  Grows
<1>1. Used' = Used
  BY DEF Used
<1>2. Ghosts \subseteq Ghosts'
  BY <1>1 DEF Ghosts, Complete
<1> QED BY <1>1, <1>2 DEF Grows

\* A reader's own step.
LEMMA OwnStep ==
  ASSUME AccessTypeOK, StoresOK, NEW t \in Reader, ReaderOK(t),
         Begin(t) \/ TestUsed(t) \/ Copy(t) \/ Send(t)
  PROVE  ReaderOK(t)'
<1> DEFINE q == reader[t]
           r == reader'[t]
<1>1. q \in Shape /\ reader \in [Reader -> Shape]
  BY DEF AccessTypeOK, Shape
<1>2. UNCHANGED <<s_clients, worker>>
  BY DEF Begin, TestUsed, Copy, Send, Moved
<1>3. /\ Used' = Used /\ Ghosts' = Ghosts /\ Busy' = Busy
      /\ \A a : Known(a)' <=> Known(a)
  BY <1>2 DEF Used, Ghosts, Complete, Busy, Known, ClientSlots
<1>4. CASE Begin(t)
  <2>1. /\ r.at = "test" /\ r.slot = 0 /\ r.targets = {} /\ r.due = RegisteredNow
        /\ r.crossed <=> Busy
    BY <1>1, <1>4, BeginMoves, MovedReader
  <2>2. \A a \in RegisteredNow : \E i \in Used : i >= 0 /\ s_clients[i].mac = a
    <3>1. \A i \in Used : i >= 0
      BY MaxClientsAssumption DEF Used, Slot
    <3> QED BY <3>1 DEF RegisteredNow
  <2> QED BY <1>2, <1>3, <2>1, <2>2 DEF ReaderOK
<1>5. CASE TestUsed(t)
  <2>1. /\ q.at = "test"
        /\ r.targets = q.targets /\ r.due = q.due
        /\ (r.crossed <=> q.crossed) /\ (r.cleared <=> q.cleared)
        /\ \/ r.at = "send" /\ q.slot = MaxClients
           \/ r.at = "copy" /\ r.slot = q.slot /\ r.slot \in Used
           \/ r.at = "test" /\ r.slot = q.slot + 1 /\ q.slot \in Slot \ Used
    <3>1. q.at = "test"
      BY <1>5 DEF TestUsed
    <3>2. PICK e \in Shape :
             /\ Moved(t, e)
             /\ e.targets = q.targets /\ e.due = q.due
             /\ (e.crossed <=> q.crossed) /\ (e.cleared <=> q.cleared)
             /\ \/ e.at = "send" /\ q.slot = MaxClients
                \/ e.at = "copy" /\ e.slot = q.slot /\ e.slot \in Used
                \/ e.at = "test" /\ e.slot = q.slot + 1 /\ q.slot \in Slot \ Used
      BY <1>5, TestUsedMoves
    <3>3. r = e
      BY <1>1, <3>2, MovedReader
    <3> QED BY <3>1, <3>2, <3>3
  <2>2. \A a \in r.due : a \in r.targets \/ \E i \in Used : i >= q.slot /\ s_clients[i].mac = a
    BY <2>1 DEF ReaderOK
  <2>3. CASE r.at = "send" /\ q.slot = MaxClients
    <3>1. \A i \in Used : ~(i >= q.slot)
      BY <2>3, MaxClientsAssumption DEF Used, Slot
    <3> QED BY <1>2, <1>3, <2>1, <2>2, <2>3, <3>1 DEF ReaderOK
  <2>4. CASE r.at = "copy" /\ r.slot = q.slot /\ r.slot \in Used
    BY <1>2, <1>3, <2>1, <2>2, <2>4 DEF ReaderOK
  <2>5. CASE r.at = "test" /\ r.slot = q.slot + 1 /\ q.slot \in Slot \ Used
    <3>1. ASSUME NEW i \in Used, i >= q.slot
          PROVE  i >= q.slot + 1
      <4>1. i \in Slot /\ q.slot \in Slot /\ i # q.slot
        BY <2>5 DEF Used
      <4> QED BY <3>1, <4>1, MaxClientsAssumption DEF Slot
    <3> QED BY <1>2, <1>3, <2>1, <2>2, <2>5, <3>1 DEF ReaderOK
  <2> QED BY <2>1, <2>3, <2>4, <2>5
<1>6. CASE Copy(t)
  <2>1. /\ q.at = "copy" /\ q.slot \in Slot
        /\ r.at = "test" /\ r.slot = q.slot + 1 /\ r.due = q.due
        /\ r.targets = q.targets \cup {s_clients[q.slot].mac}
        /\ (r.crossed <=> q.crossed) /\ (r.cleared <=> q.cleared)
    BY <1>1, <1>6, CopyMoves, MovedReader
  <2>2. \A a \in r.due : a \in r.targets \/ \E i \in Used : i >= r.slot /\ s_clients[i].mac = a
    <3>1. \A i \in Used : i >= q.slot => i = q.slot \/ i >= q.slot + 1
      BY <2>1, SlotsOfTable
    <3> QED BY <2>1, <3>1 DEF ReaderOK
  <2>3. ASSUME ~q.cleared, s_clients[q.slot].mac \notin Mac
        PROVE  r.crossed \/ Ghosts # {}
    <3>1. q.slot \in Used /\ (Busy => q.crossed)
      BY <2>1, <2>3 DEF ReaderOK
    <3>2. ~Busy => q.slot \in Ghosts
      BY <2>3, <3>1 DEF Ghosts, Busy, Complete
    <3> QED BY <2>1, <3>1, <3>2
  <2>4. ASSUME ~q.cleared, s_clients[q.slot].mac \in Mac
        PROVE  Known(s_clients[q.slot].mac)
    BY <2>1, <2>4 DEF ReaderOK, Known, ClientSlots
  <2>5. \A a \in r.targets :
          \/ a \in Mac /\ Known(a)
          \/ r.cleared
          \/ a \notin Mac /\ (r.crossed \/ Ghosts # {})
    BY <2>1, <2>3, <2>4 DEF ReaderOK
  <2>6. Busy => r.crossed
    BY <2>1 DEF ReaderOK
  <2> QED BY <1>2, <1>3, <2>1, <2>2, <2>5, <2>6 DEF ReaderOK
<1>7. CASE Send(t)
  <2>1. /\ q.at = "send"
        /\ \/ r = IdleReader
           \/ /\ r.at = "send"
              /\ \E a : r.due = q.due \ {a} /\ r.targets = q.targets \ {a}
              /\ (r.crossed <=> q.crossed) /\ (r.cleared <=> q.cleared)
    <3>1. q.at = "send"
      BY <1>7 DEF Send
    <3>2. PICK e \in Shape :
             /\ Moved(t, e)
             /\ \/ e = IdleReader
                \/ /\ e.at = "send"
                   /\ \E a : e.due = q.due \ {a} /\ e.targets = q.targets \ {a}
                   /\ (e.crossed <=> q.crossed) /\ (e.cleared <=> q.cleared)
      BY <1>7, SendMoves
    <3>3. r = e
      BY <1>1, <3>2, MovedReader
    <3> QED BY <3>1, <3>2, <3>3
  <2>2. CASE r = IdleReader
    BY <2>2 DEF ReaderOK, IdleReader
  <2>3. CASE r.at = "send" /\ r # IdleReader
    BY <1>2, <1>3, <2>1, <2>3 DEF ReaderOK
  <2> QED BY <2>1, <2>2, <2>3
<1> QED BY <1>4, <1>5, <1>6, <1>7

LEMMA ReadersStep ==
  ASSUME AccessTypeOK, StoresOK, \A t \in Reader : ReaderOK(t), [AccessNext]_accessVars,
         NEW t \in Reader
  PROVE  ReaderOK(t)'
<1>1. reader \in [Reader -> Shape] /\ reader[t] \in Shape
  BY DEF AccessTypeOK, Shape
<1>2. ASSUME NEW m \in Mac, NEW req, Discover(m, req)
      PROVE  ReaderOK(t)'
  <2>1. Grows /\ ~Busy
    BY <1>2, DiscoverGrows DEF Discover, Busy
  <2>2. CASE UNCHANGED <<worker, reader>>
    BY <1>1, <2>1, <2>2, ReaderKept DEF Busy
  <2>3. CASE reader' = Crossed
    <3>1. /\ reader'[t].at = reader[t].at /\ reader'[t].slot = reader[t].slot
          /\ reader'[t].targets = reader[t].targets /\ reader'[t].due = reader[t].due
          /\ reader'[t].crossed <=> reader[t].crossed \/ t \in Scanning
          /\ reader'[t].cleared <=> reader[t].cleared
      BY <1>1, <2>3, CrossedReaders
    <3>2. reader[t].at \in {"test", "copy"} => t \in Scanning
      BY DEF Scanning
    <3> QED BY <1>1, <2>1, <3>1, <3>2, ReaderKept
  <2>4. \/ UNCHANGED <<worker, reader>>
        \/ reader' = Crossed
    BY <1>2 DEF Discover, StoreUsed, UpdateRole
  <2> QED BY <2>2, <2>3, <2>4
<1>3. CASE StoreRole \/ StoreHalf \/ StoreRest
  <2>1. Grows /\ Busy
    BY <1>3, LaterGrows, WorkerStores
  <2>2. reader' = reader
    BY <1>3 DEF StoreRole, StoreHalf, StoreRest
  <2>3. reader[t].at \in {"test", "copy"} => reader[t].crossed
    BY <2>1 DEF ReaderOK
  <2> QED BY <1>1, <2>1, <2>2, <2>3, ReaderKept
<1>4. ASSUME NEW u \in Reader, Begin(u) \/ TestUsed(u) \/ Copy(u) \/ Send(u)
      PROVE  ReaderOK(t)'
  <2>1. CASE u = t
    BY <1>4, <2>1, OwnStep
  <2>2. CASE u # t
    <3>1. UNCHANGED <<s_clients, worker>> /\ reader'[t] = reader[t]
      BY <1>1, <1>4, <2>2 DEF Begin, TestUsed, Copy, Send, Moved
    <3>2. Grows /\ (Busy' <=> Busy)
      BY <3>1, TableStays DEF Busy
    <3>3. Busy /\ reader[t].at \in {"test", "copy"} => reader[t].crossed
      BY DEF ReaderOK
    <3> QED BY <1>1, <3>1, <3>2, <3>3, ReaderKept
  <2> QED BY <2>1, <2>2
<1>5. CASE Start \/ StopWorker \/ Restart \/ UNCHANGED accessVars
  <2>1. s_clients' = s_clients /\ reader' = reader /\ (worker' = worker \/ worker'.at = "idle")
    <3>1. CASE Start
      <4>1. s_clients = Cleared
        BY <3>1 DEF Start, AccessTypeOK
      <4> QED BY <3>1, <4>1 DEF Start, ProtocolInit
    <3> QED BY <1>5, <3>1 DEF StopWorker, Restart, accessVars, IdleWorker
  <2>2. Grows /\ (Busy' => Busy)
    BY <2>1, TableStays DEF Busy
  <2>3. Busy /\ reader[t].at \in {"test", "copy"} => reader[t].crossed
    BY DEF ReaderOK
  <2> QED BY <1>1, <2>1, <2>2, <2>3, ReaderKept
<1>6. CASE FinishStop
  <2>1. worker'.at = "idle"
    BY <1>6 DEF FinishStop, AccessTypeOK
  <2>2. \/ reader'[t] = IdleReader
        \/ reader'[t].at # "idle" /\ reader'[t].due = {} /\ reader'[t].cleared
    BY <1>1, <1>6, StoppedReaders
  <2> QED BY <2>1, <2>2 DEF ReaderOK, IdleReader, Busy
<1> QED BY <1>2, <1>3, <1>4, <1>5, <1>6 DEF AccessNext

-----------------------------------------------------------------------------
(* The invariant, and what follows from it. *)

AccessInv == AccessTypeOK /\ StoresOK /\ \A t \in Reader : ReaderOK(t)

LEMMA AccessInvInit == AccessInit => AccessInv
<1> SUFFICES ASSUME AccessInit
             PROVE  AccessInv
  OBVIOUS
<1>1. /\ s_initialized = FALSE /\ s_clients = Cleared /\ service = "down"
      /\ worker = IdleWorker /\ aborted = FALSE
      /\ reader = [t \in Reader |-> IdleReader]
  BY DEF AccessInit, TableInit
<1>2. Used = {}
  BY <1>1 DEF Used, Cleared
<1>3. \A t \in Reader : reader[t] = IdleReader
  BY <1>1
<1>4. StoresOK
  BY <1>1, <1>2 DEF StoresOK, EntriesOK, WorkerOK, GhostsOK, Busy, IdleWorker
<1>5. \A t \in Reader : ReaderOK(t)
  BY <1>1, <1>3 DEF ReaderOK, IdleReader, Busy, IdleWorker
<1>6. AccessTypeOK
  <2>1. Cleared \in [Slot -> AccessEntry]
    BY DEF Cleared, AccessEntry
  <2>2. reader \in [Reader -> Shape]
    BY <1>1, IdleShape
  <2>3. IdleWorker \in [at : {"idle", "role", "mac", "rest"}, slot : Slot,
                        mac : Mac \cup {ZeroMac}, role : Role \cup {Unknown}]
    BY SlotsOfTable DEF IdleWorker
  <2>4. Heartbeat \in Reader
    BY DEF Reader
  <2> QED BY <1>1, <1>3, <2>1, <2>2, <2>3, <2>4 DEF AccessTypeOK, IdleReader, IdleWorker, Shape
<1> QED BY <1>4, <1>5, <1>6 DEF AccessInv

LEMMA AccessInvAlways == AccessSpec => []AccessInv
<1>1. AccessInv /\ [AccessNext]_accessVars => AccessInv'
  BY TypesStep, StoresStep, ReadersStep DEF AccessInv, Reader
<1> QED BY <1>1, AccessInvInit, PTL DEF AccessSpec

\* Types of the table, of the worker and of the tasks that read, and how they go
\* together with the start and the stop of the server.
THEOREM AccessTypeCorrect == AccessSpec => []AccessTypeOK
<1>1. AccessInv => AccessTypeOK
  BY DEF AccessInv
<1> QED BY <1>1, AccessInvAlways, PTL

\* However the copying of the table is interleaved with registrations: a task
\* that sends a broadcast has everyone in its copy who was registered when it
\* began.
THEOREM AccessForgetsNobody == AccessSpec => []NobodyForgotten
<1>1. AccessInv => NobodyForgotten
  BY DEF AccessInv, ReaderOK, NobodyForgotten
<1> QED BY <1>1, AccessInvAlways, PTL

\* A broadcast goes to satellites of the table, with the exceptions the property
\* lists, and slots are left half-written by deleted workers only.
THEOREM AccessSendsToClients == AccessSpec => []SendsOnlyToClients
<1>1. AccessInv => SendsOnlyToClients
  <2> SUFFICES ASSUME AccessInv
               PROVE  SendsOnlyToClients
    OBVIOUS
  <2>1. Ghosts # {} => aborted
    BY DEF AccessInv, StoresOK, EntriesOK, GhostsOK, Ghosts, Complete, Busy
  <2> QED BY <2>1 DEF AccessInv, ReaderOK, SendsOnlyToClients
<1> QED BY <1>1, AccessInvAlways, PTL

-----------------------------------------------------------------------------
(* The registry. *)

LEMMA PairsOfEntries ==
  ASSUME EntriesOK, EntriesOK'
  PROVE  /\ \A p : p \in CompletePairs <=>
                     \E i \in Used : s_clients[i].mac \in Mac /\ p = <<s_clients[i].mac, s_clients[i].role>>
         /\ \A p : p \in CompletePairs' <=>
                     \E i \in Used' : s_clients'[i].mac \in Mac /\ p = <<s_clients'[i].mac, s_clients'[i].role>>
<1>1. \A i \in Used : Complete(i) <=> s_clients[i].mac \in Mac
  BY DEF EntriesOK, Complete
<1>2. \A i \in Used' : Complete(i)' <=> s_clients'[i].mac \in Mac
  BY DEF EntriesOK, Complete
<1> QED BY <1>1, <1>2 DEF CompletePairs

\* A store that gives a slot its address, or a known slot its foot, is a grant.
LEMMA StoreIsGrant ==
  ASSUME EntriesOK, EntriesOK', NEW m \in Mac, NEW r \in Role, NEW f \in Used,
         s_initialized, s_initialized' = s_initialized, Used' = Used,
         \A j \in Slot \ {f} : s_clients'[j] = s_clients[j],
         s_clients'[f].mac = m, s_clients'[f].role = r,
         s_clients[f].mac \notin Mac \/ s_clients[f].mac = m,
         \A i \in Used \ {f} : s_clients[i].role # r /\ s_clients[i].mac # m
  PROVE  AccessRegistry!Grant(m, r)
<1>1. /\ \A p : p \in CompletePairs <=>
                  \E i \in Used : s_clients[i].mac \in Mac /\ p = <<s_clients[i].mac, s_clients[i].role>>
      /\ \A p : p \in CompletePairs' <=>
                  \E i \in Used' : s_clients'[i].mac \in Mac /\ p = <<s_clients'[i].mac, s_clients'[i].role>>
  BY PairsOfEntries
<1>2. \A i \in Used \ {f} : s_clients'[i] = s_clients[i]
  BY DEF Used
<1>3. \A p \in CompletePairs : p[2] = r => p[1] = m
  BY <1>1
<1>4. ASSUME NEW p \in CompletePairs'
      PROVE  p \in {q \in CompletePairs : q[1] # m} \cup {<<m, r>>}
  <2>1. PICK i \in Used : s_clients'[i].mac \in Mac /\ p = <<s_clients'[i].mac, s_clients'[i].role>>
    BY <1>1, <1>4
  <2>2. CASE i = f
    BY <2>1, <2>2
  <2>3. CASE i # f
    BY <1>1, <1>2, <2>1, <2>3
  <2> QED BY <2>2, <2>3
<1>5. ASSUME NEW p \in CompletePairs, p[1] # m
      PROVE  p \in CompletePairs'
  <2>1. PICK i \in Used : s_clients[i].mac \in Mac /\ p = <<s_clients[i].mac, s_clients[i].role>>
    BY <1>1, <1>5
  <2>2. i # f
    BY <1>5, <2>1
  <2> QED BY <1>1, <1>2, <2>1, <2>2
<1>6. <<m, r>> \in CompletePairs'
  BY <1>1
<1>7. CompletePairs' = {p \in CompletePairs : p[1] # m} \cup {<<m, r>>}
  BY <1>4, <1>5, <1>6
<1> QED BY <1>3, <1>7 DEF AccessRegistry!Grant

\* A store to a slot that has no address is none.
LEMMA StoreIsStutter ==
  ASSUME EntriesOK, EntriesOK', NEW f \in Slot,
         s_initialized' = s_initialized, Used' = Used \cup {f},
         \A j \in Slot \ {f} : s_clients'[j] = s_clients[j],
         f \notin Used \/ s_clients[f].mac \notin Mac,
         s_clients'[f].mac \notin Mac
  PROVE  UNCHANGED AccessRegistry!vars
<1>1. /\ \A p : p \in CompletePairs <=>
                  \E i \in Used : s_clients[i].mac \in Mac /\ p = <<s_clients[i].mac, s_clients[i].role>>
      /\ \A p : p \in CompletePairs' <=>
                  \E i \in Used' : s_clients'[i].mac \in Mac /\ p = <<s_clients'[i].mac, s_clients'[i].role>>
  BY PairsOfEntries
<1>2. \A i \in Used \ {f} : s_clients'[i] = s_clients[i]
  BY DEF Used
<1>3. \A p : p \in CompletePairs' <=> p \in CompletePairs
  BY <1>1, <1>2
<1> QED BY <1>3 DEF AccessRegistry!vars

LEMMA DiscoverIsGrant ==
  ASSUME AccessTypeOK, StoresOK, NEW m \in Mac, NEW req, Discover(m, req)
  PROVE  [AccessRegistry!Next]_(AccessRegistry!vars)
<1>1. EntriesOK /\ EntriesOK' /\ s_initialized' = s_initialized
  BY DiscoverStores DEF StoresOK, Discover
<1>2. CASE UNCHANGED <<s_clients, worker, reader>>
  BY <1>1, <1>2 DEF AccessRegistry!vars, CompletePairs, Complete, Used
<1>3. ASSUME NEW r \in Role, RegisterError(m, r) = "ESP_OK", StoreUsed(m, r)
      PROVE  UNCHANGED AccessRegistry!vars
  <2>1. /\ worker'.slot \in Slot \ Used /\ Used' = Used \cup {worker'.slot}
        /\ \A j \in Slot \ {worker'.slot} : s_clients'[j] = s_clients[j]
        /\ s_clients'[worker'.slot].mac \notin Mac
    BY <1>3, StoreUsedTakes, MacAssumption
  <2> DEFINE f == worker'.slot
  <2> HIDE DEF f
  <2>2. /\ f \in Slot \ Used /\ Used' = Used \cup {f}
        /\ \A j \in Slot \ {f} : s_clients'[j] = s_clients[j]
        /\ s_clients'[f].mac \notin Mac
    BY <2>1 DEF f
  <2> QED BY <1>1, <2>2, StoreIsStutter
<1>4. ASSUME NEW r \in Role, RegisterError(m, r) = "ESP_OK", UpdateRole(m, r)
      PROVE  AccessRegistry!Next
  <2>1. PICK f \in Used :
           /\ s_clients[f].mac = m
           /\ Used' = Used
           /\ \A j \in Slot \ {f} : s_clients'[j] = s_clients[j]
           /\ s_clients'[f].used /\ s_clients'[f].mac = m /\ s_clients'[f].role = r
           /\ \/ s_clients[f].role = r
              \/ \A i \in Used \ {f} : s_clients[i].role # r
    BY <1>4, UpdateRoleMoves
  <2>2. \A i \in Used \ {f} : s_clients[i].role # r /\ s_clients[i].mac # m
    BY <1>1, <2>1 DEF EntriesOK
  <2>3. s_initialized
    BY <1>4, Accepted
  <2>4. AccessRegistry!Grant(m, r)
    BY <1>1, <2>1, <2>2, <2>3, StoreIsGrant
  <2> QED BY <2>4 DEF AccessRegistry!Next
<1> QED BY <1>2, <1>3, <1>4, DiscoverCases

LEMMA LaterIsGrant ==
  ASSUME AccessTypeOK, StoresOK, StoreRole \/ StoreHalf \/ StoreRest
  PROVE  [AccessRegistry!Next]_(AccessRegistry!vars)
<1> DEFINE f == worker.slot
<1>1. /\ Busy /\ f \in Used /\ f \in Slot /\ worker.mac \in Mac /\ worker.role \in Role
      /\ Used' = Used /\ Used' = Used \cup {f}
      /\ \A j \in Slot \ {f} : s_clients'[j] = s_clients[j]
      /\ StoreRole => s_clients'[f].mac = s_clients[f].mac
      /\ StoreHalf => s_clients'[f].mac = Torn
      /\ StoreRest => s_clients'[f].mac = worker.mac /\ s_clients'[f].role = s_clients[f].role
  <2>1. f \in Used /\ f \in Slot
    BY WorkerStores DEF Used
  <2> QED BY <2>1, WorkerStores
<1>2. /\ s_clients[f].mac \notin Mac
      /\ StoreRest => s_clients[f].role = worker.role
      /\ \A i \in Used \ {f} : s_clients[i].role # worker.role /\ s_clients[i].mac # worker.mac
  BY <1>1 DEF StoresOK, WorkerOK, StoreRest
<1>3. EntriesOK /\ EntriesOK' /\ s_initialized' = s_initialized /\ s_initialized
  BY <1>1, LaterStores DEF StoresOK, StoreRole, StoreHalf, StoreRest, AccessTypeOK, Busy
<1> HIDE DEF f
<1>4. CASE StoreRole \/ StoreHalf
  <2>1. s_clients'[f].mac \notin Mac
    BY <1>1, <1>2, <1>4, TornAssumption
  <2>2. UNCHANGED AccessRegistry!vars
    BY <1>1, <1>2, <1>3, <2>1, StoreIsStutter
  <2> QED BY <2>2
<1>5. CASE StoreRest
  <2>1. AccessRegistry!Grant(worker.mac, worker.role)
    BY <1>1, <1>2, <1>3, <1>5, StoreIsGrant
  <2> QED BY <1>1, <2>1 DEF AccessRegistry!Next
<1> QED BY <1>4, <1>5

LEMMA ClearedHasNoCompletePairs ==
  ASSUME s_clients = Cleared
  PROVE  CompletePairs = {}
BY DEF Cleared, CompletePairs, Used

\* Registrations that are cut into stores, and may be cut off by a stop, are
\* grants of the registry: at the last store, or not at all.
THEOREM AccessImplements == AccessSpec => AccessImplementsRegistry
<1>1. AccessInit => AccessRegistry!Init
  BY ClearedHasNoCompletePairs DEF AccessInit, TableInit, AccessRegistry!Init
<1>2. ASSUME AccessInv, [AccessNext]_accessVars
      PROVE  [AccessRegistry!Next]_(AccessRegistry!vars)
  <2>1. (s_clients = Cleared => CompletePairs = {})'
    BY ClearedHasNoCompletePairs, PTL
  <2>2. AccessTypeOK /\ StoresOK
    BY <1>2 DEF AccessInv
  <2>3. ASSUME NEW m \in Mac, NEW req, Discover(m, req)
        PROVE  [AccessRegistry!Next]_(AccessRegistry!vars)
    BY <2>2, <2>3, DiscoverIsGrant
  <2>4. CASE StoreRole \/ StoreHalf \/ StoreRest
    BY <2>2, <2>4, LaterIsGrant
  <2>5. ASSUME UNCHANGED <<s_initialized, s_clients>>
        PROVE  UNCHANGED AccessRegistry!vars
    BY <2>5 DEF AccessRegistry!vars, CompletePairs, Complete, Used
  <2>6. ASSUME NEW t \in Reader, Begin(t) \/ TestUsed(t) \/ Copy(t) \/ Send(t)
        PROVE  UNCHANGED <<s_initialized, s_clients>>
    BY <2>6 DEF Begin, TestUsed, Copy, Send, Moved
  <2>7. CASE StopWorker \/ Restart \/ UNCHANGED accessVars
    BY <2>5, <2>7 DEF StopWorker, Restart, accessVars
  <2>8. CASE Start
    BY <2>1, <2>8 DEF Start, ProtocolInit, Cleared, Slot, AccessRegistry!Next, AccessRegistry!Start
  <2>9. CASE FinishStop
    BY <2>1, <2>9 DEF FinishStop, ProtocolDeinit, Cleared, Slot, AccessRegistry!Next, AccessRegistry!Stop
  <2> QED BY <1>2, <2>3, <2>4, <2>5, <2>6, <2>7, <2>8, <2>9 DEF AccessNext
<1> QED BY <1>1, <1>2, AccessInvAlways, PTL
        DEF AccessSpec, AccessImplementsRegistry, AccessRegistry!Spec
=============================================================================
