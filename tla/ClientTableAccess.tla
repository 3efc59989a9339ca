-------------------------- MODULE ClientTableAccess --------------------------
(***************************************************************************)
(* The client table, access by access: the worker registers a satellite    *)
(* with one store per field, while the heartbeat task and the task of the  *)
(* PC commands copy the addresses out of the table without a lock          *)
(* (satellite_server_clientmgnt_get_clients, sendjson_allclients), and a   *)
(* stop of the server may delete the worker in the middle of it all.       *)
(*                                                                         *)
(* The worker alone writes entries, so what it reads for its decision      *)
(* (ClientTable) is one step; so is the store to the role of a known       *)
(* satellite.  An address that is half copied is Torn.                     *)
(***************************************************************************)
EXTENDS ClientTable

CONSTANTS Torn,        \* six bytes of which some are copied
          Heartbeat,   \* the task of satellite_espnow_heartbeat_task
          Command      \* the task of the PC commands

Reader == {Heartbeat, Command}

ASSUME TornAssumption == Torn \notin Mac \cup {ZeroMac}
ASSUME ReaderAssumption == Heartbeat # Command

VARIABLES service,   \* "up", "down", or "halted": the worker gone, the table kept
          worker,    \* the store the worker is at, and for whom
          reader,    \* per task: how far its copy of the table is
          aborted    \* history: a worker has left a half-written slot behind

accessVars == <<s_initialized, s_clients, service, worker, reader, aborted>>

-----------------------------------------------------------------------------
(* The state. *)

IdleWorker == [at |-> "idle", slot |-> 0, mac |-> ZeroMac, role |-> Unknown]

\* `targets' is the array clients[] of sendjson_allclients, from which addresses
\* are taken as they are sent to.  What the properties ask is remembered from the
\* time the scan began: `due', who was registered; `crossed', a registration was
\* under way; `cleared', the table has been emptied.
IdleReader == [at |-> "idle", slot |-> 0, targets |-> {},
               due |-> {}, crossed |-> FALSE, cleared |-> FALSE]

AccessInit == /\ TableInit
              /\ service = "down"
              /\ worker = IdleWorker
              /\ reader = [t \in Reader |-> IdleReader]
              /\ aborted = FALSE

Complete(i) == s_clients[i].mac \in Mac /\ s_clients[i].role \in Role
RegisteredNow == {s_clients[i].mac : i \in {j \in Used : Complete(j)}}
Scanning    == {t \in Reader : reader[t].at \in {"test", "copy"}}

-----------------------------------------------------------------------------
(* The worker: register_client. *)

\* Every task that is copying the table is told of a registration.
Crossed == [t \in Reader |->
              [reader[t] EXCEPT !.crossed = @ \/ t \in Scanning]]

\* A DISCOVER of a new satellite: the slot is taken first.
StoreUsed(m, r) ==
  /\ ~Known(m)
  /\ s_clients' = [s_clients EXCEPT ![FindFreeClient].used = TRUE]
  /\ worker' = [at |-> "role", slot |-> FindFreeClient, mac |-> m, role |-> r]
  /\ reader' = Crossed

\* A DISCOVER of a satellite that is in the table: its role may change.
UpdateRole(m, r) ==
  /\ Known(m)
  /\ s_clients' = Registered(m, r)
  /\ UNCHANGED <<worker, reader>>

\* The handler of a DISCOVER up to the first store.
Discover(m, req) ==
  /\ service = "up" /\ worker.at = "idle"
  /\ \/ /\ RegisterError(m, AssignedRole(req)) = "ESP_OK"
        /\ \/ StoreUsed(m, AssignedRole(req))
           \/ UpdateRole(m, AssignedRole(req))
     \/ /\ RegisterError(m, AssignedRole(req)) # "ESP_OK"
        /\ UNCHANGED <<s_clients, worker, reader>>
  /\ UNCHANGED <<s_initialized, service, aborted>>

StoreRole ==
  /\ worker.at = "role"
  /\ s_clients' = [s_clients EXCEPT ![worker.slot].role = worker.role]
  /\ worker' = [worker EXCEPT !.at = "mac"]
  /\ UNCHANGED <<s_initialized, service, reader, aborted>>

\* The first bytes of the address.
StoreHalf ==
  /\ worker.at = "mac"
  /\ s_clients' = [s_clients EXCEPT ![worker.slot].mac = Torn]
  /\ worker' = [worker EXCEPT !.at = "rest"]
  /\ UNCHANGED <<s_initialized, service, reader, aborted>>

\* The other bytes.
StoreRest ==
  /\ worker.at = "rest"
  /\ s_clients' = [s_clients EXCEPT ![worker.slot].mac = worker.mac]
  /\ worker' = IdleWorker
  /\ UNCHANGED <<s_initialized, service, reader, aborted>>

-----------------------------------------------------------------------------
(* The readers: get_clients and sendjson_allclients. *)

Moved(t, r) == /\ reader' = [reader EXCEPT ![t] = r]
               /\ UNCHANGED <<s_initialized, s_clients, service, worker, aborted>>

\* The heartbeat counts the used slots first and does nothing when there are
\* none; a command is refused by a server that is down.
Begin(t) ==
  /\ s_initialized /\ reader[t].at = "idle"
  /\ t = Heartbeat => Used # {}
  /\ Moved(t, [IdleReader EXCEPT !.at = "test", !.due = RegisteredNow,
                                 !.crossed = worker.at # "idle"])

\* Mutant of TestUsed: the last slot is not looked at.
TestUsedOffByOne(t) ==
  LET r == reader[t]
  IN /\ r.at = "test"
     /\ Moved(t, IF r.slot = MaxClients - 1 THEN [r EXCEPT !.at = "send", !.slot = 0]
                 ELSE IF s_clients[r.slot].used THEN [r EXCEPT !.at = "copy"]
                 ELSE [r EXCEPT !.slot = @ + 1])

\* Mutant of TestUsed: slots that are not in use are copied too.
TestUsedNever(t) ==
  LET r == reader[t]
  IN /\ r.at = "test"
     /\ Moved(t, IF r.slot = MaxClients THEN [r EXCEPT !.at = "send", !.slot = 0]
                 ELSE [r EXCEPT !.at = "copy"])

TestUsed(t) ==
  LET r == reader[t]
  IN /\ r.at = "test"
     /\ Moved(t, IF r.slot = MaxClients THEN [r EXCEPT !.at = "send", !.slot = 0]
                 ELSE IF s_clients[r.slot].used THEN [r EXCEPT !.at = "copy"]
                 ELSE [r EXCEPT !.slot = @ + 1])

Copy(t) ==
  LET r == reader[t]
  IN /\ r.at = "copy"
     /\ Moved(t, [r EXCEPT !.at = "test", !.slot = @ + 1,
                           !.targets = @ \cup {s_clients[r.slot].mac}])

\* One message of the broadcast, whatever becomes of it; an error does not end
\* the loop.
Send(t) ==
  LET r == reader[t]
  IN /\ r.at = "send"
     /\ \/ \E a \in r.targets :
             Moved(t, [r EXCEPT !.targets = @ \ {a}, !.due = @ \ {a}])
        \/ r.targets = {} /\ Moved(t, IdleReader)

-----------------------------------------------------------------------------
(* Start and stop of the server (satellite_server_init, _deinit). *)

Start ==
  /\ service = "down"
  /\ ProtocolInit
  /\ service' = "up"
  /\ UNCHANGED <<worker, reader, aborted>>

\* satellite_espnow_deinit deletes the worker wherever it is.
StopWorker ==
  /\ service = "up"
  /\ service' = "halted"
  /\ worker' = IdleWorker
  /\ aborted' = (aborted \/ worker.at # "idle")
  /\ UNCHANGED <<s_initialized, s_clients, reader>>

\* The stop goes on to the protocol: the heartbeat task goes, the table is
\* cleared under the eyes of the other reader.
FinishStop ==
  /\ service = "halted"
  /\ ProtocolDeinit
  /\ service' = "down"
  /\ reader' = [t \in Reader |->
                  IF t = Heartbeat \/ reader[t].at = "idle" THEN IdleReader
                  ELSE [reader[t] EXCEPT !.due = {}, !.cleared = TRUE]]
  /\ aborted' = FALSE
  /\ UNCHANGED worker

\* The stop failed in between (satellite_server_wifi_deinit), and the server is
\* started again: the protocol is initialized already and keeps its table.
Restart ==
  /\ service = "halted"
  /\ service' = "up"
  /\ UNCHANGED <<s_initialized, s_clients, worker, reader, aborted>>

AccessNext ==
  \/ \E m \in Mac, req \in RequestedRoles : Discover(m, req)
  \/ StoreRole \/ StoreHalf \/ StoreRest
  \/ \E t \in Reader : Begin(t) \/ TestUsed(t) \/ Copy(t) \/ Send(t)
  \/ Start \/ StopWorker \/ FinishStop \/ Restart

AccessSpec == AccessInit /\ [][AccessNext]_accessVars

-----------------------------------------------------------------------------
(* Properties. *)

AccessEntry == [used : BOOLEAN, mac : Mac \cup {ZeroMac, Torn}, role : Role \cup {Unknown}]

\* Shapes, and how the flag, the service and the two kinds of task go together:
\* only a server that is up has a worker, a server that is down has no heartbeat
\* and an empty table.
AccessTypeOK ==
  /\ s_initialized = (service # "down")
  /\ s_clients \in [Slot -> AccessEntry]
  /\ service \in {"up", "halted", "down"}
  /\ worker \in [at : {"idle", "role", "mac", "rest"}, slot : Slot,
                 mac : Mac \cup {ZeroMac}, role : Role \cup {Unknown}]
  /\ worker.at # "idle" => service = "up" /\ worker.mac \in Mac /\ worker.role \in Role
  /\ reader \in [Reader -> [at : {"idle", "test", "copy", "send"}, slot : 0 .. MaxClients,
                            targets : SUBSET (Mac \cup {ZeroMac, Torn}), due : SUBSET Mac,
                            crossed : BOOLEAN, cleared : BOOLEAN]]
  /\ \A t \in Reader : reader[t].at = "copy" => reader[t].slot \in Slot
  /\ aborted \in BOOLEAN
  /\ service = "down" => s_clients = Cleared /\ reader[Heartbeat] = IdleReader /\ ~aborted

\* A satellite that was registered when a heartbeat or a command began to copy
\* the table is sent to, whatever the worker writes meanwhile; only a stop of the
\* server excuses it.
NobodyForgotten ==
  \A t \in Reader : reader[t].at = "send" => reader[t].due \subseteq reader[t].targets

\* Slots in use that nobody is writing and that name no satellite or no foot.
Ghosts == {i \in Used : ~Complete(i) /\ (worker.at # "idle" => worker.slot # i)}

\* Where a broadcast goes: to satellites of the table.  An address that is zero
\* or half copied is sent to only if a registration went on during the copy or a
\* half-written slot is in the table, a satellite that is not in the table only
\* after a stop.  Such a slot stays behind only when a worker was deleted at work
\* and the table was not cleared after it: then it may hold a foot for good.
SendsOnlyToClients ==
  /\ Ghosts # {} => aborted
  /\ \A t \in Reader : \A a \in reader[t].targets :
       \/ Known(a)
       \/ reader[t].cleared
       \/ a \notin Mac /\ (reader[t].crossed \/ Ghosts # {})

\* The pairs in force: slots whose registration is complete.
CompletePairs == {<<s_clients[i].mac, s_clients[i].role>> : i \in {j \in Used : Complete(j)}}

AccessRegistry == INSTANCE RoleRegistry WITH up <- s_initialized, assigned <- CompletePairs

\* Registrations that are cut into stores, and cut off by a stop, are grants of
\* RoleRegistry still: each takes effect at its last store or not at all.
AccessImplementsRegistry == AccessRegistry!Spec
=============================================================================
