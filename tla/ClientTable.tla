---------------------------- MODULE ClientTable -----------------------------
(***************************************************************************)
(* The controller's table of satellites                                    *)
(* (satellite_server_clientmgnt.c) and the discovery handler that fills it *)
(* (satellite_server_protocol_discovery.c).                                *)
(*                                                                         *)
(* A satellite is named by its MAC address.  The table has MaxClients      *)
(* slots and the satellites are given the role of the left or of the right *)
(* foot.  Nothing removes one client: only starting or stopping the        *)
(* protocol clears the table.                                              *)
(*                                                                         *)
(* Every handler runs in the one ESP-NOW worker task, so a registration is *)
(* one step here; ClientTableAccess cuts it up, for the tasks that read    *)
(* the table while it is being written.                                    *)
(***************************************************************************)
EXTENDS Naturals

CONSTANTS Mac,             \* addresses of satellites
          ZeroMac,         \* the all-zero address a cleared slot holds
          MaxClients,      \* SATELLITE_SERVER_MAX_CLIENTS
          RequestedRoles   \* what the role byte of a DISCOVER may hold

Left    == "LEFT"
Right   == "RIGHT"
Unknown == "UNKNOWN"
Role    == {Left, Right}

ASSUME MacAssumption == ZeroMac \notin Mac
ASSUME MaxClientsAssumption == MaxClients \in Nat \ {0}
ASSUME RequestedRolesAssumption == RequestedRoles \subseteq Role \cup {Unknown}

VARIABLES s_initialized,   \* the protocol has been started
          s_clients        \* the table, one entry per slot

tableVars == <<s_initialized, s_clients>>

-----------------------------------------------------------------------------
(* The state. *)

Slot  == 0 .. MaxClients - 1
Entry == [used : BOOLEAN, mac : Mac \cup {ZeroMac}, role : Role \cup {Unknown}]

\* What memset(0) leaves: SATELLITE_CONTROLLER_ROLE_UNKNOWN is 0.
Cleared == [i \in Slot |-> [used |-> FALSE, mac |-> ZeroMac, role |-> Unknown]]

TableInit == /\ s_initialized = FALSE
             /\ s_clients = Cleared

-----------------------------------------------------------------------------
(* The helpers of the table. *)

Used == {i \in Slot : s_clients[i].used}
Free == Slot \ Used

First(S) == CHOOSE i \in S : \A j \in S : i <= j

ClientSlots(m) == {i \in Used : s_clients[i].mac = m}
Known(m)       == ClientSlots(m) # {}
FindClient(m)  == First(ClientSlots(m))
FindFreeClient == First(Free)

\* Mutant of RoleOf: the first satellite in the table, not the one asked for.
RoleOfFirst(m) == s_clients[First(Used)].role

RoleOf(m) == s_clients[FindClient(m)].role

Occupied(r) == \E i \in Used : s_clients[i].role = r

\* The foot offered to whoever asks for any: the asking satellite's own slot
\* counts as occupied like every other.
RoleAvailable ==
  IF ~Occupied(Left) THEN Left ELSE IF ~Occupied(Right) THEN Right ELSE Unknown

\* Mutant of RegisterError: a known satellite may take over any role.
RegisterErrorKnownUnchecked(m, r) ==
  IF ~s_initialized THEN "ESP_ERR_INVALID_STATE"
  ELSE IF r \notin Role THEN "ESP_ERR_INVALID_ARG"
  ELSE IF Known(m) THEN "ESP_OK"
  ELSE IF Free = {} THEN "ESP_ERR_NO_MEM"
  ELSE IF Occupied(r) THEN "ESP_ERR_INVALID_STATE"
  ELSE "ESP_OK"

\* Mutant of RegisterError: a new satellite is not asked whether its role is
\* taken.
RegisterErrorNewUnchecked(m, r) ==
  IF ~s_initialized THEN "ESP_ERR_INVALID_STATE"
  ELSE IF r \notin Role THEN "ESP_ERR_INVALID_ARG"
  ELSE IF ~Known(m) /\ Free = {} THEN "ESP_ERR_NO_MEM"
  ELSE "ESP_OK"

\* Mutant of RegisterError: whoever is in the table already is refused.
RegisterErrorKnownRefused(m, r) ==
  IF ~s_initialized THEN "ESP_ERR_INVALID_STATE"
  ELSE IF r \notin Role THEN "ESP_ERR_INVALID_ARG"
  ELSE IF Known(m) THEN "ESP_ERR_INVALID_STATE"
  ELSE IF Free = {} THEN "ESP_ERR_NO_MEM"
  ELSE IF Occupied(r) THEN "ESP_ERR_INVALID_STATE"
  ELSE "ESP_OK"

\* The value register_client returns, its early returns in their order.
RegisterError(m, r) ==
  IF ~s_initialized THEN "ESP_ERR_INVALID_STATE"
  ELSE IF r \notin Role THEN "ESP_ERR_INVALID_ARG"
  ELSE IF Known(m)
       THEN IF /\ RoleOf(m) # r
               /\ \E i \in Used \ {FindClient(m)} : s_clients[i].role = r
            THEN "ESP_ERR_INVALID_STATE"
            ELSE "ESP_OK"
  ELSE IF Free = {} THEN "ESP_ERR_NO_MEM"
  ELSE IF Occupied(r) THEN "ESP_ERR_INVALID_STATE"
  ELSE "ESP_OK"

\* Mutant of SlotFor: every registration takes a free slot.
SlotForFree(m) == FindFreeClient

\* What register_client stores when it returns ESP_OK, and where.
SlotFor(m)       == IF Known(m) THEN FindClient(m) ELSE FindFreeClient

\* Mutant of Registered: the address is not copied.
RegisteredWithoutMac(m, r) ==
  [s_clients EXCEPT ![SlotFor(m)] = [@ EXCEPT !.used = TRUE, !.role = r]]

Registered(m, r) ==
  [s_clients EXCEPT ![SlotFor(m)] = [used |-> TRUE, mac |-> m, role |-> r]]

-----------------------------------------------------------------------------
(* The operations. *)

\* satellite_server_protocol_init: a second call returns early.
ProtocolInit ==
  /\ ~s_initialized
  /\ s_initialized' = TRUE
  /\ s_clients' = Cleared

\* Mutant of ProtocolDeinit: the table is left as it is.
ProtocolDeinitKeepsTable ==
  /\ s_initialized
  /\ s_initialized' = FALSE
  /\ UNCHANGED s_clients

ProtocolDeinit ==
  /\ s_initialized
  /\ s_initialized' = FALSE
  /\ s_clients' = Cleared

\* The role the discovery handler tries to register.
AssignedRole(req) == IF req = Unknown THEN RoleAvailable ELSE req

\* A DISCOVER that is answered: its sender is registered.  What becomes of the
\* answer does not matter to the table: a failed send undoes nothing.
Assign(m, req) ==
  /\ RegisterError(m, AssignedRole(req)) = "ESP_OK"
  /\ s_clients' = Registered(m, AssignedRole(req))
  /\ UNCHANGED s_initialized

\* A DISCOVER that is dropped without an answer.
Refuse(m, req) ==
  /\ RegisterError(m, AssignedRole(req)) # "ESP_OK"
  /\ UNCHANGED tableVars

TableNext ==
  \/ ProtocolInit
  \/ ProtocolDeinit
  \/ \E m \in Mac, req \in RequestedRoles : Assign(m, req) \/ Refuse(m, req)

TableSpec == TableInit /\ [][TableNext]_tableVars

-----------------------------------------------------------------------------
(* Properties. *)

\* The table holds entries of the right shape, and is clear before the first
\* start and after a stop.
TableTypeOK ==
  /\ s_initialized \in BOOLEAN
  /\ s_clients \in [Slot -> Entry]
  /\ ~s_initialized => s_clients = Cleared

\* No two satellites play the same foot, although the test for a taken role is
\* written twice in register_client, once for known and once for new clients.
OneSatellitePerRole ==
  \A i, j \in Used : s_clients[i].role = s_clients[j].role => i = j

\* A satellite has one slot however often it asks: a later DISCOVER finds the
\* slot of an earlier one.
OneSlotPerSatellite ==
  \A i, j \in Used : s_clients[i].mac = s_clients[j].mac => i = j

\* A slot in use names a satellite and one of the two feet.
UsedSlotsAreComplete ==
  \A i \in Used : s_clients[i].mac \in Mac /\ s_clients[i].role \in Role

\* With a slot to spare for the two feet, the "Client table full" warning
\* cannot be reached: no request ever meets a full table.
TableNeverFull ==
  \A m \in Mac, r \in Role \cup {Unknown} : RegisterError(m, r) # "ESP_ERR_NO_MEM"

\* Once both feet are taken no DISCOVER, whoever sends it and whatever it asks
\* for, changes the table: only stopping the protocol does.
Paired == Occupied(Left) /\ Occupied(Right)
FrozenWhenPaired ==
  [][Paired => (s_clients' = s_clients \/ ~s_initialized')]_tableVars

\* A DISCOVER is refused exactly when it cannot be granted: the foot it names is
\* another satellite's or, for one that names none, both are taken.  Neither a
\* lack of slots nor the place its sender has in the table refuses it earlier.
Grantable(m, req) ==
  IF req = Unknown THEN ~Paired
  ELSE \A i \in Used : s_clients[i].role = req => s_clients[i].mac = m

RefusedOnlyForTakenFeet ==
  s_initialized =>
    \A m \in Mac, req \in RequestedRoles :
      RegisterError(m, AssignedRole(req)) = "ESP_OK" <=> Grantable(m, req)

\* The pairs in force, as RoleRegistry sees them.
Pairs == {<<s_clients[i].mac, s_clients[i].role>> : i \in Used}

Registry == INSTANCE RoleRegistry WITH up <- s_initialized, assigned <- Pairs

\* The table implements the promise of RoleRegistry: each answered DISCOVER is
\* a grant there, each refused one a stutter.
ImplementsRegistry == Registry!Spec
=============================================================================
