-------------------------- MODULE ClientTableProofs -------------------------
(***************************************************************************)
(* Theorems about ClientTable, for any number of satellites, any number of *)
(* slots and whatever roles the satellites ask for.                        *)
(*                                                                         *)
(* The inductive invariant TableInv is the conjunction of the four         *)
(* invariants of ClientTable.  None is inductive alone: that a known       *)
(* client keeps its role unchecked is sound only because roles are unique  *)
(* already, and that a new client's slot is new needs the other slots to   *)
(* hold other addresses.                                                   *)
(***************************************************************************)
EXTENDS ClientTable, TLAPS, WellFoundedInduction

TableInv == /\ TableTypeOK
            /\ OneSatellitePerRole
            /\ OneSlotPerSatellite
            /\ UsedSlotsAreComplete

Below == {ss \in Nat \X Nat : ss[1] < ss[2]}

\* First, the search for the first matching slot, finds one when there is one.
LEMMA LeastOfNaturals ==
  ASSUME NEW S \in SUBSET Nat, S # {}
  PROVE  First(S) \in S /\ \A j \in S : First(S) <= j
<1>1. IsWellFoundedOn(Below, Nat)
  BY NatLessThanWellFounded DEF OpToRel, Below
<1>2. PICK x \in S : \A y \in S : ~(<<y, x>> \in Below)
  BY <1>1, WFMin
<1>3. \A y \in S : x <= y
  <2> SUFFICES ASSUME NEW y \in S
               PROVE  x <= y
    OBVIOUS
  <2>1. ~(<<y, x>> \in Below)
    BY <1>2
  <2>2. <<y, x>> \in Nat \X Nat
    OBVIOUS
  <2>3. ~(y < x)
    BY <2>1, <2>2 DEF Below
  <2> QED BY <2>3
<1> QED BY <1>3 DEF First

LEMMA SlotsAreNaturals == Slot \subseteq Nat
BY MaxClientsAssumption DEF Slot

\* find_client returns a slot in use that holds the address it looked for.
LEMMA FindClientFinds ==
  ASSUME NEW m, Known(m)
  PROVE  FindClient(m) \in Used /\ s_clients[FindClient(m)].mac = m
<1>1. ClientSlots(m) \in SUBSET Nat
  BY SlotsAreNaturals DEF ClientSlots, Used
<1>2. FindClient(m) \in ClientSlots(m)
  BY <1>1, LeastOfNaturals DEF Known, FindClient
<1> QED BY <1>2 DEF ClientSlots

\* find_free_client returns a slot that is not in use.
LEMMA FindFreeFinds ==
  ASSUME Free # {}
  PROVE  FindFreeClient \in Slot \ Used
<1>1. Free \in SUBSET Nat
  BY SlotsAreNaturals DEF Free
<1> QED BY <1>1, LeastOfNaturals DEF FindFreeClient, Free

\* What an accepted registration may count on: the protocol runs, the role is
\* a foot, no other slot in use holds that foot, and the slot written is the
\* satellite's own or a free one that no other slot in use shares an address
\* with.
LEMMA AcceptedRegistration ==
  ASSUME TableInv, NEW m \in Mac, NEW r, RegisterError(m, r) = "ESP_OK"
  PROVE  /\ s_initialized
         /\ r \in Role
         /\ SlotFor(m) \in Slot
         /\ \A i \in Used \ {SlotFor(m)} :
               s_clients[i].role # r /\ s_clients[i].mac # m
<1>1. s_initialized /\ r \in Role
  BY DEF RegisterError
<1>2. CASE Known(m)
  <2>1. SlotFor(m) = FindClient(m) /\ SlotFor(m) \in Used /\ s_clients[SlotFor(m)].mac = m
    BY <1>2, FindClientFinds DEF SlotFor
  <2>2. \/ s_clients[SlotFor(m)].role = r
        \/ ~ \E i \in Used \ {SlotFor(m)} : s_clients[i].role = r
    BY <1>1, <1>2, <2>1 DEF RegisterError, RoleOf
  <2>3. \A i \in Used \ {SlotFor(m)} : s_clients[i].role # r
    BY <2>1, <2>2 DEF TableInv, OneSatellitePerRole
  <2>4. \A i \in Used \ {SlotFor(m)} : s_clients[i].mac # m
    BY <2>1 DEF TableInv, OneSlotPerSatellite
  <2> QED BY <1>1, <2>1, <2>3, <2>4 DEF Used
<1>3. CASE ~Known(m)
  <2>1. Free # {} /\ ~Occupied(r)
    BY <1>1, <1>3 DEF RegisterError
  <2>2. SlotFor(m) \in Slot \ Used
    BY <1>3, <2>1, FindFreeFinds DEF SlotFor
  <2>3. \A i \in Used : s_clients[i].mac # m
    BY <1>3 DEF Known, ClientSlots
  <2> QED BY <1>1, <2>1, <2>2, <2>3 DEF Occupied
<1> QED BY <1>2, <1>3

\* The table and the slots in use after an accepted registration.
LEMMA RegisteredTable ==
  ASSUME TableInv, NEW m \in Mac, NEW r, RegisterError(m, r) = "ESP_OK",
         s_clients' = Registered(m, r)
  PROVE  /\ Used' = Used \cup {SlotFor(m)}
         /\ s_clients'[SlotFor(m)] = [used |-> TRUE, mac |-> m, role |-> r]
         /\ \A i \in Slot \ {SlotFor(m)} : s_clients'[i] = s_clients[i]
         /\ s_clients' \in [Slot -> Entry]
<1>1. SlotFor(m) \in Slot /\ r \in Role
  BY AcceptedRegistration
<1>2. s_clients \in [Slot -> Entry]
  BY DEF TableInv, TableTypeOK
<1>3. [used |-> TRUE, mac |-> m, role |-> r] \in Entry
  BY <1>1 DEF Entry
<1>4. s_clients'[SlotFor(m)] = [used |-> TRUE, mac |-> m, role |-> r]
  BY <1>1, <1>2 DEF Registered
<1>5. \A i \in Slot \ {SlotFor(m)} : s_clients'[i] = s_clients[i]
  BY <1>1, <1>2 DEF Registered
<1>6. s_clients' \in [Slot -> Entry]
  BY <1>1, <1>2, <1>3 DEF Registered
<1> QED BY <1>1, <1>4, <1>5, <1>6 DEF Used

\* A cleared table satisfies the invariant, whether the protocol runs or not.
LEMMA ClearedTable ==
  ASSUME s_clients = Cleared, s_initialized \in BOOLEAN
  PROVE  TableInv
<1>1. Cleared \in [Slot -> Entry]
  BY DEF Cleared, Entry
<1>2. Used = {}
  BY DEF Cleared, Used
<1> QED BY <1>1, <1>2 DEF TableInv, TableTypeOK, OneSatellitePerRole,
           OneSlotPerSatellite, UsedSlotsAreComplete

\* An accepted registration preserves each part of the invariant.
LEMMA AssignPreserves ==
  ASSUME TableInv, NEW m \in Mac, NEW req, Assign(m, req)
  PROVE  TableInv'
<1> DEFINE r == AssignedRole(req)
<1>1. /\ RegisterError(m, r) = "ESP_OK"
      /\ s_clients' = Registered(m, r)
      /\ s_initialized' = s_initialized
  BY DEF Assign
<1> HIDE DEF r
<1>2. /\ s_initialized
      /\ r \in Role
      /\ SlotFor(m) \in Slot
      /\ \A i \in Used \ {SlotFor(m)} : s_clients[i].role # r /\ s_clients[i].mac # m
  BY <1>1, AcceptedRegistration
<1>3. /\ Used' = Used \cup {SlotFor(m)}
      /\ s_clients'[SlotFor(m)] = [used |-> TRUE, mac |-> m, role |-> r]
      /\ \A i \in Slot \ {SlotFor(m)} : s_clients'[i] = s_clients[i]
      /\ s_clients' \in [Slot -> Entry]
  BY <1>1, RegisteredTable
<1>4. Used \subseteq Slot
  BY DEF Used
<1>5. TableTypeOK'
  BY <1>1, <1>2, <1>3 DEF TableInv, TableTypeOK
<1>6. OneSatellitePerRole'
  BY <1>2, <1>3, <1>4 DEF TableInv, OneSatellitePerRole
<1>7. OneSlotPerSatellite'
  BY <1>2, <1>3, <1>4 DEF TableInv, OneSlotPerSatellite
<1>8. UsedSlotsAreComplete'
  BY <1>2, <1>3, <1>4 DEF TableInv, UsedSlotsAreComplete
<1> QED BY <1>5, <1>6, <1>7, <1>8 DEF TableInv

LEMMA TableInvInit == TableInit => TableInv
BY ClearedTable DEF TableInit

LEMMA ClearingPreserves ==
  ASSUME s_clients' = Cleared, s_initialized' \in BOOLEAN
  PROVE  TableInv'
<1>1. (s_clients = Cleared /\ s_initialized \in BOOLEAN => TableInv)'
  BY ClearedTable, PTL
<1> QED BY <1>1 DEF Cleared, Slot

\* Every step of the table preserves the invariant.
LEMMA TableInvStep == TableInv /\ [TableNext]_tableVars => TableInv'
<1> SUFFICES ASSUME TableInv, [TableNext]_tableVars
             PROVE  TableInv'
  OBVIOUS
<1>1. CASE ProtocolInit
  BY <1>1, ClearingPreserves DEF ProtocolInit
<1>2. CASE ProtocolDeinit
  BY <1>2, ClearingPreserves DEF ProtocolDeinit
<1>3. ASSUME NEW m \in Mac, NEW req \in RequestedRoles, Assign(m, req)
      PROVE  TableInv'
  BY <1>3, AssignPreserves
<1>4. ASSUME UNCHANGED tableVars
      PROVE  TableInv'
  BY <1>4 DEF TableInv, TableTypeOK, OneSatellitePerRole, OneSlotPerSatellite,
              UsedSlotsAreComplete, Used, tableVars
<1>5. ASSUME NEW m \in Mac, NEW req \in RequestedRoles, Refuse(m, req)
      PROVE  TableInv'
  BY <1>4, <1>5 DEF Refuse
<1> QED BY <1>1, <1>2, <1>3, <1>4, <1>5 DEF TableNext

\* The invariant holds of every behaviour.
LEMMA TableInvAlways == TableSpec => []TableInv
BY TableInvInit, TableInvStep, PTL DEF TableSpec

-----------------------------------------------------------------------------

\* The table always has its type, and is clear whenever the protocol is down.
THEOREM TableTypeCorrect == TableSpec => []TableTypeOK
<1>1. TableInv => TableTypeOK
  BY DEF TableInv
<1> QED BY <1>1, TableInvAlways, PTL

\* Whatever the satellites send and in whatever order, register_client never
\* gives one foot to two satellites.
THEOREM RolesAreUnique == TableSpec => []OneSatellitePerRole
<1>1. TableInv => OneSatellitePerRole
  BY DEF TableInv
<1> QED BY <1>1, TableInvAlways, PTL

\* However often a satellite asks, register_client gives it one slot.
THEOREM SlotsAreUnique == TableSpec => []OneSlotPerSatellite
<1>1. TableInv => OneSlotPerSatellite
  BY DEF TableInv
<1> QED BY <1>1, TableInvAlways, PTL

\* A slot in use always names a satellite and a foot.
THEOREM SlotsAreComplete == TableSpec => []UsedSlotsAreComplete
<1>1. TableInv => UsedSlotsAreComplete
  BY DEF TableInv
<1> QED BY <1>1, TableInvAlways, PTL

\* With three slots or more (the code has three) for two feet a slot is always
\* free, so register_client cannot return ESP_ERR_NO_MEM.
THEOREM NeverFull == MaxClients > 2 => (TableSpec => []TableNeverFull)
<1> SUFFICES ASSUME MaxClients > 2
             PROVE  TableSpec => []TableNeverFull
  OBVIOUS
<1>1. ASSUME TableInv
      PROVE  Free # {}
  <2> SUFFICES ASSUME Free = {}
               PROVE  FALSE
    OBVIOUS
  <2>1. 0 \in Slot /\ 1 \in Slot /\ 2 \in Slot
    BY MaxClientsAssumption DEF Slot
  <2>2. 0 \in Used /\ 1 \in Used /\ 2 \in Used
    BY <2>1 DEF Free
  <2>3. \A i \in Used : s_clients[i].role = Left \/ s_clients[i].role = Right
    BY <1>1 DEF TableInv, UsedSlotsAreComplete, Role
  <2> QED BY <1>1, <2>2, <2>3 DEF TableInv, OneSatellitePerRole
<1>2. TableInv => TableNeverFull
  BY <1>1 DEF TableNeverFull, RegisterError
<1> QED BY <1>2, TableInvAlways, PTL

\* A foot that can be granted has a slot to be granted in.
LEMMA GrantNeedsNoMore ==
  ASSUME TableInv, MaxClients > 1, ~Occupied(Left) \/ ~Occupied(Right)
  PROVE  Free # {}
<1> SUFFICES ASSUME Free = {}
             PROVE  FALSE
  OBVIOUS
<1>1. 0 \in Slot /\ 1 \in Slot
  BY MaxClientsAssumption DEF Slot
<1>2. 0 \in Used /\ 1 \in Used
  BY <1>1 DEF Free
<1>3. \A i \in Used : s_clients[i].role = Left \/ s_clients[i].role = Right
  BY DEF TableInv, UsedSlotsAreComplete, Role
<1>4. s_clients[0].role # s_clients[1].role
  BY <1>2 DEF TableInv, OneSatellitePerRole
<1> QED BY <1>2, <1>3, <1>4 DEF Occupied

\* With two slots or more register_client accepts exactly what can be granted,
\* be its sender in the table already or not.  So the lockout of a satellite
\* that times out while both feet are taken is the only one there is.
THEOREM OnlyTakenFeetAreRefused ==
  MaxClients > 1 => (TableSpec => []RefusedOnlyForTakenFeet)
<1> SUFFICES ASSUME MaxClients > 1
             PROVE  TableSpec => []RefusedOnlyForTakenFeet
  OBVIOUS
<1>1. ASSUME TableInv, s_initialized, NEW m \in Mac
      PROVE  RegisterError(m, RoleAvailable) = "ESP_OK" <=> ~Paired
  <2>1. CASE Paired
    <3>1. RoleAvailable \notin Role
      BY <2>1 DEF Paired, RoleAvailable, Role, Unknown, Left, Right
    <3> QED BY <1>1, <2>1, <3>1 DEF RegisterError
  <2>2. CASE ~Paired
    <3>1. RoleAvailable \in Role /\ ~Occupied(RoleAvailable)
      BY <2>2 DEF Paired, RoleAvailable, Role
    <3>2. Free # {}
      BY <1>1, <2>2, GrantNeedsNoMore DEF Paired
    <3> QED BY <1>1, <2>2, <3>1, <3>2 DEF RegisterError, Occupied
  <2> QED BY <2>1, <2>2
<1>2. ASSUME TableInv, s_initialized, NEW m \in Mac, NEW r \in Role
      PROVE  RegisterError(m, r) = "ESP_OK" <=> Grantable(m, r)
  <2>1. Grantable(m, r) <=> \A i \in Used : s_clients[i].role = r => s_clients[i].mac = m
    BY DEF Grantable, Role, Unknown, Left, Right
  <2>2. CASE Known(m)
    <3>1. FindClient(m) \in Used /\ s_clients[FindClient(m)].mac = m
      BY <2>2, FindClientFinds
    <3>2. \A i \in Used : s_clients[i].mac = m => i = FindClient(m)
      BY <1>2, <3>1 DEF TableInv, OneSlotPerSatellite
    <3>3. \A i \in Used : s_clients[i].role = r /\ RoleOf(m) = r => i = FindClient(m)
      BY <1>2, <3>1 DEF TableInv, OneSatellitePerRole, RoleOf
    <3> QED BY <1>2, <2>1, <2>2, <3>1, <3>2, <3>3 DEF RegisterError
  <2>3. CASE ~Known(m)
    <3>1. \A i \in Used : s_clients[i].mac # m
      BY <2>3 DEF Known, ClientSlots
    <3>2. Grantable(m, r) <=> ~Occupied(r)
      BY <2>1, <3>1 DEF Occupied
    <3>3. ~Occupied(r) => Free # {}
      BY <1>2, GrantNeedsNoMore DEF Role
    <3> QED BY <1>2, <2>3, <3>2, <3>3 DEF RegisterError
  <2> QED BY <2>2, <2>3
<1>3. ASSUME TableInv, s_initialized, NEW m \in Mac, NEW req \in RequestedRoles
      PROVE  RegisterError(m, AssignedRole(req)) = "ESP_OK" <=> Grantable(m, req)
  <2>1. CASE req = Unknown
    BY <1>1, <1>3, <2>1 DEF AssignedRole, Grantable
  <2>2. CASE req # Unknown
    <3>1. req \in Role /\ AssignedRole(req) = req
      BY <1>3, <2>2, RequestedRolesAssumption DEF AssignedRole
    <3> QED BY <1>2, <1>3, <3>1
  <2> QED BY <2>1, <2>2
<1>4. TableInv => RefusedOnlyForTakenFeet
  BY <1>3 DEF RefusedOnlyForTakenFeet
<1> QED BY <1>4, TableInvAlways, PTL

\* Once both feet are taken, an accepted DISCOVER can only be one that asks for
\* the foot its sender has, and it rewrites what is there.
LEMMA PairedAssignment ==
  ASSUME TableInv, Paired, NEW m \in Mac, NEW req, Assign(m, req)
  PROVE  s_clients' = s_clients
<1> DEFINE r == AssignedRole(req)
<1>1. /\ RegisterError(m, r) = "ESP_OK"
      /\ s_clients' = Registered(m, r)
  BY DEF Assign
<1> HIDE DEF r
<1>2. /\ r \in Role
      /\ SlotFor(m) \in Slot
      /\ \A i \in Used \ {SlotFor(m)} : s_clients[i].role # r
  BY <1>1, AcceptedRegistration
<1>3. Occupied(r)
  BY <1>2 DEF Paired, Role
<1>4. SlotFor(m) \in Used /\ s_clients[SlotFor(m)].role = r
  BY <1>2, <1>3 DEF Occupied
<1>5. Known(m)
  <2> SUFFICES ASSUME ~Known(m)
               PROVE  FALSE
    OBVIOUS
  <2>1. Free # {}
    BY <1>1, <1>2 DEF RegisterError
  <2> QED BY <2>1, <1>4, FindFreeFinds DEF SlotFor
<1>6. s_clients[SlotFor(m)].mac = m
  BY <1>5, FindClientFinds DEF SlotFor
<1>7. s_clients \in [Slot -> Entry] /\ s_clients[SlotFor(m)].used
  BY <1>4 DEF TableInv, TableTypeOK, Used
<1>8. s_clients[SlotFor(m)] = [used |-> TRUE, mac |-> m, role |-> r]
  BY <1>2, <1>4, <1>6, <1>7 DEF Entry
<1> QED BY <1>1, <1>7, <1>8 DEF Registered

\* No traffic of any kind gets a foot back from a satellite once both are
\* taken: the pairing lasts until the controller's protocol is stopped.
THEOREM PairingIsFinal == TableSpec => FrozenWhenPaired
<1>1. ASSUME TableInv, [TableNext]_tableVars
      PROVE  [Paired => (s_clients' = s_clients \/ ~s_initialized')]_tableVars
  <2> SUFFICES ASSUME Paired, TableNext
               PROVE  s_clients' = s_clients \/ ~s_initialized'
    BY <1>1
  <2>1. CASE ProtocolInit
    <3>1. s_clients = Cleared
      BY <1>1, <2>1 DEF TableInv, TableTypeOK, ProtocolInit
    <3> QED BY <2>1, <3>1 DEF ProtocolInit
  <2>2. CASE ProtocolDeinit
    BY <2>2 DEF ProtocolDeinit
  <2>3. ASSUME NEW m \in Mac, NEW req \in RequestedRoles, Assign(m, req)
        PROVE  s_clients' = s_clients
    BY <1>1, <2>3, PairedAssignment
  <2>4. ASSUME NEW m \in Mac, NEW req \in RequestedRoles, Refuse(m, req)
        PROVE  s_clients' = s_clients
    BY <2>4 DEF Refuse, tableVars
  <2> QED BY <2>1, <2>2, <2>3, <2>4 DEF TableNext
<1> QED BY <1>1, TableInvAlways, PTL DEF TableSpec, FrozenWhenPaired

-----------------------------------------------------------------------------

\* An accepted DISCOVER is a grant of RoleRegistry.
LEMMA AssignIsGrant ==
  ASSUME TableInv, NEW m \in Mac, NEW req, Assign(m, req)
  PROVE  \E r \in Role : Registry!Grant(m, r)
<1> DEFINE r == AssignedRole(req)
<1>1. /\ RegisterError(m, r) = "ESP_OK"
      /\ s_clients' = Registered(m, r)
      /\ s_initialized' = s_initialized
  BY DEF Assign
<1> HIDE DEF r
<1>2. /\ s_initialized
      /\ r \in Role
      /\ SlotFor(m) \in Slot
      /\ \A i \in Used \ {SlotFor(m)} : s_clients[i].role # r /\ s_clients[i].mac # m
  BY <1>1, AcceptedRegistration
<1>3. /\ Used' = Used \cup {SlotFor(m)}
      /\ s_clients'[SlotFor(m)] = [used |-> TRUE, mac |-> m, role |-> r]
      /\ \A i \in Slot \ {SlotFor(m)} : s_clients'[i] = s_clients[i]
  BY <1>1, RegisteredTable
<1>4. SlotFor(m) \in Used => s_clients[SlotFor(m)].mac = m
  <2>1. CASE Known(m)
    BY <2>1, FindClientFinds DEF SlotFor
  <2>2. CASE ~Known(m)
    <3>1. Free # {}
      BY <1>1, <1>2, <2>2 DEF RegisterError
    <3> QED BY <2>2, <3>1, FindFreeFinds DEF SlotFor
  <2> QED BY <2>1, <2>2
<1>5. \A p \in Pairs : p[2] = r => p[1] = m
  BY <1>2, <1>4 DEF Pairs
<1>6. Pairs' = {p \in Pairs : p[1] # m} \cup {<<m, r>>}
  <2> DEFINE Keep == {p \in Pairs : p[1] # m} \cup {<<m, r>>}
  <2>1. ASSUME NEW p \in Pairs'
        PROVE  p \in Keep
    <3>1. PICK i \in Used' : p = <<s_clients'[i].mac, s_clients'[i].role>>
      BY <2>1 DEF Pairs
    <3>2. CASE i = SlotFor(m)
      BY <1>3, <3>1, <3>2
    <3>3. CASE i # SlotFor(m)
      <4>1. i \in Used \ {SlotFor(m)} /\ s_clients'[i] = s_clients[i]
        BY <1>3, <3>1, <3>3 DEF Used
      <4>2. s_clients[i].mac # m /\ p = <<s_clients[i].mac, s_clients[i].role>>
        BY <1>2, <3>1, <4>1
      <4> QED BY <4>1, <4>2 DEF Pairs
    <3> QED BY <3>2, <3>3
  <2>2. ASSUME NEW p \in Keep
        PROVE  p \in Pairs'
    <3>1. CASE p = <<m, r>>
      <4>1. SlotFor(m) \in Used' /\ p = <<s_clients'[SlotFor(m)].mac, s_clients'[SlotFor(m)].role>>
        BY <1>3, <3>1
      <4> QED BY <4>1 DEF Pairs
    <3>2. CASE p \in Pairs /\ p[1] # m
      <4>1. PICK i \in Used : p = <<s_clients[i].mac, s_clients[i].role>>
        BY <3>2 DEF Pairs
      <4>2. i # SlotFor(m)
        BY <1>4, <3>2, <4>1
      <4>3. i \in Used' /\ s_clients'[i] = s_clients[i]
        BY <1>3, <4>2 DEF Used
      <4> QED BY <4>1, <4>3 DEF Pairs
    <3> QED BY <2>2, <3>1, <3>2
  <2> QED BY <2>1, <2>2
<1> QED BY <1>1, <1>2, <1>5, <1>6 DEF Registry!Grant

LEMMA ClearedHasNoPairs ==
  ASSUME s_clients = Cleared
  PROVE  Pairs = {}
BY DEF Cleared, Pairs, Used

\* The table with its slots, searches and early returns implements the
\* registry, which has none of them.
THEOREM TableImplementsRegistry == TableSpec => ImplementsRegistry
<1>1. TableInit => Registry!Init
  BY ClearedHasNoPairs DEF TableInit, Registry!Init
<1>2. ASSUME TableInv, [TableNext]_tableVars
      PROVE  [Registry!Next]_(Registry!vars)
  <2>1. (s_clients = Cleared => Pairs = {})'
    BY ClearedHasNoPairs, PTL
  <2>2. CASE ProtocolInit
    BY <2>1, <2>2 DEF ProtocolInit, Cleared, Slot, Registry!Next, Registry!Start
  <2>3. CASE ProtocolDeinit
    BY <2>1, <2>3 DEF ProtocolDeinit, Cleared, Slot, Registry!Next, Registry!Stop
  <2>4. ASSUME NEW m \in Mac, NEW req \in RequestedRoles, Assign(m, req)
        PROVE  Registry!Next
    BY <1>2, <2>4, AssignIsGrant DEF Registry!Next
  <2>5. ASSUME UNCHANGED tableVars
        PROVE  UNCHANGED Registry!vars
    BY <2>5 DEF tableVars, Registry!vars, Pairs, Used
  <2>6. ASSUME NEW m \in Mac, NEW req \in RequestedRoles, Refuse(m, req)
        PROVE  UNCHANGED Registry!vars
    BY <2>5, <2>6 DEF Refuse
  <2> QED BY <1>2, <2>2, <2>3, <2>4, <2>5, <2>6 DEF TableNext
<1> QED BY <1>1, <1>2, TableInvAlways, PTL DEF TableSpec, ImplementsRegistry, Registry!Spec
=============================================================================
