SPECIFICATION TableSpec
CONSTANTS
  Mac = {m1, m2, m3, m4, m5, m6, m7, m8}
  ZeroMac = zero
  MaxClients = 3
  RequestedRoles <- AnyRole
INVARIANTS
  TableTypeOK
  OneSatellitePerRole
  OneSlotPerSatellite
  UsedSlotsAreComplete
  RefusedOnlyForTakenFeet
PROPERTIES
  FrozenWhenPaired
  ImplementsRegistry
