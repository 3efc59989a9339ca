SPECIFICATION AccessSpec
CONSTANTS
  Mac = {m1, m2}
  ZeroMac = zero
  Torn = torn
  Heartbeat = heartbeat
  Command = command
  MaxClients = 3
  RequestedRoles <- AnyRole
SYMMETRY Satellites
INVARIANTS
  AccessTypeOK
  NobodyForgotten
  SendsOnlyToClients
PROPERTIES
  AccessImplementsRegistry
