SPECIFICATION LinkSpec
CONSTANTS
  Mac = {s1, s2}
  ZeroMac = zero
  Server = server
  MaxClients = 3
  RequestedRoles <- OnlyUnknown
  QueueSize = 2
  Commands <- NoCommands
  StackMac <- LuckyMac
  StackType <- IdleType
INVARIANTS
  LinkTypeOK
  OnePlayerPerFoot
SYMMETRY SatSymmetry
