SPECIFICATION FairLinkSpec
CONSTANTS
  Mac = {s1}
  ZeroMac = zero
  Server = server
  MaxClients = 3
  RequestedRoles <- OnlyUnknown
  QueueSize = 2
  Commands <- CommandTypes
  StackMac <- AnyMac
  StackType <- AnyType
INVARIANTS
  ConnectedIsRegistered
PROPERTIES
  EverySearchEnds
