SPECIFICATION FairLinkSpec
CONSTANTS
  Mac = {s1, s2}
  ZeroMac = zero
  Server = server
  MaxClients = 3
  RequestedRoles <- OnlyUnknown
  QueueSize = 2
  Commands <- NoCommands
  StackMac <- LuckyMac
  StackType <- IdleType
PROPERTIES
  EverySearchEnds
