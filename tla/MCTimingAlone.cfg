SPECIFICATION TimedSpec
CONSTANTS
  Mac = {s1}
  ZeroMac = zero
  Server = server
  MaxClients = 3
  RequestedRoles <- OnlyUnknown
  QueueSize = 2
  Commands <- NoCommands
  StackMac <- LuckyMac
  StackType <- IdleType
  TimeoutTicks = 6
  HeartbeatTicks = 2
INVARIANTS
  TimedTypeOK
  SilenceEndsConnection
  TimeoutNeedsLosses
