-------------------------- MODULE MCSatelliteLink ---------------------------
(***************************************************************************)
(* Model values for SatelliteLink.                                         *)
(***************************************************************************)
EXTENDS SatelliteLink, TLC

SatSymmetry == Permutations(Mac)

OnlyUnknown == {Unknown}
NoCommands  == {}

\* An uninitialised hw_server: the right address by luck, or any other.
LuckyMac == {Server}
AnyMac   == {Server, ZeroMac}

\* An uninitialised type: one without effect, or any.
IdleType == {"CONTROLLER_CMD_REQUEST_STATUS"}
AnyType  == MessageTypes
=============================================================================
