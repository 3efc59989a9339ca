---------------------------- MODULE MCLinkTiming ----------------------------
(***************************************************************************)
(* Model values for LinkTiming.                                            *)
(***************************************************************************)
EXTENDS LinkTiming

OnlyUnknown == {Unknown}
NoCommands  == {}
LuckyMac    == {Server}
IdleType    == {"CONTROLLER_CMD_REQUEST_STATUS"}
=============================================================================
