------------------------ MODULE MCClientTableAccess -------------------------
(***************************************************************************)
(* Model values for ClientTableAccess: satellites ask for either foot or   *)
(* for any.                                                                *)
(***************************************************************************)
EXTENDS ClientTableAccess, TLC

AnyRole    == {Left, Right, Unknown}
Satellites == Permutations(Mac)
=============================================================================
