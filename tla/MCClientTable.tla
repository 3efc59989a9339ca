--------------------------- MODULE MCClientTable ----------------------------
(***************************************************************************)
(* Model values for ClientTable: more satellites than feet and than slots, *)
(* asking for either foot or for any.                                      *)
(***************************************************************************)
EXTENDS ClientTable

AnyRole == {Left, Right, Unknown}
=============================================================================
