---------------------------- MODULE RoleRegistry ----------------------------
(***************************************************************************)
(* What the controller promises about satellites and feet, with no table,  *)
(* no slots and no error codes: while the service is up, a satellite (its  *)
(* MAC address) holds at most one role and a role has at most one holder.  *)
(* A satellite may be moved to another role as long as nobody else holds   *)
(* it; stopping or starting the service forgets everybody.                 *)
(*                                                                         *)
(* ClientTable is the detailed specification that implements this one.     *)
(***************************************************************************)
CONSTANTS Mac, Role

VARIABLES up,        \* the service answers
          assigned   \* the set of pairs <<satellite, role>> in force

vars == <<up, assigned>>

Init == /\ up = FALSE
        /\ assigned = {}

Start == /\ ~up
         /\ up' = TRUE
         /\ assigned' = {}

Stop == /\ up
        /\ up' = FALSE
        /\ assigned' = {}

Grant(m, r) ==
  /\ up
  /\ \A p \in assigned : p[2] = r => p[1] = m
  /\ assigned' = {p \in assigned : p[1] # m} \cup {<<m, r>>}
  /\ UNCHANGED up

Next == \/ Start
        \/ Stop
        \/ \E m \in Mac, r \in Role : Grant(m, r)

Spec == Init /\ [][Next]_vars
=============================================================================
