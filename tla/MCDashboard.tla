---------------------------- MODULE MCDashboard ----------------------------
(* One container and two interfaces whose order differs for each key.      *)
EXTENDS Dashboard

CONSTANTS d1, i1, i2

MCLoad ==
  d1 :> [rx |-> 1, tx |-> 4] @@ i1 :> [rx |-> 3, tx |-> 1] @@ i2 :> [rx |-> 2, tx |-> 3]
=============================================================================
