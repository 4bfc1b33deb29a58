-------------------------- MODULE MCTrafficControl --------------------------
(* Two containers, two veths and a configuration whose exceeded speed is   *)
(* 0.  The speeds are those of a container that went through Daemon.Start, *)
(* and those of an object fresh from `docker inspect`.  Containers are     *)
(* alike, and so are veths.                                                *)
EXTENDS TrafficControl, TLC

CONSTANTS c1, c2, i1, i2

MCProfiles ==
  {[rx |-> 2000000, tx |-> 2000000, ceil |-> 2000000, xrx |-> 0, xtx |-> 0],
   [rx |-> 0, tx |-> 0, ceil |-> 0, xrx |-> 0, xtx |-> 0]}

Alike == Permutations(Containers) \cup Permutations(Ifaces)
=============================================================================
