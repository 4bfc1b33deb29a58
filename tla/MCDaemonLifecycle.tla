-------------------------- MODULE MCDaemonLifecycle --------------------------
(* One socket connection, one API request, two webhook workers.            *)
EXTENDS DaemonLifecycle

CONSTANTS c1, r1, w1, w2
=============================================================================
