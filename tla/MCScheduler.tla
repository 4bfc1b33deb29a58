----------------------------- MODULE MCScheduler -----------------------------
(* Two jobs, one due at every tick and one at every other tick.            *)
EXTENDS Scheduler

CONSTANTS reset, discovery

MCInterval == [j \in {reset, discovery} |-> IF j = reset THEN 2 ELSE 4]
=============================================================================
