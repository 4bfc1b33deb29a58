----------------------------- MODULE AppendLog -----------------------------
(***************************************************************************)
(* What a reader of the log files may rely on: as long as logging works,   *)
(* each line that is logged is added at the end, once, and nothing that    *)
(* was added is lost or moved.  Files and their rotation do not appear.    *)
(***************************************************************************)
EXTENDS Integers, Sequences

VARIABLES
  lines,      \* how many lines were logged
  log,        \* the log as one reads it, lines by number
  working     \* whether lines reach the log

visible == <<lines, log, working>>

Init ==
  /\ lines = 0
  /\ log = <<>>
  /\ working = TRUE

\* A line is logged; with it, logging may cease to work.
Line ==
  /\ working
  /\ lines' = lines + 1
  /\ log' = Append(log, lines + 1)
  /\ working' \in BOOLEAN

\* A line that is logged in vain.
Lost ==
  /\ ~working
  /\ lines' = lines + 1
  /\ UNCHANGED <<log, working>>

\* Logging ends, or starts anew.
Switch ==
  /\ working' \in BOOLEAN
  /\ UNCHANGED <<lines, log>>

Next == Line \/ Lost \/ Switch

Spec == Init /\ [][Next]_visible
=============================================================================
