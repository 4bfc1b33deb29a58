------------------------------- MODULE Shaper -------------------------------
(***************************************************************************)
(* What the rest of the daemon may rely on when it calls the Manager of    *)
(* internal/tc: each interface has a limit in either direction, or none,   *)
(* and an owner on the books, or none.  How a limit is made of qdiscs,     *)
(* which of the tc commands failed and what the manager remembers per      *)
(* container do not appear here.                                           *)
(*                                                                         *)
(* A limit comes into being only together with its owner.  What is in      *)
(* force may fade, in one direction or both, by a call that names the      *)
(* interface; it never becomes another limit, and no other interface loses *)
(* anything.  An owner that is struck off may leave its limit behind, since *)
(* the manager does not look whether tc did what it was told.              *)
(***************************************************************************)
CONSTANTS
  Owners,       \* containers
  Places,       \* interfaces
  Rates,        \* what a direction can be limited to
  NoRate,       \* not limited in this direction
  Nobody        \* no owner

VARIABLES
  limit,        \* the limit in force on each interface
  owner,        \* the owner on the books
  open          \* not closed yet

shaper == <<limit, owner, open>>

Init ==
  /\ limit = [i \in Places |-> [up |-> NoRate, down |-> NoRate]]
  /\ owner = [i \in Places |-> Nobody]
  /\ open = TRUE

\* The limits after those of U upwards and those of D downwards are gone.
Faded(U, D) ==
  [i \in Places |-> [up   |-> IF i \in U THEN NoRate ELSE limit[i].up,
                     down |-> IF i \in D THEN NoRate ELSE limit[i].down]]

\* A call of ApplyLimit that returns nil.  Downwards it may have put no limit
\* in force, or left the one that was there.
Impose(c, i) ==
  /\ owner' = [owner EXCEPT ![i] = c]
  /\ \E l \in [up : Rates, down : Rates \cup {NoRate, limit[i].down}] :
       limit' = [limit EXCEPT ![i] = l]
  /\ UNCHANGED open

\* A call of ApplyLimit that returns an error, or the interface goes away.
Lose(i) ==
  /\ UNCHANGED <<owner, open>>
  /\ \E U, D \in SUBSET {i} : limit' = Faded(U, D)

\* RemoveLimit frees one interface, RepairRules any number of them.
Release(S) ==
  /\ owner' = [i \in Places |-> IF i \in S THEN Nobody ELSE owner[i]]
  /\ \E U, D \in SUBSET S : limit' = Faded(U, D)
  /\ UNCHANGED open

\* RemoveAll forgets every owner.
Close ==
  /\ open' = FALSE
  /\ owner' = [i \in Places |-> Nobody]
  /\ \E U, D \in SUBSET Places : limit' = Faded(U, D)

Next ==
  \/ \E c \in Owners, i \in Places : Impose(c, i)
  \/ \E i \in Places : Lose(i)
  \/ \E S \in SUBSET Places : Release(S)
  \/ Close

Spec == Init /\ [][Next]_shaper
=============================================================================
