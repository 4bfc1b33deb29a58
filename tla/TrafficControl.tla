--------------------------- MODULE TrafficControl ---------------------------
(***************************************************************************)
(* internal/tc/manager.go: the Manager that installs an HTB class and an   *)
(* ingress policer on the veth of each container, and the two maps in      *)
(* which it remembers what it installed.                                   *)
(*                                                                         *)
(* Every exported method runs under Manager.mu from its first access to    *)
(* the maps to its last tc command, so it is one step here.  Its callers   *)
(* (the poll loop, the reset job, the cleanup job, the socket handlers)    *)
(* pass container objects they obtained earlier, of whatever age: the      *)
(* arguments of a call are therefore unconstrained.                        *)
(*                                                                         *)
(* Rates are in bit/s: the float64 Mbps of the code times 10^6, so that    *)
(* the conversion to whole kbit can lose a fraction.                       *)
(***************************************************************************)
EXTENDS Integers

CONSTANTS
  Containers,   \* container IDs
  Ifaces,       \* names of host-side veth interfaces
  Profiles,     \* the speed fields a container object may carry
  Null          \* "no rule", "no owner", "not listed"

\* An exceeded speed below zero, which Validate does not refuse, is left out:
\* what uint64 makes of a negative float64 is up to the platform.
ASSUME ProfilesAssumption ==
  Profiles \subseteq [rx : Int, tx : Int, ceil : Int, xrx : Nat, xtx : Nat]
ASSUME NullAssumption == Null \notin Containers /\ Null \notin Ifaces

VARIABLES
  rules,      \* Manager.rules: container -> rule
  ifaceMap,   \* Manager.ifaceMap: interface -> container
  qdisc,      \* what the kernel has on each interface
  links,      \* the interfaces that exist
  closed,     \* RemoveAll has been called (Daemon.Stop)
  kept        \* history: what tc refused to delete on each interface when it
              \* was last told to

vars == <<rules, ifaceMap, qdisc, links, closed, kept>>

Rule == [iface : Ifaces, rx : Int, tx : Int, ceil : Int]

ASSUME NullIsNoRule == Null \notin Rule

\* The qdiscs of one interface: is there a root HTB, the rate of its class
\* 1:1 in kbit (0: no class), is there an ingress qdisc, the rate of its
\* policer (0: none).
Qdisc == [root : BOOLEAN, class : Nat, ingress : BOOLEAN, police : Nat]

Clean == [root |-> FALSE, class |-> 0, ingress |-> FALSE, police |-> 0]

Parts == {"root", "ingress"}

TypeOK ==
  /\ rules \in [Containers -> Rule \cup {Null}]
  /\ ifaceMap \in [Ifaces -> Containers \cup {Null}]
  /\ qdisc \in [Ifaces -> Qdisc]
  /\ links \in SUBSET Ifaces
  /\ closed \in BOOLEAN
  /\ kept \in [Ifaces -> SUBSET Parts]

Init ==
  /\ rules = [c \in Containers |-> Null]
  /\ ifaceMap = [i \in Ifaces |-> Null]
  /\ qdisc = [i \in Ifaces |-> Clean]
  /\ links = Ifaces
  /\ closed = FALSE
  /\ kept = [i \in Ifaces |-> {}]

-----------------------------------------------------------------------------
(* Which rates are asked for.                                              *)

OneMbps == 1000000

\* "tc requires positive rates": 1 Mbps stands in for a missing limit.
Positive(rate) == IF rate <= 0 THEN OneMbps ELSE rate

\* The class ceiling: twice the rate when unset, never below the rate.
Ceiling(ceil, rx) ==
  LET wanted == IF ceil <= 0 THEN 2 * rx ELSE ceil
  IN  IF wanted < rx THEN rx ELSE wanted

\* The rule ApplyLimit builds.  The exceeded speeds replace the guarded
\* rates as they are.
RuleFor(v, p, exceeded) ==
  [iface |-> v,
   rx    |-> IF exceeded THEN p.xrx ELSE Positive(p.rx),
   tx    |-> IF exceeded THEN p.xtx ELSE Positive(p.tx),
   ceil  |-> Ceiling(p.ceil, Positive(p.rx))]

\* uint64(Mbps * 1000)
Kbit(rate) == rate \div 1000

-----------------------------------------------------------------------------
(* The tc commands.                                                        *)

\* `tc qdisc del` of the root and of the ingress qdisc may each fail, with an
\* error that no caller looks at; whatever of q is in refused stays.
Deleted(q, refused) ==
  [root    |-> q.root /\ "root" \in refused,
   class   |-> IF "root" \in refused THEN q.class ELSE 0,
   ingress |-> q.ingress /\ "ingress" \in refused,
   police  |-> IF "ingress" \in refused THEN q.police ELSE 0]

\* What tc can refuse to delete on i: what is there.
Refusals(i) == SUBSET {part \in Parts : qdisc[i][part]}

\* The ways the commands that add can end, in the order they run.  The first
\* two return an error to ApplyLimit, the next two are only logged.
Outcomes == {"noRoot", "noClass", "noIngress", "noPolice", "ok"}

Failures == {"noRoot", "noClass"}

\* tc rejects any command on a missing interface, a second root qdisc and a
\* class of rate 0.
Possible(rule, refused, outcome) ==
  /\ rule.iface \notin links \/ "root" \in refused => outcome = "noRoot"
  /\ Kbit(rule.tx) = 0 => outcome \in Failures

\* applyRule: both old qdiscs are deleted, then the new ones are added until
\* one command fails.  A policer of rate 0 is not installed; behind an old one
\* that stayed, which drops what is above its own rate and passes the rest, a
\* new one sees nothing.
Applied(rule, refused, outcome) ==
  LET old     == Deleted(qdisc[rule.iface], refused)
      policed == outcome # "noIngress" /\ Kbit(rule.rx) > 0
  IN  CASE outcome = "noRoot"  -> old
        [] outcome = "noClass" -> [old EXCEPT !.root = TRUE]
        [] OTHER -> [root    |-> TRUE,
                     class   |-> Kbit(rule.tx),
                     ingress |-> old.ingress \/ policed,
                     police  |-> IF old.police = 0 /\ policed /\ outcome # "noPolice"
                                 THEN Kbit(rule.rx) ELSE old.police]

\* The qdiscs of rule's interface after applyRule, and what it could not delete.
Installs(rule, refused, outcome) ==
  /\ Possible(rule, refused, outcome)
  /\ qdisc' = [qdisc EXCEPT ![rule.iface] = Applied(rule, refused, outcome)]
  /\ kept' = [kept EXCEPT ![rule.iface] = refused]

\* removeRuleByIface for each interface of S.
Cleans(S) ==
  \E refused \in [S -> SUBSET Parts] :
    /\ \A i \in S : refused[i] \in Refusals(i)
    /\ qdisc' = [i \in Ifaces |-> IF i \in S THEN Deleted(qdisc[i], refused[i]) ELSE qdisc[i]]
    /\ kept' = [i \in Ifaces |-> IF i \in S THEN refused[i] ELSE kept[i]]

\* verifyRule: any HTB or ingress qdisc will do.
Verified(i) == i \in links /\ (qdisc[i].root \/ qdisc[i].ingress)

-----------------------------------------------------------------------------
(* The methods of Manager.                                                 *)

\* Mutant: the maps are filled before the commands run.
ApplyFailsBooked(c, v, p, exceeded) ==
  LET rule == RuleFor(v, p, exceeded)
  IN  /\ \E refused \in Refusals(v), outcome \in Failures : Installs(rule, refused, outcome)
      /\ rules' = [rules EXCEPT ![c] = rule]
      /\ ifaceMap' = [ifaceMap EXCEPT ![v] = c]
      /\ UNCHANGED <<links, closed>>

ApplyFails(c, v, p, exceeded) ==
  LET rule == RuleFor(v, p, exceeded)
  IN  /\ \E refused \in Refusals(v), outcome \in Failures : Installs(rule, refused, outcome)
      /\ UNCHANGED <<rules, ifaceMap, links, closed>>

\* Mutant: the maps are filled the wrong way round.
ApplySucceedsSwapped(c, v, p, exceeded) ==
  LET rule == RuleFor(v, p, exceeded)
  IN  /\ \E refused \in Refusals(v), outcome \in Outcomes \ Failures :
           Installs(rule, refused, outcome)
      /\ rules' = [rules EXCEPT ![c] = rule]
      /\ ifaceMap' = [ifaceMap EXCEPT ![v] = v]
      /\ UNCHANGED <<links, closed>>

\* Mutant: a container that already has a rule keeps it in the map.
ApplySucceedsKeeping(c, v, p, exceeded) ==
  LET rule == RuleFor(v, p, exceeded)
  IN  /\ \E refused \in Refusals(v), outcome \in Outcomes \ Failures :
           Installs(rule, refused, outcome)
      /\ rules' = IF rules[c] = Null THEN [rules EXCEPT ![c] = rule] ELSE rules
      /\ ifaceMap' = [ifaceMap EXCEPT ![v] = c]
      /\ UNCHANGED <<links, closed>>

ApplySucceeds(c, v, p, exceeded) ==
  LET rule == RuleFor(v, p, exceeded)
  IN  /\ \E refused \in Refusals(v), outcome \in Outcomes \ Failures :
           Installs(rule, refused, outcome)
      /\ rules' = [rules EXCEPT ![c] = rule]
      /\ ifaceMap' = [ifaceMap EXCEPT ![v] = c]
      /\ UNCHANGED <<links, closed>>

\* A container without a veth is refused before anything is touched, so
\* only calls with an interface appear.
ApplyLimit(c, v, p, exceeded) ==
  ApplyFails(c, v, p, exceeded) \/ ApplySucceeds(c, v, p, exceeded)

\* Mutant: every entry of the container leaves ifaceMap, but only the
\* interface of its last rule is cleaned.
RemoveLimitForgetting(c) ==
  /\ rules[c] # Null
  /\ Cleans({rules[c].iface})
  /\ ifaceMap' = [i \in Ifaces |-> IF ifaceMap[i] = c THEN Null ELSE ifaceMap[i]]
  /\ rules' = [rules EXCEPT ![c] = Null]
  /\ UNCHANGED <<links, closed>>

RemoveLimit(c) ==
  /\ rules[c] # Null
  /\ Cleans({rules[c].iface})
  /\ ifaceMap' = [ifaceMap EXCEPT ![rules[c].iface] = Null]
  /\ rules' = [rules EXCEPT ![c] = Null]
  /\ UNCHANGED <<links, closed>>

\* Mutant: only the owner's presence in the list is tested.
StaleById(list) == {i \in Ifaces : ifaceMap[i] # Null /\ list[ifaceMap[i]] = Null}

\* The interfaces whose recorded owner is not listed with that interface.
Stale(list) == {i \in Ifaces : ifaceMap[i] # Null /\ list[ifaceMap[i]] # i}

\* list maps each container of the caller's list to its veth, and the others
\* to Null.
RepairRules(list) ==
  /\ ifaceMap' = [i \in Ifaces |-> IF i \in Stale(list) THEN Null ELSE ifaceMap[i]]
  /\ rules' = [c \in Containers |->
                 IF \E i \in Stale(list) : ifaceMap[i] = c THEN Null ELSE rules[c]]
  /\ UNCHANGED <<links, closed>>
  /\ Cleans(Stale(list))

Ruled == {i \in Ifaces : \E c \in Containers : rules[c] # Null /\ rules[c].iface = i}

RemoveAll ==
  /\ Cleans(Ruled)
  /\ rules' = [c \in Containers |-> Null]
  /\ ifaceMap' = [i \in Ifaces |-> Null]
  /\ closed' = TRUE
  /\ UNCHANGED links

\* VerifyAll: the rules it reports as missing.
VerifyAll == {c \in Containers : rules[c] # Null /\ ~Verified(rules[c].iface)}

-----------------------------------------------------------------------------
(* A veth goes with its container and takes its qdiscs with it; docker may *)
(* create one under the same name again.                                   *)

LinkDown(i) ==
  /\ i \in links
  /\ links' = links \ {i}
  /\ qdisc' = [qdisc EXCEPT ![i] = Clean]
  /\ kept' = [kept EXCEPT ![i] = {}]
  /\ UNCHANGED <<rules, ifaceMap, closed>>

LinkUp(i) ==
  /\ i \notin links
  /\ links' = links \cup {i}
  /\ UNCHANGED <<rules, ifaceMap, qdisc, closed, kept>>

Lists == [Containers -> Ifaces \cup {Null}]

Next ==
  \/ \E c \in Containers, v \in Ifaces, p \in Profiles, exceeded \in BOOLEAN :
       ApplyLimit(c, v, p, exceeded)
  \/ \E c \in Containers : RemoveLimit(c)
  \/ \E list \in Lists : RepairRules(list)
  \/ RemoveAll
  \/ \E i \in Ifaces : LinkDown(i) \/ LinkUp(i)

Spec == Init /\ [][Next]_vars

-----------------------------------------------------------------------------
(* Properties.                                                             *)

Shaped(i) == qdisc[i].class > 0

\* The directions in which the traffic of i is really limited, each named by
\* the qdisc that does it.
Limited(i) == {part \in Parts : IF part = "root" THEN Shaped(i) ELSE qdisc[i].police > 0}

\* Until the daemon stops, every limit that the kernel enforces on an
\* interface without an owner is one that tc refused to delete when that
\* interface was last cleaned.  Nothing else makes the manager forget a limit:
\* no sequence of applies, of applies that fail at any command, moves of a
\* container to another veth, repairs and removals.
EnforcedIsTracked ==
  ~closed => \A i \in Ifaces : Limited(i) \subseteq kept[i] \/ ifaceMap[i] # Null

\* When the owner recorded for a limited interface has a rule for that
\* interface, the kernel enforces the rate of that very rule, also when two
\* containers share the interface or an owner moved away and came back.
OwnerRateIsCurrent ==
  \A i \in Ifaces, c \in Containers :
    (/\ Shaped(i)
     /\ ifaceMap[i] = c
     /\ rules[c] # Null
     /\ rules[c].iface = i)
    => qdisc[i].class = Kbit(rules[c].tx)

\* A repair (until the daemon stops) leaves limits only on interfaces that the
\* list it was given assigns to some container, but for those that tc refused
\* to delete, now or when the interface was last cleaned: nothing else that
\* belonged to a departed container, or to an earlier veth of one, stays.
RepairLeavesOnlyListed ==
  [][\A list \in Lists :
       ~closed /\ RepairRules(list) =>
         \A i \in Ifaces :
           Limited(i)' \subseteq kept'[i] \/ \E c \in Containers : list[c] = i]_vars

-----------------------------------------------------------------------------
(* What the callers of the manager may rely on: module Shaper.             *)

\* The rates, in kbit, of the rules that ApplyLimit can build.
Kbits ==
  {Kbit(RuleFor(v, p, x).tx) : v \in Ifaces, p \in Profiles, x \in BOOLEAN} \cup
  {Kbit(RuleFor(v, p, x).rx) : v \in Ifaces, p \in Profiles, x \in BOOLEAN}

\* In force on an interface: the rates of its class and of its policer.
InForce(i) == [up |-> qdisc[i].class, down |-> qdisc[i].police]

Abstract == INSTANCE Shaper WITH
  Owners <- Containers,
  Places <- Ifaces,
  Rates  <- Kbits \ {0},
  NoRate <- 0,
  Nobody <- Null,
  limit  <- [i \in Ifaces |-> InForce(i)],
  owner  <- ifaceMap,
  open   <- ~closed

\* The manager with its qdiscs, its two maps and tc commands any of which may
\* fail implements the abstract shaper: a limit comes into force only together
\* with its owner, whatever fails makes a limit fade and never turns it into
\* another, and only on the interfaces that the call is about.
ImplementsShaper == Abstract!Spec

-----------------------------------------------------------------------------
(* Claims of the comments in manager.go that the code does not keep.       *)

\* manager.go:120 "RemoveLimit removes tc rules for a container", and its "tc:
\* remove failed" otherwise: afterwards the interface of the rule is clean, or
\* still on the books.
RemovalRemoves ==
  [][\A c \in Containers :
       RemoveLimit(c) => LET i == rules[c].iface
                         IN  qdisc'[i] = Clean \/ ifaceMap'[i] # Null]_vars

\* manager.go:171 "RemoveAll removes all tc rules managed by this system":
\* every interface the manager has on its books is clean afterwards.
RemoveAllRemoves ==
  [][closed' /\ ~closed =>
       \A i \in Ifaces : ifaceMap[i] # Null => qdisc'[i] = Clean]_vars

\* manager.go:188 "VerifyAll checks that all managed tc rules are properly
\* applied": a rule it does not report as missing is limiting its interface.
VerifyAllIsSound ==
  \A c \in Containers :
    rules[c] # Null /\ c \notin VerifyAll => Shaped(rules[c].iface)

\* manager.go:145 "RepairRules verifies and repairs all active tc rules": the
\* rule of a container listed on an existing interface is in place afterwards.
RepairRepairs ==
  [][\A list \in Lists :
       RepairRules(list) =>
         \A c \in Containers, i \in links :
           (/\ rules[c] # Null
            /\ rules[c].iface = i
            /\ ifaceMap[i] = c
            /\ list[c] = i)
           => Verified(i)']_vars

\* manager.go:73 "Guard against zero/negative rates - tc requires positive
\* rates": the class rate ApplyLimit asks for is never zero.
RatesArePositive ==
  [][\A c \in Containers, v \in Ifaces, p \in Profiles, exceeded \in BOOLEAN :
       ApplyLimit(c, v, p, exceeded) => Kbit(RuleFor(v, p, exceeded).tx) > 0]_vars
=============================================================================
