------------------------ MODULE TrafficControlProofs ------------------------
(***************************************************************************)
(* The safety properties of the tc Manager, for every set of containers    *)
(* and interfaces and every set of speed profiles.                         *)
(***************************************************************************)
EXTENDS TrafficControl, TLAPS

\* The guards of ApplyLimit yield integers, whatever the profile holds.
LEMMA RuleForType ==
  ASSUME NEW v \in Ifaces, NEW p \in Profiles, NEW exceeded \in BOOLEAN
  PROVE  RuleFor(v, p, exceeded) \in Rule
<1>1. p \in [rx : Int, tx : Int, ceil : Int, xrx : Nat, xtx : Nat]
  BY ProfilesAssumption
<1>2. Positive(p.rx) \in Int /\ Positive(p.tx) \in Int
  BY <1>1 DEF Positive, OneMbps
<1>3. Ceiling(p.ceil, Positive(p.rx)) \in Int
  BY <1>1, <1>2 DEF Ceiling
<1> QED BY <1>1, <1>2, <1>3 DEF RuleFor, Rule

\* A rate that is not negative converts to a natural number of kbit.
LEMMA RuleKbit ==
  ASSUME NEW v \in Ifaces, NEW p \in Profiles, NEW exceeded \in BOOLEAN
  PROVE  /\ Kbit(RuleFor(v, p, exceeded).tx) \in Nat
         /\ Kbit(RuleFor(v, p, exceeded).rx) \in Nat
<1>1. p \in [rx : Int, tx : Int, ceil : Int, xrx : Nat, xtx : Nat]
  BY ProfilesAssumption
<1>2. Positive(p.rx) \in Nat /\ Positive(p.tx) \in Nat
  BY <1>1 DEF Positive, OneMbps
<1>3. /\ RuleFor(v, p, exceeded).tx \in Nat
      /\ RuleFor(v, p, exceeded).rx \in Nat
  BY <1>1, <1>2 DEF RuleFor
<1>4. \A n \in Nat : n \div 1000 \in Nat
  OBVIOUS
<1> QED BY <1>3, <1>4 DEF Kbit

\* What is left of the qdiscs when some refuse to be deleted.
LEMMA DeletedQdisc ==
  ASSUME NEW q \in Qdisc, NEW refused \in SUBSET Parts
  PROVE  /\ Deleted(q, refused) \in Qdisc
         /\ Deleted(q, refused).class = (IF "root" \in refused THEN q.class ELSE 0)
         /\ Deleted(q, refused).police = (IF "ingress" \in refused THEN q.police ELSE 0)
BY DEF Deleted, Qdisc

\* What applyRule leaves on the interface, for each way it can end.
LEMMA AppliedQdisc ==
  ASSUME TypeOK, NEW rule, rule.iface \in Ifaces,
         Kbit(rule.tx) \in Nat, Kbit(rule.rx) \in Nat,
         NEW refused \in SUBSET Parts, NEW outcome \in Outcomes,
         Possible(rule, refused, outcome)
  PROVE  LET new == Applied(rule, refused, outcome)
             old == qdisc[rule.iface]
         IN  /\ new \in Qdisc
             /\ outcome \in Failures =>
                  /\ new.class = (IF "root" \in refused THEN old.class ELSE 0)
                  /\ new.police = (IF "ingress" \in refused THEN old.police ELSE 0)
             /\ outcome \notin Failures =>
                  /\ new.class = Kbit(rule.tx)
                  /\ new.police \in {0, Kbit(rule.rx), old.police}
<1> DEFINE q   == qdisc[rule.iface]
           old == Deleted(q, refused)
<1>1. q \in Qdisc
  BY DEF TypeOK
<1>2. /\ old \in Qdisc
      /\ old.class = (IF "root" \in refused THEN q.class ELSE 0)
      /\ old.police = (IF "ingress" \in refused THEN q.police ELSE 0)
  BY <1>1, DeletedQdisc
<1>3. CASE outcome = "noRoot"
  <2>1. Applied(rule, refused, outcome) = old
    BY <1>3 DEF Applied
  <2>2. outcome \in Failures
    BY <1>3 DEF Failures
  <2> HIDE DEF old
  <2> QED BY <1>2, <2>1, <2>2
<1>4. CASE outcome = "noClass"
  <2> DEFINE bare == [old EXCEPT !.root = TRUE]
  <2>1. Applied(rule, refused, outcome) = bare
    BY <1>4 DEF Applied
  <2>2. outcome \in Failures
    BY <1>4 DEF Failures
  <2> HIDE DEF old
  <2>3. bare \in Qdisc /\ bare.class = old.class /\ bare.police = old.police
    BY <1>2 DEF Qdisc
  <2> HIDE DEF bare
  <2> QED BY <1>2, <2>1, <2>2, <2>3
<1>5. CASE outcome \notin Failures
  <2> DEFINE policed == outcome # "noIngress" /\ Kbit(rule.rx) > 0
             ingress == old.ingress \/ policed
             police  == IF old.police = 0 /\ policed /\ outcome # "noPolice"
                        THEN Kbit(rule.rx) ELSE old.police
  <2>1. Applied(rule, refused, outcome) =
          [root |-> TRUE, class |-> Kbit(rule.tx), ingress |-> ingress,
           police |-> police]
    BY <1>5 DEF Applied, Failures
  <2>2. q.police \in Nat
    BY <1>1 DEF Qdisc
  <2> HIDE DEF old, q
  <2>3. /\ ingress \in BOOLEAN
    BY <1>2 DEF Qdisc
  <2>4. police \in Nat /\ police \in {0, Kbit(rule.rx), q.police}
    BY <1>2, <2>2
  <2> HIDE DEF policed, ingress, police
  <2>5. Applied(rule, refused, outcome) \in Qdisc
    BY <2>1, <2>3, <2>4 DEF Qdisc
  <2> QED BY <1>5, <2>1, <2>4, <2>5 DEF q
<1> QED BY <1>3, <1>4, <1>5 DEF Failures

\* What refuses to be deleted is a part.
LEMMA RefusalsType == \A i : Refusals(i) \subseteq SUBSET Parts
BY DEF Refusals

\* A call that fails: the limits of its interface are what tc refused to
\* delete, and the others are what they were.
LEMMA Failing ==
  ASSUME TypeOK, NEW c \in Containers, NEW v \in Ifaces, NEW p \in Profiles,
         NEW exceeded \in BOOLEAN, ApplyFails(c, v, p, exceeded)
  PROVE  /\ qdisc' \in [Ifaces -> Qdisc] /\ kept' \in [Ifaces -> SUBSET Parts]
         /\ qdisc'[v].class \in {0, qdisc[v].class}
         /\ qdisc'[v].police \in {0, qdisc[v].police}
         /\ Limited(v)' \subseteq kept'[v]
         /\ \A i \in Ifaces \ {v} : qdisc'[i] = qdisc[i] /\ kept'[i] = kept[i]
         /\ UNCHANGED <<rules, ifaceMap, links, closed>>
<1> DEFINE rule == RuleFor(v, p, exceeded)
<1>1. PICK refused \in Refusals(v), outcome \in Failures : Installs(rule, refused, outcome)
  BY DEF ApplyFails
<1>2. rule.iface = v /\ Kbit(rule.tx) \in Nat /\ Kbit(rule.rx) \in Nat
  BY RuleKbit DEF RuleFor
<1> HIDE DEF rule
<1>3. refused \in SUBSET Parts /\ outcome \in Outcomes
  BY RefusalsType DEF Failures, Outcomes
<1> DEFINE new == Applied(rule, refused, outcome)
<1>4. Possible(rule, refused, outcome)
  BY <1>1 DEF Installs
<1>5. /\ new \in Qdisc
      /\ new.class = (IF "root" \in refused THEN qdisc[v].class ELSE 0)
      /\ new.police = (IF "ingress" \in refused THEN qdisc[v].police ELSE 0)
  BY <1>2, <1>3, <1>4, AppliedQdisc
<1> HIDE DEF new
<1>6. /\ qdisc' = [qdisc EXCEPT ![v] = new]
      /\ kept' = [kept EXCEPT ![v] = refused]
  BY <1>1, <1>2 DEF Installs, new
<1>7. qdisc'[v] = new /\ kept'[v] = refused
  BY <1>6 DEF TypeOK
<1>8. Limited(v)' \subseteq kept'[v]
  BY <1>5, <1>7 DEF Limited, Shaped, Parts
<1>9. UNCHANGED <<rules, ifaceMap, links, closed>>
  BY DEF ApplyFails
<1> QED BY <1>3, <1>5, <1>6, <1>7, <1>8, <1>9 DEF TypeOK

\* A call that succeeds: the class is the rule's; the policer is too, or it is
\* missing, or an old one that stayed.
LEMMA Succeeding ==
  ASSUME TypeOK, NEW c \in Containers, NEW v \in Ifaces, NEW p \in Profiles,
         NEW exceeded \in BOOLEAN, ApplySucceeds(c, v, p, exceeded)
  PROVE  LET rule == RuleFor(v, p, exceeded)
         IN  /\ rule \in Rule /\ rule.iface = v
             /\ qdisc' \in [Ifaces -> Qdisc] /\ kept' \in [Ifaces -> SUBSET Parts]
             /\ qdisc'[v].class = Kbit(rule.tx) /\ Kbit(rule.tx) # 0
             /\ qdisc'[v].police \in {0, Kbit(rule.rx), qdisc[v].police}
             /\ \A i \in Ifaces \ {v} : qdisc'[i] = qdisc[i] /\ kept'[i] = kept[i]
             /\ rules' = [rules EXCEPT ![c] = rule]
             /\ ifaceMap' = [ifaceMap EXCEPT ![v] = c]
             /\ UNCHANGED <<links, closed>>
<1> DEFINE rule == RuleFor(v, p, exceeded)
<1>1. PICK refused \in Refusals(v), outcome \in Outcomes \ Failures :
        Installs(rule, refused, outcome)
  BY DEF ApplySucceeds
<1>2. /\ rule \in Rule /\ rule.iface = v
      /\ Kbit(rule.tx) \in Nat /\ Kbit(rule.rx) \in Nat
  BY RuleForType, RuleKbit DEF RuleFor
<1>3. /\ rules' = [rules EXCEPT ![c] = rule]
      /\ ifaceMap' = [ifaceMap EXCEPT ![v] = c]
      /\ UNCHANGED <<links, closed>>
  BY DEF ApplySucceeds
<1> HIDE DEF rule
<1>4. refused \in SUBSET Parts
  BY RefusalsType
<1> DEFINE new == Applied(rule, refused, outcome)
<1>5. Possible(rule, refused, outcome)
  BY <1>1 DEF Installs
<1>6. /\ new \in Qdisc
      /\ new.class = Kbit(rule.tx)
      /\ new.police \in {0, Kbit(rule.rx), qdisc[v].police}
  BY <1>2, <1>4, <1>5, AppliedQdisc
<1>7. Kbit(rule.tx) # 0
  BY <1>5 DEF Possible
<1> HIDE DEF new
<1>8. /\ qdisc' = [qdisc EXCEPT ![v] = new]
      /\ kept' = [kept EXCEPT ![v] = refused]
  BY <1>1, <1>2 DEF Installs, new
<1>9. qdisc'[v] = new
  BY <1>8 DEF TypeOK
<1> QED BY <1>2, <1>3, <1>4, <1>6, <1>7, <1>8, <1>9 DEF TypeOK, rule

\* Cleaning a set of interfaces: their limits are what tc refused to delete,
\* and the others are what they were.
LEMMA Cleaning ==
  ASSUME TypeOK, NEW S \in SUBSET Ifaces, Cleans(S)
  PROVE  /\ qdisc' \in [Ifaces -> Qdisc] /\ kept' \in [Ifaces -> SUBSET Parts]
         /\ \A i \in S : /\ qdisc'[i].class \in {0, qdisc[i].class}
                         /\ qdisc'[i].police \in {0, qdisc[i].police}
                         /\ Limited(i)' \subseteq kept'[i]
         /\ \A i \in Ifaces \ S : qdisc'[i] = qdisc[i] /\ kept'[i] = kept[i]
<1>1. PICK refused \in [S -> SUBSET Parts] :
        /\ qdisc' = [i \in Ifaces |-> IF i \in S THEN Deleted(qdisc[i], refused[i]) ELSE qdisc[i]]
        /\ kept' = [i \in Ifaces |-> IF i \in S THEN refused[i] ELSE kept[i]]
  BY DEF Cleans
<1>2. ASSUME NEW i \in S
      PROVE  /\ qdisc'[i] \in Qdisc /\ kept'[i] \in SUBSET Parts
             /\ qdisc'[i].class \in {0, qdisc[i].class}
             /\ qdisc'[i].police \in {0, qdisc[i].police}
             /\ Limited(i)' \subseteq kept'[i]
  <2>1. qdisc[i] \in Qdisc /\ refused[i] \in SUBSET Parts
    BY DEF TypeOK
  <2>2. qdisc'[i] = Deleted(qdisc[i], refused[i]) /\ kept'[i] = refused[i]
    BY <1>1
  <2>3. /\ qdisc'[i] \in Qdisc
        /\ qdisc'[i].class = (IF "root" \in refused[i] THEN qdisc[i].class ELSE 0)
        /\ qdisc'[i].police = (IF "ingress" \in refused[i] THEN qdisc[i].police ELSE 0)
    BY <2>1, <2>2, DeletedQdisc
  <2>4. Limited(i)' \subseteq kept'[i]
    BY <2>2, <2>3 DEF Limited, Shaped, Parts
  <2> QED BY <2>1, <2>2, <2>3, <2>4
<1>3. \A i \in Ifaces \ S : qdisc'[i] = qdisc[i] /\ kept'[i] = kept[i]
  BY <1>1
<1>4. qdisc' \in [Ifaces -> Qdisc] /\ kept' \in [Ifaces -> SUBSET Parts]
  BY <1>1, <1>2, <1>3 DEF TypeOK
<1> QED BY <1>2, <1>3, <1>4

\* What the methods clean are interfaces.
LEMMA CleanedIfaces ==
  ASSUME TypeOK
  PROVE  /\ \A c \in Containers : rules[c] # Null => {rules[c].iface} \in SUBSET Ifaces
         /\ \A list \in Lists : Stale(list) \in SUBSET Ifaces
         /\ Ruled \in SUBSET Ifaces
BY DEF TypeOK, Rule, Stale, Ruled

-----------------------------------------------------------------------------
(* Type correctness.                                                       *)

\* The maps hold rules and container IDs and the kernel state of every
\* interface is a qdisc, whatever calls are made and however tc fails.
THEOREM TypeCorrect == Spec => []TypeOK
<1>1. Init => TypeOK
  <2>1. Clean \in Qdisc
    BY DEF Clean, Qdisc
  <2> QED BY <2>1 DEF Init, TypeOK
<1>2. TypeOK /\ [Next]_vars => TypeOK'
  <2> SUFFICES ASSUME TypeOK, [Next]_vars PROVE TypeOK'
    OBVIOUS
  <2>1. Clean \in Qdisc
    BY DEF Clean, Qdisc
  <2>2. ASSUME NEW c \in Containers, NEW v \in Ifaces, NEW p \in Profiles,
               NEW exceeded \in BOOLEAN, ApplyLimit(c, v, p, exceeded)
        PROVE  TypeOK'
    <3>1. CASE ApplyFails(c, v, p, exceeded)
      BY <3>1, Failing DEF TypeOK
    <3>2. CASE ApplySucceeds(c, v, p, exceeded)
      BY <3>2, Succeeding DEF TypeOK
    <3> QED BY <2>2, <3>1, <3>2 DEF ApplyLimit
  <2>3. ASSUME NEW c \in Containers, RemoveLimit(c)
        PROVE  TypeOK'
    BY <2>3, Cleaning, CleanedIfaces DEF RemoveLimit, TypeOK
  <2>4. ASSUME NEW list \in Lists, RepairRules(list)
        PROVE  TypeOK'
    BY <2>4, Cleaning, CleanedIfaces DEF RepairRules, TypeOK
  <2>5. CASE RemoveAll
    BY <2>5, Cleaning, CleanedIfaces DEF RemoveAll, TypeOK
  <2>6. ASSUME NEW i \in Ifaces, LinkDown(i) \/ LinkUp(i)
        PROVE  TypeOK'
    BY <2>1, <2>6 DEF LinkDown, LinkUp, TypeOK
  <2>7. CASE UNCHANGED vars
    BY <2>7 DEF vars, TypeOK
  <2> QED BY <2>2, <2>3, <2>4, <2>5, <2>6, <2>7 DEF Next
<1> QED BY <1>1, <1>2, PTL DEF Spec

-----------------------------------------------------------------------------
(* The books and the kernel.                                               *)

\* What an interface is limited by depends on its qdiscs alone.
LEMMA LimitedStays ==
  ASSUME NEW i, qdisc'[i] = qdisc[i]
  PROVE  Limited(i)' = Limited(i)
BY DEF Limited, Shaped

\* Until RemoveAll, no limit is enforced that is not on the books, unless tc
\* refused to delete it.  EnforcedIsTracked is inductive relative to TypeOK: a
\* limit appears only together with its ifaceMap entry, and every method that
\* drops an entry also tells tc to clean the interface.
THEOREM Tracked == Spec => []EnforcedIsTracked
<1>1. Init => EnforcedIsTracked
  BY DEF Init, EnforcedIsTracked, Limited, Shaped, Clean, Parts
<1>2. TypeOK /\ EnforcedIsTracked /\ [Next]_vars => EnforcedIsTracked'
  <2> SUFFICES ASSUME TypeOK, EnforcedIsTracked, [Next]_vars, ~closed', NEW j \in Ifaces
               PROVE  Limited(j)' \subseteq kept'[j] \/ ifaceMap'[j] # Null
    BY DEF EnforcedIsTracked
  <2>1. ASSUME ~closed, qdisc'[j] = qdisc[j], kept'[j] = kept[j], ifaceMap'[j] = ifaceMap[j]
        PROVE  Limited(j)' \subseteq kept'[j] \/ ifaceMap'[j] # Null
    BY <2>1, LimitedStays DEF EnforcedIsTracked
  <2>2. ASSUME NEW c \in Containers, NEW v \in Ifaces, NEW p \in Profiles,
               NEW exceeded \in BOOLEAN, ApplyLimit(c, v, p, exceeded)
        PROVE  Limited(j)' \subseteq kept'[j] \/ ifaceMap'[j] # Null
    <3>1. CASE ApplyFails(c, v, p, exceeded)
      BY <2>1, <3>1, Failing
    <3>2. CASE ApplySucceeds(c, v, p, exceeded)
      <4>1. /\ ~closed /\ ifaceMap' = [ifaceMap EXCEPT ![v] = c]
            /\ j # v => qdisc'[j] = qdisc[j] /\ kept'[j] = kept[j]
        BY <3>2, Succeeding
      <4>2. CASE j = v
        BY <4>1, <4>2, NullAssumption DEF TypeOK
      <4>3. CASE j # v
        BY <2>1, <4>1, <4>3 DEF TypeOK
      <4> QED BY <4>2, <4>3
    <3> QED BY <2>2, <3>1, <3>2 DEF ApplyLimit
  <2>3. ASSUME NEW c \in Containers, RemoveLimit(c)
        PROVE  Limited(j)' \subseteq kept'[j] \/ ifaceMap'[j] # Null
    <3> DEFINE S == {rules[c].iface}
    <3>1. S \in SUBSET Ifaces /\ Cleans(S) /\ ~closed
          /\ ifaceMap' = [ifaceMap EXCEPT ![rules[c].iface] = Null]
      BY <2>3, CleanedIfaces DEF RemoveLimit
    <3>2. CASE j \in S
      BY <3>1, <3>2, Cleaning
    <3>3. CASE j \notin S
      <4>1. ifaceMap'[j] = ifaceMap[j]
        BY <3>1, <3>3 DEF TypeOK
      <4> HIDE DEF S
      <4> QED BY <2>1, <3>1, <3>3, <4>1, Cleaning
    <3> QED BY <3>2, <3>3
  <2>4. ASSUME NEW list \in Lists, RepairRules(list)
        PROVE  Limited(j)' \subseteq kept'[j] \/ ifaceMap'[j] # Null
    <3> DEFINE S == Stale(list)
    <3>1. S \in SUBSET Ifaces /\ Cleans(S) /\ ~closed
          /\ ifaceMap'[j] = IF j \in S THEN Null ELSE ifaceMap[j]
      BY <2>4, CleanedIfaces DEF RepairRules
    <3> HIDE DEF S
    <3> QED BY <2>1, <3>1, Cleaning
  <2>5. CASE RemoveAll
    BY <2>5 DEF RemoveAll
  <2>6. ASSUME NEW i \in Ifaces, LinkDown(i) \/ LinkUp(i)
        PROVE  Limited(j)' \subseteq kept'[j] \/ ifaceMap'[j] # Null
    <3>1. CASE LinkDown(i) /\ j = i
      <4>1. qdisc'[j] = Clean
        BY <3>1 DEF LinkDown, TypeOK
      <4> QED BY <4>1 DEF Limited, Shaped, Parts, Clean
    <3>2. CASE ~(LinkDown(i) /\ j = i)
      BY <2>1, <2>6, <3>2 DEF LinkDown, LinkUp, TypeOK
    <3> QED BY <3>1, <3>2
  <2>7. CASE UNCHANGED vars
    BY <2>1, <2>7 DEF vars
  <2> QED BY <2>2, <2>3, <2>4, <2>5, <2>6, <2>7 DEF Next
<1> QED BY <1>1, <1>2, TypeCorrect, PTL DEF Spec

\* The kernel enforces the rate of the rule its recorded owner has for that
\* interface.  It is inductive relative to TypeOK: a rule of an owner changes
\* only together with the class of the interface it names, or it comes to
\* name another interface.
THEOREM OwnerRate == Spec => []OwnerRateIsCurrent
<1>1. Init => OwnerRateIsCurrent
  BY DEF Init, OwnerRateIsCurrent, Shaped, Clean
<1>2. TypeOK /\ OwnerRateIsCurrent /\ [Next]_vars => OwnerRateIsCurrent'
  <2> SUFFICES ASSUME TypeOK, OwnerRateIsCurrent, [Next]_vars,
                      NEW j \in Ifaces, NEW d \in Containers,
                      Shaped(j)', ifaceMap'[j] = d, rules'[d] # Null,
                      rules'[d].iface = j
               PROVE  qdisc'[j].class = Kbit(rules'[d].tx)
    BY DEF OwnerRateIsCurrent
  <2>1. ASSUME qdisc'[j].class \in {0, qdisc[j].class},
               ifaceMap[j] = d, rules'[d] = rules[d]
        PROVE  qdisc'[j].class = Kbit(rules'[d].tx)
    BY <2>1 DEF OwnerRateIsCurrent, Shaped
  <2>2. ASSUME NEW c \in Containers, NEW v \in Ifaces, NEW p \in Profiles,
               NEW exceeded \in BOOLEAN, ApplyLimit(c, v, p, exceeded)
        PROVE  qdisc'[j].class = Kbit(rules'[d].tx)
    <3>1. CASE ApplyFails(c, v, p, exceeded)
      BY <2>1, <3>1, Failing
    <3>2. CASE ApplySucceeds(c, v, p, exceeded)
      <4> DEFINE rule == RuleFor(v, p, exceeded)
      <4>1. /\ qdisc'[v].class = Kbit(rule.tx) /\ rule.iface = v
            /\ j # v => qdisc'[j] = qdisc[j]
            /\ rules' = [rules EXCEPT ![c] = rule]
            /\ ifaceMap' = [ifaceMap EXCEPT ![v] = c]
        BY <3>2, Succeeding
      <4> HIDE DEF rule
      <4>2. CASE j = v
        BY <4>1, <4>2 DEF TypeOK
      <4>3. CASE j # v
        <5>1. d # c /\ ifaceMap[j] = d /\ rules'[d] = rules[d]
          BY <4>1, <4>3 DEF TypeOK
        <5> QED BY <2>1, <4>1, <4>3, <5>1
      <4> QED BY <4>2, <4>3
    <3> QED BY <2>2, <3>1, <3>2 DEF ApplyLimit
  <2>3. ASSUME NEW c \in Containers, RemoveLimit(c)
        PROVE  qdisc'[j].class = Kbit(rules'[d].tx)
    <3> DEFINE S == {rules[c].iface}
    <3>1. S \in SUBSET Ifaces /\ Cleans(S)
      BY <2>3, CleanedIfaces DEF RemoveLimit
    <3>2. qdisc'[j].class \in {0, qdisc[j].class}
      <4> HIDE DEF S
      <4> QED BY <3>1, Cleaning
    <3>3. ifaceMap[j] = d /\ rules'[d] = rules[d]
      BY <2>3, NullAssumption DEF RemoveLimit, TypeOK
    <3> QED BY <2>1, <3>2, <3>3
  <2>4. ASSUME NEW list \in Lists, RepairRules(list)
        PROVE  qdisc'[j].class = Kbit(rules'[d].tx)
    <3>1. qdisc'[j].class \in {0, qdisc[j].class}
      BY <2>4, CleanedIfaces, Cleaning DEF RepairRules
    <3>2. ifaceMap[j] = d /\ rules'[d] = rules[d]
      BY <2>4, NullAssumption DEF RepairRules, TypeOK
    <3> QED BY <2>1, <3>1, <3>2
  <2>5. CASE RemoveAll
    BY <2>5 DEF RemoveAll
  <2>6. ASSUME NEW i \in Ifaces, LinkDown(i) \/ LinkUp(i)
        PROVE  qdisc'[j].class = Kbit(rules'[d].tx)
    <3>1. qdisc'[j].class \in {0, qdisc[j].class}
      BY <2>6 DEF LinkDown, LinkUp, TypeOK, Clean
    <3> QED BY <2>1, <2>6, <3>1 DEF LinkDown, LinkUp
  <2>7. CASE UNCHANGED vars
    BY <2>1, <2>7 DEF vars
  <2> QED BY <2>2, <2>3, <2>4, <2>5, <2>6, <2>7 DEF Next
<1> QED BY <1>1, <1>2, TypeCorrect, PTL DEF Spec

\* A repair before the end leaves limits only where its list has a container,
\* or where tc refuses to delete them.  It follows from EnforcedIsTracked: a
\* limited interface has an owner, unless tc refused before, and the repair
\* cleans it unless that owner is listed with it.
THEOREM RepairListed == Spec => RepairLeavesOnlyListed
<1> DEFINE Step == \A list \in Lists :
                     ~closed /\ RepairRules(list) =>
                       \A i \in Ifaces :
                         Limited(i)' \subseteq kept'[i] \/ \E c \in Containers : list[c] = i
<1>1. TypeOK /\ EnforcedIsTracked /\ [Next]_vars => [Step]_vars
  <2> SUFFICES ASSUME TypeOK, EnforcedIsTracked, ~closed,
                      NEW list \in Lists, RepairRules(list), NEW i \in Ifaces
               PROVE  Limited(i)' \subseteq kept'[i] \/ \E c \in Containers : list[c] = i
    OBVIOUS
  <2>1. Stale(list) \in SUBSET Ifaces /\ Cleans(Stale(list))
    BY CleanedIfaces DEF RepairRules
  <2>2. CASE i \in Stale(list)
    BY <2>1, <2>2, Cleaning
  <2>3. CASE i \notin Stale(list)
    <3>1. Limited(i)' = Limited(i) /\ kept'[i] = kept[i]
      BY <2>1, <2>3, Cleaning, LimitedStays
    <3>2. CASE Limited(i) \subseteq kept[i]
      BY <3>1, <3>2
    <3>3. CASE ifaceMap[i] # Null
      BY <2>3, <3>3 DEF Stale, TypeOK
    <3> QED BY <3>2, <3>3 DEF EnforcedIsTracked
  <2> QED BY <2>2, <2>3
<1> QED BY <1>1, TypeCorrect, Tracked, PTL DEF Spec, RepairLeavesOnlyListed

-----------------------------------------------------------------------------
(* The manager implements the abstract shaper.                             *)

\* Seen from the shaper, where each of the interfaces of S has, in either
\* direction, its old limit or none, and the others have theirs, limits fade.
LEMMA Fading ==
  ASSUME TypeOK, NEW S \in SUBSET Ifaces,
         \A i \in S : /\ qdisc'[i].class \in {0, qdisc[i].class}
                      /\ qdisc'[i].police \in {0, qdisc[i].police},
         \A i \in Ifaces \ S : qdisc'[i] = qdisc[i]
  PROVE  \E U, D \in SUBSET S :
           [i \in Ifaces |-> InForce(i)]' = Abstract!Faded(U, D)
<1> DEFINE U == {i \in S : qdisc'[i].class = 0}
           D == {i \in S : qdisc'[i].police = 0}
<1>1. ASSUME NEW i \in Ifaces
      PROVE  InForce(i)' = [up   |-> IF i \in U THEN 0 ELSE InForce(i).up,
                            down |-> IF i \in D THEN 0 ELSE InForce(i).down]
  BY DEF InForce
<1> HIDE DEF U, D
<1>2. \A i \in Ifaces : [j \in Ifaces |-> InForce(j)][i] = InForce(i)
  OBVIOUS
<1>3. [i \in Ifaces |-> InForce(i)]' = Abstract!Faded(U, D)
  BY <1>1, <1>2 DEF Abstract!Faded
<1>4. U \in SUBSET S /\ D \in SUBSET S
  BY DEF U, D
<1> QED BY <1>3, <1>4

\* A call that fails leaves the books alone, and no new limit.
LEMMA FailLoses ==
  ASSUME TypeOK, NEW c \in Containers, NEW v \in Ifaces, NEW p \in Profiles,
         NEW exceeded \in BOOLEAN, ApplyFails(c, v, p, exceeded)
  PROVE  Abstract!Lose(v)
<1> DEFINE S == {v}
<1>1. /\ qdisc'[v].class \in {0, qdisc[v].class}
      /\ qdisc'[v].police \in {0, qdisc[v].police}
      /\ \A i \in Ifaces \ {v} : qdisc'[i] = qdisc[i]
  BY Failing
<1>2. \A i \in S : /\ qdisc'[i].class \in {0, qdisc[i].class}
                   /\ qdisc'[i].police \in {0, qdisc[i].police}
  BY <1>1
<1>3. S \in SUBSET Ifaces /\ \A i \in Ifaces \ S : qdisc'[i] = qdisc[i]
  BY <1>1
<1> HIDE DEF S
<1>4. \E U, D \in SUBSET S : [i \in Ifaces |-> InForce(i)]' = Abstract!Faded(U, D)
  BY <1>2, <1>3, Fading
<1>5. UNCHANGED <<ifaceMap, closed>>
  BY DEF ApplyFails
<1> QED BY <1>4, <1>5 DEF Abstract!Lose, S

\* A call that succeeds enters owner and limit together.
LEMMA SuccessImposes ==
  ASSUME TypeOK, NEW c \in Containers, NEW v \in Ifaces, NEW p \in Profiles,
         NEW exceeded \in BOOLEAN, ApplySucceeds(c, v, p, exceeded)
  PROVE  Abstract!Impose(c, v)
<1> DEFINE rule == RuleFor(v, p, exceeded)
           seen == [i \in Ifaces |-> InForce(i)]
           l    == InForce(v)'
<1>1. /\ qdisc'[v].class = Kbit(rule.tx) /\ Kbit(rule.tx) # 0
      /\ qdisc'[v].police \in {0, Kbit(rule.rx), qdisc[v].police}
      /\ \A i \in Ifaces \ {v} : qdisc'[i] = qdisc[i]
      /\ ifaceMap' = [ifaceMap EXCEPT ![v] = c]
      /\ UNCHANGED closed
  BY Succeeding
<1>2. Kbit(rule.tx) \in Kbits /\ Kbit(rule.rx) \in Kbits
  BY DEF Kbits
<1> HIDE DEF rule
<1>3. seen[v].down = qdisc[v].police
  BY DEF InForce
<1>4. l \in [up : Kbits \ {0}, down : (Kbits \ {0}) \cup {0, seen[v].down}]
  BY <1>1, <1>2, <1>3 DEF InForce
<1>5. \A i \in Ifaces \ {v} : InForce(i)' = InForce(i)
  BY <1>1 DEF InForce
<1>6. seen' = [seen EXCEPT ![v] = l]
  BY <1>5
<1> QED BY <1>1, <1>4, <1>6 DEF Abstract!Impose

\* Every step of the manager is a step of the shaper or leaves it as it is,
\* for any number of containers and interfaces and whichever tc commands
\* fail.
THEOREM Implements == Spec => ImplementsShaper
<1> DEFINE seen == [i \in Ifaces |-> InForce(i)]
<1>1. Init => Abstract!Init
  <2> SUFFICES ASSUME Init PROVE Abstract!Init
    OBVIOUS
  <2>1. \A i \in Ifaces : InForce(i) = [up |-> 0, down |-> 0]
    BY DEF Init, InForce, Clean
  <2> QED BY <2>1 DEF Init, Abstract!Init
<1>2. TypeOK /\ [Next]_vars => [Abstract!Next]_(Abstract!shaper)
  <2> SUFFICES ASSUME TypeOK, [Next]_vars
               PROVE  Abstract!Next \/ UNCHANGED Abstract!shaper
    OBVIOUS
  <2>1. ASSUME NEW S \in SUBSET Ifaces, Cleans(S)
        PROVE  \E U, D \in SUBSET S : seen' = Abstract!Faded(U, D)
    BY <2>1, Cleaning, Fading
  <2>2. ASSUME NEW c \in Containers, NEW v \in Ifaces, NEW p \in Profiles,
               NEW exceeded \in BOOLEAN, ApplyLimit(c, v, p, exceeded)
        PROVE  Abstract!Next
    <3>1. CASE ApplyFails(c, v, p, exceeded)
      BY <3>1, FailLoses DEF Abstract!Next
    <3>2. CASE ApplySucceeds(c, v, p, exceeded)
      BY <3>2, SuccessImposes DEF Abstract!Next
    <3> QED BY <2>2, <3>1, <3>2 DEF ApplyLimit
  <2>3. ASSUME NEW c \in Containers, RemoveLimit(c)
        PROVE  Abstract!Next
    <3> DEFINE S == {rules[c].iface}
    <3>1. S \in SUBSET Ifaces /\ Cleans(S) /\ UNCHANGED closed
      BY <2>3, CleanedIfaces DEF RemoveLimit
    <3>2. ifaceMap' = [i \in Ifaces |-> IF i \in S THEN Null ELSE ifaceMap[i]]
      BY <2>3, <3>1 DEF RemoveLimit, TypeOK
    <3> HIDE DEF S
    <3>3. Abstract!Release(S)
      BY <2>1, <3>1, <3>2 DEF Abstract!Release
    <3> QED BY <3>1, <3>3 DEF Abstract!Next
  <2>4. ASSUME NEW list \in Lists, RepairRules(list)
        PROVE  Abstract!Next
    <3> DEFINE S == Stale(list)
    <3>1. /\ S \in SUBSET Ifaces /\ Cleans(S) /\ UNCHANGED closed
          /\ ifaceMap' = [i \in Ifaces |-> IF i \in S THEN Null ELSE ifaceMap[i]]
      BY <2>4, CleanedIfaces DEF RepairRules
    <3> HIDE DEF S
    <3>2. Abstract!Release(S)
      BY <2>1, <3>1 DEF Abstract!Release
    <3> QED BY <3>1, <3>2 DEF Abstract!Next
  <2>5. CASE RemoveAll
    <3>1. Ruled \in SUBSET Ifaces /\ Cleans(Ruled)
      BY <2>5, CleanedIfaces DEF RemoveAll
    <3>2. \E U, D \in SUBSET Ifaces : seen' = Abstract!Faded(U, D)
      BY <2>1, <3>1
    <3> QED BY <2>5, <3>2 DEF RemoveAll, Abstract!Close, Abstract!Next
  <2>6. ASSUME NEW v \in Ifaces, LinkDown(v)
        PROVE  Abstract!Next
    <3>1. /\ qdisc'[v].class = 0 /\ qdisc'[v].police = 0
          /\ \A i \in Ifaces \ {v} : qdisc'[i] = qdisc[i]
      BY <2>6 DEF LinkDown, TypeOK, Clean
    <3>2. \E U, D \in SUBSET {v} : seen' = Abstract!Faded(U, D)
      BY <3>1, Fading
    <3>3. Abstract!Lose(v)
      BY <2>6, <3>2 DEF LinkDown, Abstract!Lose
    <3> QED BY <3>3 DEF Abstract!Next
  <2>7. ASSUME NEW v \in Ifaces, LinkUp(v)
        PROVE  UNCHANGED Abstract!shaper
    BY <2>7 DEF LinkUp, InForce, Abstract!shaper
  <2>8. CASE UNCHANGED vars
    BY <2>8 DEF vars, InForce, Abstract!shaper
  <2> QED BY <2>2, <2>3, <2>4, <2>5, <2>6, <2>7, <2>8 DEF Next
<1> QED BY <1>1, <1>2, TypeCorrect, PTL DEF Spec, ImplementsShaper, Abstract!Spec
=============================================================================
