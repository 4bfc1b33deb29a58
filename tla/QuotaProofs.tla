----------------------------- MODULE QuotaProofs -----------------------------
(***************************************************************************)
(* No byte is counted twice, no notice sent twice, no throttle left by the *)
(* reset and no limit forgotten, for any number of containers, objects,    *)
(* veths, resets and units of traffic.                                     *)
(***************************************************************************)
EXTENDS QuotaEnforcement, SequenceTheorems, FiniteSetTheorems, FunctionTheorems, TLAPS

-----------------------------------------------------------------------------
(* New objects.                                                            *)

\* A finite set can be numbered, and every number is taken.
LEMMA Numbered ==
  ASSUME NEW S, IsFiniteSet(S)
  PROVE  /\ Cardinality(S) \in Nat
         /\ Numbering(S) \in [S -> 1..Cardinality(S)]
         /\ \A k \in 1..Cardinality(S) : \E c \in S : Numbering(S)[c] = k
<1> DEFINE T == 1..Cardinality(S)
<1>1. Cardinality(S) \in Nat /\ ExistsBijection(T, S)
  BY FS_CardinalityType
<1>2. ExistsBijection(S, T)
  BY <1>1, Fun_ExistsBijSymmetric
<1>3. PICK g : g \in Bijection(S, T)
  BY <1>2 DEF ExistsBijection
<1>4. g \in [S -> T] /\ \A c, d \in S : c # d => g[c] # g[d]
  BY <1>3 DEF Bijection, Injection, IsInjective
<1>5. /\ Numbering(S) \in [S -> T]
      /\ \A c, d \in S : c # d => Numbering(S)[c] # Numbering(S)[d]
  BY <1>4 DEF Numbering
<1>6. Numbering(S) \in Injection(S, T)
  BY <1>5 DEF Injection, IsInjective
<1>7. IsFiniteSet(T) /\ Cardinality(T) = Cardinality(S)
  BY <1>1, FS_Interval
<1>8. Numbering(S) \in Surjection(S, T)
  BY <1>6, <1>7, FS_Injection
<1>9. \A k \in T : \E c \in S : Numbering(S)[c] = k
  BY <1>8 DEF Surjection
<1> QED BY <1>1, <1>5, <1>9

LEMMA InspectedType ==
  ASSUME TypeOK, NEW c \in Containers
  PROVE  /\ Inspected(c) \in Object
         /\ Inspected(c).id = c
         /\ Inspected(c).today = 0
         /\ Inspected(c).state \in {"running", "stopped"}
<1>1. (c \in Labelled) \in BOOLEAN
  OBVIOUS
<1>2. veth[c] \in 1..MaxVeth /\ 0 \in 0..MaxTraffic
  BY ConstantsAssumption DEF TypeOK
<1> DEFINE state == IF docker[c] = "running" THEN "running" ELSE "stopped"
<1>3. state \in {"running", "stopped"}
  OBVIOUS
<1>4. Inspected(c) = [id |-> c, state |-> state, today |-> 0,
                      configured |-> c \in Labelled, veth |-> veth[c]]
  BY Zenon DEF Inspected
<1> HIDE DEF state
<1> DEFINE labelled == c \in Labelled
<1>5. labelled \in BOOLEAN
  BY <1>1
<1> HIDE DEF labelled
<1>6. Inspected(c) = [id |-> c, state |-> state, today |-> 0,
                      configured |-> labelled, veth |-> veth[c]]
  BY <1>4 DEF labelled
<1> QED BY <1>2, <1>3, <1>5, <1>6 DEF Object

LEMMA FreshType ==
  ASSUME TypeOK, NEW S \in SUBSET Containers
  PROVE  /\ Cardinality(S) \in Nat
         /\ Fresh(S) \in Seq(Object)
         /\ Len(Fresh(S)) = Cardinality(S)
         /\ \A k \in 1..Cardinality(S) : \E c \in Containers : Fresh(S)[k] = Inspected(c)
<1>1. IsFiniteSet(S)
  BY ConstantsAssumption, FS_Subset
<1> DEFINE n == Cardinality(S)
           first(k) == CHOOSE c \in S : Numbering(S)[c] = k
<1>2. n \in Nat /\ \A k \in 1..n : first(k) \in S
  BY <1>1, Numbered
<1>3. Fresh(S) = [k \in 1..n |-> Inspected(first(k))]
  BY DEF Fresh
<1> HIDE DEF n, first
<1>4. \A k \in 1..n : Inspected(first(k)) \in Object
  BY <1>2, InspectedType
<1>5. Fresh(S) \in [1..n -> Object]
  BY <1>3, <1>4
<1>6. Fresh(S) \in Seq(Object) /\ Len(Fresh(S)) = n
  BY <1>2, <1>5, SeqDef
<1>7. \A k \in 1..n : Fresh(S)[k] = Inspected(first(k)) /\ first(k) \in Containers
  BY <1>2, <1>3
<1> QED BY <1>2, <1>6, <1>7 DEF n

-----------------------------------------------------------------------------
(* What becomes of the heap.                                               *)

LEMMA HeapType ==
  ASSUME TypeOK
  PROVE  /\ Len(heap) \in 0..MaxObjects
         /\ DOMAIN heap = 1..Len(heap)
         /\ DOMAIN heap \subseteq Objects
         /\ \A o \in DOMAIN heap : heap[o] \in Object
<1>1. heap \in Seq(Object) /\ Len(heap) <= MaxObjects
  BY DEF TypeOK
<1>2. Len(heap) \in Nat /\ DOMAIN heap = 1..Len(heap)
  BY <1>1, LenProperties
<1>3. \A o \in 1..Len(heap) : heap[o] \in Object
  BY <1>1, ElementOfSeq
<1> QED BY <1>1, <1>2, <1>3, ConstantsAssumption DEF Objects

LEMMA ResetType ==
  ASSUME NEW obj \in Object
  PROVE  /\ Reset(obj) \in Object
         /\ Reset(obj).id = obj.id
         /\ Reset(obj).today = 0
         /\ Reset(obj).configured = obj.configured
         /\ Reset(obj).veth = obj.veth
         /\ Reset(obj).state # "exceeded"
<1> DEFINE state == IF obj.state = "exceeded" THEN "running" ELSE obj.state
           x == [obj EXCEPT !.state = state]
<1>1. state \in {"running", "stopped", "exceeded"} \ {"exceeded"}
  BY DEF Object
<1>2. Reset(obj) = [x EXCEPT !.today = 0]
  BY DEF Reset
<1> HIDE DEF state
<1>3. /\ x \in Object /\ x.id = obj.id /\ x.state = state
      /\ x.configured = obj.configured /\ x.veth = obj.veth
  BY <1>1 DEF Object
<1> HIDE DEF x
<1>4. 0 \in 0..MaxTraffic
  BY ConstantsAssumption
<1>5. /\ [x EXCEPT !.today = 0] \in Object
      /\ [x EXCEPT !.today = 0].id = x.id
      /\ [x EXCEPT !.today = 0].state = x.state
      /\ [x EXCEPT !.today = 0].today = 0
      /\ [x EXCEPT !.today = 0].configured = x.configured
      /\ [x EXCEPT !.today = 0].veth = x.veth
  BY <1>3, <1>4 DEF Object
<1> QED BY <1>1, <1>2, <1>3, <1>5

\* The objects of S, allocated after the others.
Allocated ==
  /\ heap' \in Seq(Object)
  /\ Len(heap') \in Nat
  /\ DOMAIN heap' = 1..Len(heap')
  /\ Len(heap) <= Len(heap')
  /\ \A o \in DOMAIN heap : o \in DOMAIN heap' /\ heap'[o] = heap[o]
  /\ \A o \in DOMAIN heap' \ DOMAIN heap : \E c \in Containers : heap'[o] = Inspected(c)

LEMMA Allocating ==
  ASSUME TypeOK, DiscoveryJob \/ \E c \in Containers : EventStart(c)
  PROVE  Allocated
<1>0. heap \in Seq(Object) /\ Len(heap) \in Nat /\ DOMAIN heap = 1..Len(heap)
  BY HeapType DEF TypeOK
<1>1. CASE DiscoveryJob
  <2> DEFINE S == {c \in Containers : docker[c] # "gone"}
             f == Fresh(S)
  <2>1. S \in SUBSET Containers
    OBVIOUS
  <2>2. heap' = heap \o f
    BY <1>1 DEF DiscoveryJob
  <2> HIDE DEF S
  <2>3. /\ f \in Seq(Object) /\ Len(f) \in Nat
        /\ \A k \in 1..Len(f) : \E c \in Containers : f[k] = Inspected(c)
    BY <2>1, FreshType
  <2> HIDE DEF f
  <2>4. /\ heap' \in Seq(Object)
        /\ Len(heap') = Len(heap) + Len(f)
        /\ \A i \in 1..Len(heap) + Len(f) :
             heap'[i] = IF i <= Len(heap) THEN heap[i] ELSE f[i - Len(heap)]
    BY <1>0, <2>2, <2>3, ConcatProperties
  <2>5. DOMAIN heap' = 1..Len(heap')
    BY <2>4, LenProperties
  <2>6. \A o \in DOMAIN heap : o \in DOMAIN heap' /\ heap'[o] = heap[o]
    BY <1>0, <2>3, <2>4, <2>5
  <2>7. ASSUME NEW o \in DOMAIN heap' \ DOMAIN heap
        PROVE  \E c \in Containers : heap'[o] = Inspected(c)
    <3>1. o - Len(heap) \in 1..Len(f) /\ heap'[o] = f[o - Len(heap)]
      BY <1>0, <2>3, <2>4, <2>5
    <3> QED BY <2>3, <3>1
  <2> QED BY <1>0, <2>3, <2>4, <2>5, <2>6, <2>7 DEF Allocated
<1>2. ASSUME NEW c \in Containers, EventStart(c)
      PROVE  Allocated
  <2>1. heap' = Append(heap, Inspected(c)) /\ Inspected(c) \in Object
    BY <1>2, InspectedType DEF EventStart
  <2>2. /\ heap' \in Seq(Object)
        /\ Len(heap') = Len(heap) + 1
        /\ \A o \in 1..Len(heap) : heap'[o] = heap[o]
        /\ heap'[Len(heap) + 1] = Inspected(c)
    BY <1>0, <2>1, AppendProperties
  <2>3. DOMAIN heap' = 1..Len(heap')
    BY <2>2, LenProperties
  <2> QED BY <1>0, <2>2, <2>3 DEF Allocated
<1> QED BY <1>1, <1>2

-----------------------------------------------------------------------------
(* The objects that goroutines hold.                                       *)

\* Whoever works on objects works on allocated ones.
Known ==
  /\ poll.todo \subseteq DOMAIN heap
  /\ poll.pc \notin {"idle", "next"} => poll.cur \in DOMAIN heap
  /\ job.todo \subseteq DOMAIN heap
  /\ job.list \subseteq DOMAIN heap
  /\ socket.todo \subseteq DOMAIN heap

LEMMA ListedKnown == TypeOK => Listed \subseteq DOMAIN heap
<1> SUFFICES ASSUME TypeOK PROVE Listed \subseteq DOMAIN heap
  OBVIOUS
<1>1. DOMAIN heap = 1..Len(heap) /\ Len(heap) \in Nat
  BY HeapType
<1>2. map \in [Containers -> 0..Len(heap)]
  BY DEF TypeOK
<1> QED BY <1>1, <1>2 DEF Listed, NoObject

\* The steps that change an object do so in place.
Touching ==
  \/ PollStore \/ PollThrottle \/ ResetOne
  \/ \E c \in Containers : EventDie(c)

\* The steps that leave all objects alone.
Resting ==
  \/ PollStart \/ PollSkip \/ PollCollect \/ PollCheck \/ PollApply \/ PollEnd
  \/ ResetStart \/ ResetStamp \/ ResetEnd \/ \E o \in job.todo : ResetApply(o)
  \/ Reapply
  \/ \E c \in Containers : EventDestroy(c)
  \/ World
  \/ UNCHANGED vars

LEMMA StepKinds ==
  [Next]_vars => \/ Touching \/ Resting
                 \/ DiscoveryJob \/ \E c \in Containers : EventStart(c)
BY Zenon DEF Next, Poll, ResetJob, HandleEvent, Touching, Resting

LEMMA RestingHeap == Resting => UNCHANGED heap
<1> SUFFICES ASSUME Resting PROVE UNCHANGED heap
  OBVIOUS
<1>1. CASE PollStart \/ PollSkip \/ PollCollect \/ PollCheck \/ PollApply \/ PollEnd
  BY <1>1 DEF PollStart, PollSkip, PollCollect, PollCheck, PollApply, PollEnd
<1>2. CASE \/ ResetStart \/ ResetStamp \/ ResetEnd
           \/ \E o \in job.todo : ResetApply(o)
  BY <1>2 DEF ResetStart, ResetStamp, ResetEnd, ResetApply
<1>3. CASE Reapply
  BY <1>3 DEF Reapply, ReapplyStart, ReapplyOne, ReapplyEnd
<1>4. CASE World
  BY <1>4 DEF World, DockerStart, DockerStop, DockerPause, Traffic, Midnight
<1>5. CASE UNCHANGED vars \/ \E c \in Containers : EventDestroy(c)
  BY <1>5 DEF vars, EventDestroy
<1> QED BY <1>1, <1>2, <1>3, <1>4, <1>5 DEF Resting

\* An object keeps its container, its speeds and its veth, and its usage
\* unless it is stored or reset.
InPlace ==
  /\ heap' \in Seq(Object)
  /\ Len(heap') = Len(heap)
  /\ DOMAIN heap' = DOMAIN heap
  /\ \A o \in DOMAIN heap :
       /\ heap'[o].id = heap[o].id
       /\ heap'[o].configured = heap[o].configured
       /\ heap'[o].veth = heap[o].veth
       /\ heap'[o].today = heap[o].today \/ ResetOne \/ PollStore

LEMMA TouchingInPlace ==
  ASSUME TypeOK, Known, Touching,
         PollStore => poll.load + poll.delta \in 0..MaxTraffic
  PROVE  InPlace
<1>0. /\ heap \in Seq(Object) /\ DOMAIN heap = 1..Len(heap)
      /\ \A o \in DOMAIN heap : heap[o] \in Object
  BY HeapType DEF TypeOK
<1>1. ASSUME NEW o \in DOMAIN heap, NEW x \in Object, x.id = heap[o].id,
             x.configured = heap[o].configured, x.veth = heap[o].veth,
             heap' = [heap EXCEPT ![o] = x],
             x.today = heap[o].today \/ ResetOne \/ PollStore
      PROVE  InPlace
  <2>1. /\ heap' \in Seq(Object) /\ Len(heap') = Len(heap)
        /\ \A p \in 1..Len(heap) : heap'[p] = IF p = o THEN x ELSE heap[p]
    BY <1>0, <1>1, ExceptSeq
  <2>2. DOMAIN heap' = DOMAIN heap
    BY <1>1
  <2> QED BY <1>0, <1>1, <2>1, <2>2 DEF InPlace
<1>2. CASE PollStore
  <2> DEFINE x == [heap[poll.cur] EXCEPT !.today = poll.load + poll.delta]
  <2>1. poll.cur \in DOMAIN heap
    BY <1>2 DEF PollStore, Known
  <2>2. heap[poll.cur] \in Object
    BY <1>0, <2>1
  <2>3. /\ x \in Object /\ x.id = heap[poll.cur].id
        /\ x.configured = heap[poll.cur].configured /\ x.veth = heap[poll.cur].veth
    BY <1>2, <2>2 DEF Object
  <2>4. heap' = [heap EXCEPT ![poll.cur] = x]
    BY <1>2 DEF PollStore
  <2> QED BY <1>1, <1>2, <2>1, <2>3, <2>4
<1>3. CASE PollThrottle
  <2> DEFINE x == [heap[poll.cur] EXCEPT !.state = "exceeded"]
  <2>1. poll.cur \in DOMAIN heap
    BY <1>3 DEF PollThrottle, Known
  <2>2. heap[poll.cur] \in Object
    BY <1>0, <2>1
  <2>3. /\ x \in Object /\ x.id = heap[poll.cur].id /\ x.today = heap[poll.cur].today
        /\ x.configured = heap[poll.cur].configured /\ x.veth = heap[poll.cur].veth
    BY <2>2 DEF Object
  <2>4. heap' = [heap EXCEPT ![poll.cur] = x]
    BY <1>3 DEF PollThrottle
  <2> QED BY <1>1, <2>1, <2>3, <2>4
<1>4. CASE ResetOne
  <2>1. PICK o \in job.todo : heap' = [heap EXCEPT ![o] = Reset(heap[o])]
    BY <1>4 DEF ResetOne
  <2>2. o \in DOMAIN heap /\ heap[o] \in Object
    BY <1>0, <2>1 DEF Known
  <2>3. /\ Reset(heap[o]) \in Object /\ Reset(heap[o]).id = heap[o].id
        /\ Reset(heap[o]).configured = heap[o].configured
        /\ Reset(heap[o]).veth = heap[o].veth
    BY <2>2, ResetType
  <2> QED BY <1>1, <1>4, <2>1, <2>2, <2>3
<1>5. ASSUME NEW c \in Containers, EventDie(c)
      PROVE  InPlace
  <2>1. CASE map[c] = NoObject
    <3>1. heap' = heap
      BY <1>5, <2>1 DEF EventDie
    <3> QED BY <1>0, <3>1 DEF InPlace
  <2>2. CASE map[c] # NoObject
    <3> DEFINE x == [heap[map[c]] EXCEPT !.state = "stopped"]
    <3>1. map[c] \in DOMAIN heap
      BY <2>2, ListedKnown DEF Listed
    <3>2. heap[map[c]] \in Object
      BY <1>0, <3>1
    <3>3. /\ x \in Object /\ x.id = heap[map[c]].id /\ x.today = heap[map[c]].today
          /\ x.configured = heap[map[c]].configured /\ x.veth = heap[map[c]].veth
      BY <3>2 DEF Object
    <3>4. heap' = [heap EXCEPT ![map[c]] = x]
      BY <1>5, <2>2 DEF EventDie
    <3> QED BY <1>1, <3>1, <3>3, <3>4
  <2> QED BY <2>1, <2>2
<1> QED BY <1>2, <1>3, <1>4, <1>5 DEF Touching

\* Objects are never given back, nor to another container.
LEMMA Grows ==
  ASSUME TypeOK, [Next]_vars, Touching => InPlace
  PROVE  \A o \in DOMAIN heap : o \in DOMAIN heap' /\ heap'[o].id = heap[o].id
<1>1. CASE Touching
  BY <1>1 DEF InPlace
<1>2. CASE Resting
  BY <1>2, RestingHeap
<1>3. CASE DiscoveryJob \/ \E c \in Containers : EventStart(c)
  BY <1>3, Allocating DEF Allocated
<1> QED BY <1>1, <1>2, <1>3, StepKinds

LEMMA PollIsRecord ==
  ASSUME TypeOK
  PROVE  /\ poll = [pc |-> poll.pc, todo |-> poll.todo, cur |-> poll.cur,
                    load |-> poll.load, delta |-> poll.delta]
         /\ job = [pc |-> job.pc, todo |-> job.todo, list |-> job.list]
         /\ socket = [pc |-> socket.pc, todo |-> socket.todo]
BY DEF TypeOK

LEMMA KnownKept ==
  ASSUME TypeOK, Known, [Next]_vars, Touching => InPlace
  PROVE  Known'
<1>0. DOMAIN heap \subseteq DOMAIN heap'
  BY Grows
<1>1. CASE PollStart
  BY <1>0, <1>1, ListedKnown DEF PollStart, Known, TypeOK
<1>2. CASE PollSkip \/ PollCheck \/ PollApply \/ PollEnd \/ PollThrottle \/ PollStore
  <2>1. /\ poll'.todo \subseteq poll.todo
        /\ poll'.pc \notin {"idle", "next"} =>
             poll.pc \notin {"idle", "next"} /\ poll'.cur = poll.cur
    BY <1>2, PollIsRecord DEF PollSkip, PollCheck, PollApply, PollEnd, PollThrottle, PollStore
  <2>2. UNCHANGED <<job, socket>>
    BY <1>2 DEF PollSkip, PollCheck, PollApply, PollEnd, PollThrottle, PollStore
  <2> QED BY <1>0, <2>1, <2>2 DEF Known
<1>3. CASE PollCollect
  <2>1. PICK o \in poll.todo :
          /\ poll' = [pc |-> "store", todo |-> poll.todo \ {o}, cur |-> o,
                      load |-> heap[o].today, delta |-> Delta(heap[o].id)]
          /\ UNCHANGED <<job, socket>>
    BY <1>3 DEF PollCollect
  <2>2. poll'.pc = "store" /\ poll'.todo = poll.todo \ {o} /\ poll'.cur = o
    BY <2>1
  <2> QED BY <1>0, <2>1, <2>2 DEF Known
<1>4. CASE ResetStart
  <2>1. job'.todo = Listed /\ job'.list = Listed /\ UNCHANGED <<poll, socket>>
    BY <1>4 DEF ResetStart
  <2> QED BY <1>0, <2>1, ListedKnown DEF Known
<1>5. CASE ResetOne \/ ResetStamp \/ ResetEnd \/ \E o \in job.todo : ResetApply(o)
  <2>1. /\ job'.todo \subseteq job.todo \/ job'.todo = job.list
        /\ job'.list \subseteq job.list
    <3>1. CASE ResetOne \/ \E o \in job.todo : ResetApply(o)
      <4>1. PICK o \in job.todo : job' = [job EXCEPT !.todo = @ \ {o}]
        BY Zenon, <3>1 DEF ResetOne, ResetApply
      <4> QED BY <4>1, PollIsRecord
    <3>2. CASE ResetStamp
      BY <3>2, PollIsRecord DEF ResetStamp
    <3>3. CASE ResetEnd
      BY <3>3 DEF ResetEnd
    <3> QED BY <1>5, <3>1, <3>2, <3>3
  <2>2. UNCHANGED <<poll, socket>>
    BY <1>5 DEF ResetOne, ResetStamp, ResetEnd, ResetApply
  <2> QED BY <1>0, <2>1, <2>2 DEF Known
<1>6. CASE Reapply
  BY <1>0, <1>6, ListedKnown DEF Reapply, ReapplyStart, ReapplyOne, ReapplyEnd, Known, TypeOK
<1>7. CASE DiscoveryJob
  BY <1>0, <1>7 DEF DiscoveryJob, Known
<1>8. CASE \E c \in Containers : HandleEvent(c)
  BY <1>0, <1>8 DEF HandleEvent, EventStart, EventDie, EventDestroy, Known
<1>9. CASE World
  BY <1>0, <1>9 DEF World, DockerStart, DockerStop, DockerPause, Traffic, Midnight, Known
<1>10. CASE UNCHANGED vars
  BY <1>10 DEF vars, Known
<1> QED BY <1>1, <1>2, <1>3, <1>4, <1>5, <1>6, <1>7, <1>8, <1>9, <1>10
        DEF Next, Poll, ResetJob

-----------------------------------------------------------------------------
(* The usage.                                                              *)

\* What the store under way will add for container c.
Storing(c) == IF poll.pc = "store" /\ heap[poll.cur].id = c THEN poll.delta ELSE 0

\* Usage, what a store under way adds to it and what the next reading would
\* add together never exceed the traffic of the container.
Booked ==
  /\ \A c \in Containers : counter[c] <= total[c]
  /\ \A o \in DOMAIN heap : heap[o].today + Delta(heap[o].id) <= total[heap[o].id]
  /\ poll.pc = "store" =>
       poll.load + poll.delta + Delta(heap[poll.cur].id) <= total[heap[poll.cur].id]
  /\ \A c \in Containers : recorded[c] + Storing(c) + Delta(c) <= total[c]

LEMMA Numbers ==
  ASSUME TypeOK
  PROVE  /\ \A c \in Containers :
              /\ counter[c] \in 0..MaxTraffic /\ total[c] \in 0..MaxTraffic
              /\ prev[c] \in Nat /\ recorded[c] \in 0..MaxTraffic
              /\ Delta(c) \in Nat /\ Delta(c) <= counter[c]
              /\ Delta(c) <= MaxTraffic
         /\ poll.load \in Nat /\ poll.delta \in Nat
         /\ \A o \in DOMAIN heap : heap[o].id \in Containers /\ heap[o].today \in Nat
         /\ MaxTraffic \in Nat
<1>1. MaxTraffic \in Nat
  BY ConstantsAssumption
<1>2. ASSUME NEW c \in Containers
      PROVE  /\ counter[c] \in 0..MaxTraffic /\ total[c] \in 0..MaxTraffic
             /\ prev[c] \in Nat /\ recorded[c] \in 0..MaxTraffic
  BY <1>1 DEF TypeOK
<1>3. ASSUME NEW c \in Containers
      PROVE  Delta(c) \in Nat /\ Delta(c) <= counter[c]
  BY <1>1, <1>2 DEF Delta, FirstReading
<1>4. \A o \in DOMAIN heap : heap[o].id \in Containers /\ heap[o].today \in Nat
  BY HeapType, <1>1 DEF Object
<1>5. poll.load \in Nat /\ poll.delta \in Nat
  BY <1>1 DEF TypeOK
<1> QED BY <1>1, <1>2, <1>3, <1>4, <1>5

\* Steps that read and store nothing: usage stays or becomes zero.
LEMMA BookedStays ==
  ASSUME TypeOK, Known, Booked,
         UNCHANGED <<counter, total, prev>>,
         \A c \in Containers : recorded'[c] = recorded[c] \/ recorded'[c] = 0,
         \A o \in DOMAIN heap' :
            /\ heap'[o].id \in Containers
            /\ \/ heap'[o].today = 0
               \/ o \in DOMAIN heap /\ heap'[o].id = heap[o].id
                                    /\ heap'[o].today = heap[o].today,
         \A o \in DOMAIN heap : heap'[o].id = heap[o].id,
         poll'.pc = "store" =>
           poll.pc = "store" /\ poll'.cur = poll.cur /\ poll'.load = poll.load
                            /\ poll'.delta = poll.delta
  PROVE  Booked'
<1>1. \A c : Delta(c)' = Delta(c)
  BY DEF Delta, FirstReading
<1>2. \A c \in Containers : (counter[c] <= total[c])'
  BY DEF Booked
<1>3. ASSUME NEW o \in DOMAIN heap'
      PROVE  (heap[o].today + Delta(heap[o].id) <= total[heap[o].id])'
  <2>1. PICK d \in Containers : d = heap'[o].id
    OBVIOUS
  <2>2. Delta(heap[o].id)' = Delta(d) /\ total'[d] = total[d]
    BY <2>1 DEF Delta, FirstReading
  <2>3. CASE heap'[o].today = 0
    <3>1. Delta(d) <= total[d]
      BY <2>1, Numbers DEF Booked
    <3> QED BY <2>1, <2>2, <2>3, <3>1, Numbers
  <2>4. CASE /\ o \in DOMAIN heap
             /\ heap'[o].id = heap[o].id
             /\ heap'[o].today = heap[o].today
    <3>1. heap[o].today + Delta(d) <= total[d]
      BY <2>1, <2>4 DEF Booked
    <3> QED BY <2>1, <2>2, <2>4, <3>1
  <2> QED BY <2>3, <2>4
<1>4. (poll.pc = "store" =>
        poll.load + poll.delta + Delta(heap[poll.cur].id) <= total[heap[poll.cur].id])'
  <2> SUFFICES ASSUME poll'.pc = "store"
               PROVE  (poll.load + poll.delta + Delta(heap[poll.cur].id)
                         <= total[heap[poll.cur].id])'
    OBVIOUS
  <2>1. poll.pc = "store" /\ poll'.cur = poll.cur /\ poll'.load = poll.load
        /\ poll'.delta = poll.delta /\ poll.cur \in DOMAIN heap
    BY DEF Known
  <2>2. heap'[poll'.cur].id = heap[poll.cur].id
    BY <2>1
  <2> QED BY <1>1, <2>1, <2>2 DEF Booked
<1>5. ASSUME NEW c \in Containers
      PROVE  (recorded[c] + Storing(c) + Delta(c) <= total[c])'
  <2>1. Storing(c)' = Storing(c) \/ Storing(c)' = 0
    BY DEF Storing, Known
  <2>2. Storing(c) \in Nat
    BY Numbers DEF Storing
  <2>3. recorded[c] + Storing(c) + Delta(c) <= total[c]
    BY DEF Booked
  <2> QED BY <1>1, <2>1, <2>2, <2>3, Numbers
<1> QED BY <1>2, <1>3, <1>4, <1>5 DEF Booked

\* A reading moves what it adds from the counter into the store under way.
LEMMA CollectBooked ==
  ASSUME TypeOK, Known, Booked, PollCollect
  PROVE  Booked'
<1>1. PICK o \in poll.todo :
        /\ poll' = [pc |-> "store", todo |-> poll.todo \ {o}, cur |-> o,
                    load |-> heap[o].today, delta |-> Delta(heap[o].id)]
        /\ prev' = [prev EXCEPT ![heap[o].id] = counter[heap[o].id]]
        /\ poll.pc = "next"
        /\ UNCHANGED <<heap, counter, total, recorded>>
  BY DEF PollCollect, kernel, history
<1>2. o \in DOMAIN heap
  BY <1>1 DEF Known
<1>0. PICK c \in Containers : c = heap[o].id
  BY <1>2, Numbers
<1>3. /\ poll'.pc = "store" /\ poll'.cur = o
      /\ poll'.load = heap[o].today /\ poll'.delta = Delta(c)
  BY <1>1, <1>0
<1>4. prev \in [Containers -> 0..MaxTraffic + 1]
  BY DEF TypeOK
<1>5. \A d \in Containers : Delta(d)' = IF d = c THEN 0 ELSE Delta(d)
  <2> TAKE d \in Containers
  <2>1. prev'[d] = IF d = c THEN counter[c] ELSE prev[d]
    BY <1>0, <1>1, <1>4
  <2> QED BY <1>1, <1>2, <2>1, Numbers DEF Delta, FirstReading, Unread
<1>6. \A d \in Containers : Delta(d)' \in Nat /\ Delta(d)' <= Delta(d)
  BY <1>5, Numbers
<1>7. \A p \in DOMAIN heap : heap[p].id \in Containers /\ heap[p].today \in Nat
  BY Numbers
<1>8. \A d \in Containers : (counter[d] <= total[d])'
  BY <1>1 DEF Booked
<1>9. \A p \in DOMAIN heap' : (heap[p].today + Delta(heap[p].id) <= total[heap[p].id])'
  <2> SUFFICES ASSUME NEW p \in DOMAIN heap
               PROVE  (heap[p].today + Delta(heap[p].id) <= total[heap[p].id])'
    BY <1>1
  <2>1. PICK d \in Containers : d = heap[p].id
    BY <1>7
  <2>2. heap[p].today + Delta(d) <= total[d]
    BY <2>1 DEF Booked
  <2>3. Delta(heap[p].id)' = Delta(d)'
    BY <1>1, <2>1 DEF Delta, FirstReading
  <2> QED BY <1>1, <1>6, <1>7, <2>1, <2>2, <2>3, Numbers
<1>10. (poll.load + poll.delta + Delta(heap[poll.cur].id) <= total[heap[poll.cur].id])'
  <2>1. heap[o].today + Delta(c) <= total[c]
    BY <1>0, <1>2 DEF Booked
  <2>2. Delta(c)' = 0
    BY <1>5
  <2>3. heap'[poll'.cur].id = c /\ total' = total
    BY <1>0, <1>1, <1>3
  <2>4. Delta(heap[poll.cur].id)' = Delta(c)'
    BY <2>3 DEF Delta, FirstReading
  <2> QED BY <1>2, <1>3, <2>1, <2>2, <2>3, <2>4, Numbers
<1>11. ASSUME NEW d \in Containers
       PROVE  (recorded[d] + Storing(d) + Delta(d) <= total[d])'
  <2>1. Storing(d)' = IF d = c THEN Delta(d) ELSE 0
    BY <1>0, <1>1, <1>3 DEF Storing
  <2>2. Storing(d) = 0
    BY <1>1 DEF Storing
  <2>3. recorded[d] + Delta(d) <= total[d]
    BY <2>2, Numbers DEF Booked
  <2>4. Storing(d)' + Delta(d)' = Delta(d)
    BY <1>5, <2>1, Numbers
  <2> QED BY <1>1, <1>6, <2>1, <2>3, <2>4, Numbers
<1> QED BY <1>3, <1>8, <1>9, <1>10, <1>11 DEF Booked

\* The store adds what was read.
LEMMA StoreBooked ==
  ASSUME TypeOK, Known, Booked, PollStore
  PROVE  Booked'
<1> DEFINE o == poll.cur
           c == heap[o].id
<1>1. o \in DOMAIN heap /\ c \in Containers /\ heap[o] \in Object
  BY Numbers, HeapType DEF Known, PollStore
<1>2. /\ poll.pc = "store" /\ poll'.pc = "check"
      /\ UNCHANGED <<counter, total, prev>>
  BY PollIsRecord DEF PollStore, kernel
<1>3. /\ heap' = [heap EXCEPT ![o].today = poll.load + poll.delta]
      /\ recorded' = [recorded EXCEPT ![c] = recorded[c] + poll.delta]
  BY DEF PollStore
<1>4. /\ DOMAIN heap' = DOMAIN heap
      /\ \A p \in DOMAIN heap :
           /\ heap'[p].id = heap[p].id
           /\ heap'[p].today = IF p = o THEN poll.load + poll.delta ELSE heap[p].today
  BY <1>1, <1>3 DEF Object
<1>5. \A d : Delta(d)' = Delta(d)
  BY <1>2 DEF Delta, FirstReading
<1>6. \A d \in Containers : (counter[d] <= total[d])'
  BY <1>2 DEF Booked
<1>7. \A p \in DOMAIN heap' : (heap[p].today + Delta(heap[p].id) <= total[heap[p].id])'
  BY <1>2, <1>4, <1>5 DEF Booked
<1>8. ASSUME NEW d \in Containers
      PROVE  (recorded[d] + Storing(d) + Delta(d) <= total[d])'
  <2>1. Storing(d)' = 0
    BY <1>2 DEF Storing
  <2>2. Storing(d) = IF d = c THEN poll.delta ELSE 0
    BY <1>2 DEF Storing
  <2>3. recorded'[d] = recorded[d] + Storing(d)
    <3>1. recorded \in [Containers -> 0..MaxTraffic]
      BY DEF TypeOK
    <3>2. recorded'[d] = IF d = c THEN recorded[c] + poll.delta ELSE recorded[d]
      BY <1>1, <1>3, <3>1
    <3> QED BY <2>2, <3>2, Numbers
  <2>4. recorded[d] + Storing(d) + Delta(d) <= total[d]
    BY DEF Booked
  <2>5. Storing(d) \in Nat
    BY <2>2, Numbers
  <2> QED BY <1>2, <1>5, <2>1, <2>3, <2>4, <2>5, Numbers
<1> QED BY <1>2, <1>6, <1>7, <1>8 DEF Booked

\* Traffic is counted as it flows, and a new veth counts from zero.
LEMMA WorldBooked ==
  ASSUME TypeOK, Known, Booked, NEW c \in Containers, Traffic(c) \/ DockerStart(c)
  PROVE  Booked'
<1>1. UNCHANGED <<heap, poll, prev, recorded>>
  BY DEF Traffic, DockerStart, history
<1>2. ASSUME NEW d \in Containers
      PROVE  /\ counter'[d] <= total'[d]
             /\ total'[d] \in Nat
             /\ Delta(d)' \in Nat
             /\ Delta(d)' + total[d] <= Delta(d) + total'[d]
  <2>0. /\ counter \in [Containers -> 0..MaxTraffic]
        /\ total \in [Containers -> 0..MaxTraffic]
        /\ counter[d] <= total[d]
    BY DEF TypeOK, Booked
  <2>1. CASE Traffic(c)
    <3>1. /\ counter' = [counter EXCEPT ![c] = @ + 1]
          /\ total' = [total EXCEPT ![c] = @ + 1]
      BY <2>1 DEF Traffic
    <3>2. \/ counter'[d] = counter[d] /\ total'[d] = total[d]
          \/ counter'[d] = counter[d] + 1 /\ total'[d] = total[d] + 1
      BY <2>0, <3>1
    <3> QED BY <1>1, <2>0, <3>2, Numbers DEF Delta, FirstReading
  <2>2. CASE DockerStart(c)
    <3>1. counter' = [counter EXCEPT ![c] = 0] /\ total' = total
      BY <2>2 DEF DockerStart, history
    <3>2. counter'[d] = counter[d] \/ counter'[d] = 0
      BY <2>0, <3>1
    <3> QED BY <1>1, <2>0, <3>1, <3>2, Numbers DEF Delta, FirstReading
  <2> QED BY <2>1, <2>2
<1>3. \A o \in DOMAIN heap : heap[o].id \in Containers /\ heap[o].today \in Nat
  BY Numbers
<1>4. ASSUME NEW o \in DOMAIN heap'
      PROVE  (heap[o].today + Delta(heap[o].id) <= total[heap[o].id])'
  <2>1. PICK d \in Containers : d = heap[o].id
    BY <1>1, <1>3
  <2>2. heap[o].today + Delta(d) <= total[d]
    BY <1>1, <2>1 DEF Booked
  <2>3. Delta(heap[o].id)' = Delta(d)'
    BY <1>1, <2>1 DEF Delta, FirstReading
  <2> QED BY <1>1, <1>2, <1>3, <2>1, <2>2, <2>3, Numbers
<1>5. (poll.pc = "store" =>
        poll.load + poll.delta + Delta(heap[poll.cur].id) <= total[heap[poll.cur].id])'
  <2> SUFFICES ASSUME poll.pc = "store"
               PROVE  (poll.load + poll.delta + Delta(heap[poll.cur].id)
                         <= total[heap[poll.cur].id])'
    BY <1>1
  <2>1. PICK d \in Containers : d = heap[poll.cur].id
    BY <1>3 DEF Known
  <2>2. poll.load + poll.delta + Delta(d) <= total[d]
    BY <2>1 DEF Booked
  <2>3. Delta(heap[poll.cur].id)' = Delta(d)'
    BY <1>1, <2>1 DEF Delta, FirstReading
  <2> QED BY <1>1, <1>2, <2>1, <2>2, <2>3, Numbers
<1>6. ASSUME NEW d \in Containers
      PROVE  (recorded[d] + Storing(d) + Delta(d) <= total[d])'
  <2>1. recorded[d] + Storing(d) + Delta(d) <= total[d]
    BY DEF Booked
  <2>2. Storing(d)' = Storing(d) /\ Storing(d) \in Nat
    BY <1>1, Numbers DEF Storing
  <2> QED BY <1>1, <1>2, <2>1, <2>2, Numbers
<1> QED BY <1>2, <1>4, <1>5, <1>6 DEF Booked

LEMMA StoredBounded ==
  ASSUME TypeOK, Known, Booked, PollStore
  PROVE  poll.load + poll.delta \in 0..MaxTraffic
<1>1. PICK c \in Containers : c = heap[poll.cur].id
  BY Numbers DEF Known, PollStore
<1>2. poll.load + poll.delta + Delta(c) <= total[c]
  BY <1>1 DEF Booked, PollStore
<1> QED BY <1>2, Numbers

\* The usage an object has after a step that stores none.
LEMMA UsageStays ==
  ASSUME TypeOK, Known, Booked, [Next]_vars, ~PollStore
  PROVE  /\ \A o \in DOMAIN heap' :
              /\ heap'[o].id \in Containers
              /\ \/ heap'[o].today = 0
                 \/ o \in DOMAIN heap /\ heap'[o].id = heap[o].id
                                      /\ heap'[o].today = heap[o].today
         /\ \A o \in DOMAIN heap : o \in DOMAIN heap' /\ heap'[o].id = heap[o].id
<1>0. \A o \in DOMAIN heap : heap[o].id \in Containers /\ heap[o] \in Object
  BY Numbers, HeapType
<1>1. CASE ResetOne
  <2>1. PICK o \in job.todo : heap' = [heap EXCEPT ![o] = Reset(heap[o])]
    BY <1>1 DEF ResetOne
  <2>2. DOMAIN heap' = DOMAIN heap
    BY <2>1
  <2>3. \A p \in DOMAIN heap : heap'[p] = IF p = o THEN Reset(heap[o]) ELSE heap[p]
    BY <2>1
  <2> QED BY <1>0, <2>2, <2>3, ResetType
<1>2. CASE Touching /\ ~ResetOne
  <2>1. InPlace
    BY <1>2, TouchingInPlace
  <2> QED BY <1>0, <1>2, <2>1 DEF InPlace
<1>3. CASE Resting
  BY <1>0, <1>3, RestingHeap
<1>4. CASE DiscoveryJob \/ \E c \in Containers : EventStart(c)
  <2>1. Allocated
    BY <1>4, Allocating
  <2> QED BY <1>0, <2>1, InspectedType DEF Allocated
<1> QED BY <1>1, <1>2, <1>3, <1>4, StepKinds DEF Touching

LEMMA BookedKept ==
  ASSUME TypeOK, Known, Booked, [Next]_vars
  PROVE  Booked'
<1>1. CASE PollCollect
  BY <1>1, CollectBooked
<1>2. CASE PollStore
  BY <1>2, StoreBooked
<1>3. CASE \E c \in Containers : Traffic(c) \/ DockerStart(c)
  BY <1>3, WorldBooked
<1>4. ASSUME ~PollCollect, ~PollStore,
             ~\E c \in Containers : Traffic(c) \/ DockerStart(c)
      PROVE  Booked'
  <2> DEFINE Untouched == UNCHANGED <<counter, total, prev>>
             Reset0 == \A c \in Containers : recorded'[c] = recorded[c] \/ recorded'[c] = 0
             Settled == poll'.pc = "store" =>
                          poll.pc = "store" /\ poll'.cur = poll.cur
                            /\ poll'.load = poll.load /\ poll'.delta = poll.delta
  <2>1. Untouched /\ Reset0 /\ Settled
    <3>1. CASE PollStart \/ PollSkip \/ PollCheck \/ PollThrottle \/ PollApply \/ PollEnd
      <4>1. poll'.pc # "store"
        BY <3>1, PollIsRecord
           DEF PollStart, PollSkip, PollCheck, PollThrottle, PollApply, PollEnd
      <4>2. UNCHANGED <<counter, total, prev, recorded>>
        BY <3>1 DEF PollStart, PollSkip, PollCheck, PollThrottle, PollApply, PollEnd,
                    kernel, history
      <4> QED BY <4>1, <4>2
    <3>2. CASE ResetOne
      <4>1. PICK o \in job.todo :
              /\ recorded' = [recorded EXCEPT ![heap[o].id] = 0]
              /\ UNCHANGED <<counter, total, prev, poll>>
        BY <3>2 DEF ResetOne, kernel
      <4>2. recorded \in [Containers -> 0..MaxTraffic]
        BY DEF TypeOK
      <4> QED BY <4>1, <4>2
    <3>3. CASE \/ ResetStart \/ ResetStamp \/ ResetEnd
               \/ \E o \in job.todo : ResetApply(o)
      BY <3>3 DEF ResetStart, ResetStamp, ResetEnd, ResetApply, kernel, history
    <3>4. CASE Reapply
      BY <3>4 DEF Reapply, ReapplyStart, ReapplyOne, ReapplyEnd, kernel, history
    <3>5. CASE DiscoveryJob \/ \E c \in Containers : HandleEvent(c)
      BY <3>5 DEF DiscoveryJob, HandleEvent, EventStart, EventDie, EventDestroy, kernel, history
    <3>6. CASE World
      BY <1>4, <3>6 DEF World, DockerStop, DockerPause, Midnight, kernel, history
    <3>7. CASE UNCHANGED vars
      BY <3>7 DEF vars, kernel, history
    <3> QED BY <1>4, <3>1, <3>2, <3>3, <3>4, <3>5, <3>6, <3>7 DEF Next, Poll, ResetJob
  <2> HIDE DEF Untouched, Reset0, Settled
  <2>2. /\ \A o \in DOMAIN heap' :
             /\ heap'[o].id \in Containers
             /\ \/ heap'[o].today = 0
                \/ o \in DOMAIN heap /\ heap'[o].id = heap[o].id
                                     /\ heap'[o].today = heap[o].today
        /\ \A o \in DOMAIN heap : heap'[o].id = heap[o].id
    BY <1>4, UsageStays
  <2> QED BY <2>1, <2>2, BookedStays DEF Untouched, Reset0, Settled
<1> QED BY <1>1, <1>2, <1>3, <1>4

-----------------------------------------------------------------------------
(* Type correctness.                                                       *)

LEMMA HeapKept ==
  ASSUME TypeOK, Known, Booked, [Next]_vars
  PROVE  /\ heap' \in Seq(Object) /\ Len(heap') <= MaxObjects
         /\ map' \in [Containers -> 0..Len(heap')]
<1>0. /\ heap \in Seq(Object) /\ Len(heap) \in 0..MaxObjects
      /\ map \in [Containers -> 0..Len(heap)]
  BY HeapType DEF TypeOK
<1>1. CASE Touching
  <2>1. InPlace
    BY <1>1, TouchingInPlace, StoredBounded
  <2>2. map' = map
    BY <1>1 DEF Touching, PollStore, PollThrottle, ResetOne, EventDie
  <2> QED BY <1>0, <2>1, <2>2 DEF InPlace
<1>2. CASE Resting
  <2>1. heap' = heap
    BY <1>2, RestingHeap
  <2>2. map' = map \/ \E c \in Containers : map' = [map EXCEPT ![c] = NoObject]
    BY <1>2 DEF Resting, PollStart, PollSkip, PollCollect, PollCheck, PollApply, PollEnd,
                ResetStart, ResetStamp, ResetEnd, ResetApply, Reapply, ReapplyStart,
                ReapplyOne, ReapplyEnd, EventDestroy, World, DockerStart, DockerStop,
                DockerPause, Traffic, Midnight, vars
  <2> QED BY <1>0, <2>1, <2>2 DEF NoObject
<1>3. CASE DiscoveryJob
  <2> DEFINE S == {c \in Containers : docker[c] # "gone"}
  <2>1. S \in SUBSET Containers /\ IsFiniteSet(S)
    BY ConstantsAssumption, FS_Subset
  <2>2. /\ Len(heap) + Cardinality(S) <= MaxObjects
        /\ heap' = heap \o Fresh(S)
        /\ map' = [c \in Containers |-> IF c \in S THEN Len(heap) + Numbering(S)[c]
                                        ELSE NoObject]
    BY <1>3 DEF DiscoveryJob
  <2> HIDE DEF S
  <2>3. Numbering(S) \in [S -> 1..Cardinality(S)] /\ Cardinality(S) \in Nat
    BY <2>1, Numbered
  <2>4. Fresh(S) \in Seq(Object) /\ Len(Fresh(S)) = Cardinality(S)
    BY <2>1, FreshType
  <2>5. heap' \in Seq(Object) /\ Len(heap') = Len(heap) + Cardinality(S)
    BY <1>0, <2>2, <2>4, ConcatProperties
  <2>6. ASSUME NEW c \in Containers
        PROVE  (IF c \in S THEN Len(heap) + Numbering(S)[c] ELSE NoObject) \in 0..Len(heap')
    BY <1>0, <2>3, <2>5 DEF NoObject
  <2> QED BY <1>0, <2>2, <2>3, <2>5, <2>6
<1>4. ASSUME NEW c \in Containers, EventStart(c)
      PROVE  /\ heap' \in Seq(Object) /\ Len(heap') <= MaxObjects
             /\ map' \in [Containers -> 0..Len(heap')]
  <2>1. heap' = Append(heap, Inspected(c)) /\ map' = [map EXCEPT ![c] = Len(heap) + 1]
        /\ Len(heap) < MaxObjects
    BY <1>4 DEF EventStart
  <2>2. heap' \in Seq(Object) /\ Len(heap') = Len(heap) + 1
    BY <1>0, <2>1, InspectedType, AppendProperties
  <2> QED BY <1>0, <2>1, <2>2, ConstantsAssumption
<1> QED BY <1>1, <1>2, <1>3, <1>4, StepKinds

LEMMA KernelKept ==
  ASSUME TypeOK, Booked, [Next]_vars
  PROVE  /\ docker' \in [Containers -> {"running", "paused", "gone"}]
         /\ event' \in [Containers -> {"none", "start", "die", "destroy"}]
         /\ veth' \in [Containers -> 1..MaxVeth]
         /\ counter' \in [Containers -> 0..MaxTraffic]
         /\ total' \in [Containers -> 0..MaxTraffic]
<1>0. /\ docker \in [Containers -> {"running", "paused", "gone"}]
      /\ event \in [Containers -> {"none", "start", "die", "destroy"}]
      /\ veth \in [Containers -> 1..MaxVeth]
      /\ counter \in [Containers -> 0..MaxTraffic]
      /\ total \in [Containers -> 0..MaxTraffic]
      /\ \A c \in Containers : counter[c] <= total[c]
      /\ MaxTraffic \in Nat /\ MaxVeth \in Nat
  BY ConstantsAssumption DEF TypeOK, Booked
<1> USE DEF kernel, clock, history
<1>1. CASE Poll
  BY <1>0, <1>1 DEF Poll, PollStart, PollSkip, PollCollect, PollStore, PollCheck,
                    PollThrottle, PollApply, PollEnd
<1>2. CASE ResetJob \/ Reapply \/ DiscoveryJob
  BY <1>0, <1>2 DEF ResetJob, ResetStart, ResetOne, ResetStamp, ResetApply, ResetEnd,
                    Reapply, ReapplyStart, ReapplyOne, ReapplyEnd, DiscoveryJob
<1>3. CASE \E c \in Containers : HandleEvent(c)
  BY <1>0, <1>3 DEF HandleEvent, EventStart, EventDie, EventDestroy
<1>4. ASSUME NEW c \in Containers, DockerStart(c) \/ DockerStop(c) \/ DockerPause(c)
      PROVE  /\ docker' \in [Containers -> {"running", "paused", "gone"}]
             /\ event' \in [Containers -> {"none", "start", "die", "destroy"}]
             /\ veth' \in [Containers -> 1..MaxVeth]
             /\ counter' \in [Containers -> 0..MaxTraffic]
             /\ total' \in [Containers -> 0..MaxTraffic]
  BY <1>0, <1>4 DEF DockerStart, DockerStop, DockerPause
<1>5. ASSUME NEW c \in Containers, Traffic(c)
      PROVE  /\ UNCHANGED <<docker, event, veth>>
             /\ counter' \in [Containers -> 0..MaxTraffic]
             /\ total' \in [Containers -> 0..MaxTraffic]
  BY <1>0, <1>5 DEF Traffic
<1>6. CASE Midnight \/ UNCHANGED vars
  BY <1>0, <1>6 DEF Midnight, vars
<1> QED BY <1>0, <1>1, <1>2, <1>3, <1>4, <1>5, <1>6 DEF Next, World

PollType ==
  [pc : {"idle", "next", "store", "check", "throttle", "apply"}, todo : SUBSET Objects,
   cur : 0..MaxObjects, load : 0..MaxTraffic, delta : 0..MaxTraffic]

JobType ==
  [pc : {"idle", "reset", "apply"}, todo : SUBSET Objects, list : SUBSET Objects]

SocketType == [pc : {"idle", "apply"}, todo : SUBSET Objects]

LEMMA PollKept ==
  ASSUME TypeOK, Known, [Next]_vars
  PROVE  poll' \in PollType
<1>0. /\ poll \in PollType
      /\ 0 \in 0..MaxTraffic /\ NoObject \in 0..MaxObjects
      /\ Listed \in SUBSET Objects
  <2>1. poll \in PollType
    BY DEF TypeOK, PollType
  <2>2. Listed \in SUBSET Objects
    BY ListedKnown, HeapType
  <2> QED BY <2>1, <2>2, ConstantsAssumption DEF NoObject
<1> USE DEF kernel, clock, history
<1>1. CASE PollStart
  BY <1>0, <1>1 DEF PollStart, PollType
<1>2. CASE PollSkip
  <2>1. PICK o \in poll.todo : poll' = [poll EXCEPT !.todo = @ \ {o}]
    BY <1>2 DEF PollSkip
  <2> QED BY <1>0, <2>1 DEF PollType
<1>3. CASE PollCollect
  <2>1. PICK o \in poll.todo :
          poll' = [pc |-> "store", todo |-> poll.todo \ {o}, cur |-> o,
                   load |-> heap[o].today, delta |-> Delta(heap[o].id)]
    BY <1>3 DEF PollCollect
  <2>2. o \in DOMAIN heap
    BY DEF Known
  <2>3. o \in 0..MaxObjects /\ heap[o].today \in 0..MaxTraffic
    BY <2>2, HeapType, ConstantsAssumption DEF Object
  <2>4. Delta(heap[o].id) \in 0..MaxTraffic
    BY <2>2, Numbers
  <2>5. poll.todo \ {o} \in SUBSET Objects
    BY <1>0 DEF PollType
  <2> QED BY <2>1, <2>3, <2>4, <2>5 DEF PollType
<1>4. CASE PollStore
  BY <1>0, <1>4 DEF PollStore, PollType
<1>5. CASE PollCheck
  BY <1>0, <1>5 DEF PollCheck, PollType
<1>6. CASE PollThrottle \/ PollApply \/ PollEnd
  BY <1>0, <1>6 DEF PollThrottle, PollApply, PollEnd, PollType
<1>7. CASE ResetJob \/ Reapply \/ DiscoveryJob
  BY <1>0, <1>7 DEF ResetJob, ResetStart, ResetOne, ResetStamp, ResetApply, ResetEnd,
                    Reapply, ReapplyStart, ReapplyOne, ReapplyEnd, DiscoveryJob
<1>8. CASE \E c \in Containers : HandleEvent(c)
  BY <1>0, <1>8 DEF HandleEvent, EventStart, EventDie, EventDestroy
<1>9. CASE World \/ UNCHANGED vars
  BY <1>0, <1>9 DEF World, DockerStart, DockerStop, DockerPause, Traffic, Midnight, vars
<1> QED BY <1>1, <1>2, <1>3, <1>4, <1>5, <1>6, <1>7, <1>8, <1>9 DEF Next, Poll

LEMMA JobKept ==
  ASSUME TypeOK, [Next]_vars
  PROVE  job' \in JobType /\ socket' \in SocketType
<1>0. job \in JobType /\ socket \in SocketType /\ Listed \in SUBSET Objects
  BY ListedKnown, HeapType DEF TypeOK, JobType, SocketType
<1> USE DEF kernel, clock, history
<1>1. CASE ResetStart \/ ResetEnd
  BY <1>0, <1>1 DEF ResetStart, ResetEnd, JobType
<1>2. CASE ResetOne \/ \E o \in job.todo : ResetApply(o)
  <2>1. PICK o \in job.todo : job' = [job EXCEPT !.todo = @ \ {o}] /\ UNCHANGED socket
    BY <1>2 DEF ResetOne, ResetApply
  <2> QED BY <1>0, <2>1 DEF JobType
<1>3. CASE ResetStamp
  BY <1>0, <1>3 DEF ResetStamp, JobType
<1>4. CASE ReapplyStart \/ ReapplyEnd
  BY <1>0, <1>4 DEF ReapplyStart, ReapplyEnd, SocketType
<1>5. CASE ReapplyOne
  <2>1. UNCHANGED job
    BY <1>5 DEF ReapplyOne
  <2>2. \/ \E o \in socket.todo : socket' = [socket EXCEPT !.todo = @ \ {o}]
        \/ socket' = [pc |-> "idle", todo |-> {}]
    BY <1>5 DEF ReapplyOne
  <2> QED BY <1>0, <2>1, <2>2 DEF SocketType
<1>6. CASE Poll
  BY <1>0, <1>6 DEF Poll, PollStart, PollSkip, PollCollect, PollStore, PollCheck,
                    PollThrottle, PollApply, PollEnd
<1>7. CASE DiscoveryJob \/ \E c \in Containers : HandleEvent(c)
  BY <1>0, <1>7 DEF DiscoveryJob, HandleEvent, EventStart, EventDie, EventDestroy
<1>8. CASE World \/ UNCHANGED vars
  BY <1>0, <1>8 DEF World, DockerStart, DockerStop, DockerPause, Traffic, Midnight, vars
<1> QED BY <1>1, <1>2, <1>3, <1>4, <1>5, <1>6, <1>7, <1>8 DEF Next, ResetJob, Reapply

LEMMA ApplyType ==
  ASSUME TypeOK, NEW o, NEW ok, ApplyLimit(o, ok)
  PROVE  shaping' \in [Containers -> Speeds] /\ failed' \subseteq failed \cup {heap[o].id}
<1>1. shaping \in [Containers -> Speeds]
  BY DEF TypeOK
<1>2. failed' \subseteq failed \cup {heap[o].id}
  BY DEF ApplyLimit
<1>3. CASE Attached(o)
  <2>1. PICK s \in IF ok THEN {Speed(o)} ELSE {"none", shaping[heap[o].id]} :
          shaping' = [shaping EXCEPT ![heap[o].id] = s]
    BY <1>3 DEF ApplyLimit
  <2>2. Speed(o) \in Speeds /\ "none" \in Speeds
    BY DEF Speed, Speeds
  <2>3. heap[o].id \in Containers => s \in Speeds
    BY <1>1, <2>1, <2>2
  <2> QED BY <1>1, <1>2, <2>1, <2>3
<1>4. CASE ~Attached(o)
  BY <1>1, <1>2, <1>4 DEF ApplyLimit
<1> QED BY <1>3, <1>4

LEMMA ShapingKept ==
  ASSUME TypeOK, Known, [Next]_vars
  PROVE  shaping' \in [Containers -> Speeds] /\ failed' \in SUBSET Containers
<1>0. shaping \in [Containers -> Speeds] /\ failed \in SUBSET Containers
  BY DEF TypeOK
<1>1. ASSUME NEW o \in DOMAIN heap, NEW ok \in BOOLEAN, ApplyLimit(o, ok)
      PROVE  shaping' \in [Containers -> Speeds] /\ failed' \in SUBSET Containers
  <2>1. heap[o].id \in Containers
    BY HeapType DEF Object
  <2> QED BY <1>0, <1>1, <2>1, ApplyType
<1>2. CASE UNCHANGED <<shaping, failed>>
  BY <1>0, <1>2
<1>3. CASE PollApply
  BY <1>1, <1>3 DEF PollApply, Known
<1>4. CASE \E o \in job.todo : ResetApply(o)
  BY <1>1, <1>4 DEF ResetApply, Known
<1>5. CASE ReapplyOne
  BY <1>1, <1>2, <1>5 DEF ReapplyOne, Known
<1>6. CASE \E c \in Containers : DockerStop(c)
  BY <1>0, <1>6 DEF DockerStop, Speeds
<1>7. CASE PollStart \/ PollSkip \/ PollCollect \/ PollStore \/ PollCheck \/ PollThrottle
           \/ PollEnd \/ ResetStart \/ ResetOne \/ ResetStamp \/ ResetEnd
           \/ ReapplyStart \/ ReapplyEnd \/ DiscoveryJob
  BY <1>2, <1>7 DEF PollStart, PollSkip, PollCollect, PollStore, PollCheck, PollThrottle,
                    PollEnd, ResetStart, ResetOne, ResetStamp, ResetEnd, ReapplyStart,
                    ReapplyEnd, DiscoveryJob
<1>8. CASE \E c \in Containers : HandleEvent(c)
  BY <1>2, <1>8 DEF HandleEvent, EventStart, EventDie, EventDestroy
<1>9. CASE \/ \E c \in Containers : DockerStart(c) \/ DockerPause(c) \/ Traffic(c)
           \/ Midnight \/ UNCHANGED vars
  BY <1>2, <1>9 DEF DockerStart, DockerPause, Traffic, Midnight, vars
<1> QED BY <1>3, <1>4, <1>5, <1>6, <1>7, <1>8, <1>9 DEF Next, Poll, ResetJob, Reapply, World

LEMMA HistoryKept ==
  ASSUME TypeOK, Known, Booked, [Next]_vars
  PROVE  /\ prev' \in [Containers -> 0..MaxTraffic + 1]
         /\ recorded' \in [Containers -> 0..MaxTraffic]
         /\ notices' \in [Objects -> Int]
         /\ day' \in 1..MaxDay
         /\ lastReset' \in 0..MaxDay
<1>0. /\ prev \in [Containers -> 0..MaxTraffic + 1]
      /\ recorded \in [Containers -> 0..MaxTraffic]
      /\ notices \in [Objects -> Int]
      /\ day \in 1..MaxDay /\ lastReset \in 0..MaxDay
      /\ MaxDay \in Nat /\ MaxTraffic \in Nat
  BY ConstantsAssumption DEF TypeOK
<1> USE DEF kernel, clock, history
<1>1. CASE PollCollect
  <2>1. PICK o \in poll.todo :
          prev' = [prev EXCEPT ![heap[o].id] = counter[heap[o].id]]
    BY <1>1 DEF PollCollect
  <2>2. heap[o].id \in Containers
    BY Numbers DEF Known
  <2>3. counter[heap[o].id] \in 0..MaxTraffic + 1
    BY <1>0, <2>2, Numbers
  <2> QED BY <1>0, <1>1, <2>1, <2>3 DEF PollCollect
<1>2. CASE PollStore
  <2>1. PICK c \in Containers : c = heap[poll.cur].id
    BY <1>2, Numbers DEF PollStore, Known
  <2>2. recorded[c] + poll.delta + Delta(c) <= total[c]
    BY <1>2, <2>1 DEF PollStore, Booked, Storing
  <2>3. recorded[c] + poll.delta \in 0..MaxTraffic
    BY <2>2, Numbers
  <2> QED BY <1>0, <1>2, <2>1, <2>3 DEF PollStore
<1>3. CASE PollApply
  <2>1. /\ notices' = [notices EXCEPT ![poll.cur] = notices[poll.cur] + 1]
        /\ UNCHANGED <<prev, recorded, day, lastReset>>
    BY Zenon, <1>3 DEF PollApply
  <2>2. poll.cur \in Objects
    BY <1>3, HeapType DEF PollApply, Known
  <2> QED BY <1>0, <2>1, <2>2
<1>4. CASE PollStart \/ PollSkip \/ PollCheck \/ PollThrottle \/ PollEnd
  BY <1>0, <1>4 DEF PollStart, PollSkip, PollCheck, PollThrottle, PollEnd
<1>5. CASE ResetStart
  BY <1>0, <1>5 DEF ResetStart
<1>6. CASE ResetOne \/ ResetStamp \/ ResetEnd \/ \E o \in job.todo : ResetApply(o)
  BY <1>0, <1>6 DEF ResetOne, ResetStamp, ResetEnd, ResetApply
<1>7. CASE Reapply \/ DiscoveryJob
  BY <1>0, <1>7 DEF Reapply, ReapplyStart, ReapplyOne, ReapplyEnd, DiscoveryJob
<1>8. CASE \E c \in Containers : HandleEvent(c)
  BY <1>0, <1>8 DEF HandleEvent, EventStart, EventDie, EventDestroy
<1>9. CASE World \/ UNCHANGED vars
  BY <1>0, <1>9 DEF World, DockerStart, DockerStop, DockerPause, Traffic, Midnight, vars
<1> QED BY <1>1, <1>2, <1>3, <1>4, <1>5, <1>6, <1>7, <1>8, <1>9 DEF Next, Poll, ResetJob

LEMMA TypeKept ==
  ASSUME TypeOK, Known, Booked, [Next]_vars
  PROVE  TypeOK'
BY HeapKept, KernelKept, PollKept, JobKept, ShapingKept, HistoryKept
   DEF TypeOK, PollType, JobType, SocketType

-----------------------------------------------------------------------------
(* The notices.                                                            *)

\* Poll is about to send a notice for object o.
Applying(o) == IF poll.pc = "apply" /\ poll.cur = o THEN 1 ELSE 0

\* Poll may yet come to throttle object o.
Armed(o) ==
  IF \/ heap[o].state = "running"
     \/ poll.pc \in {"store", "check", "throttle"} /\ poll.cur = o
  THEN 1 ELSE 0

\* What was sent, is about to be sent or may come to be sent, since the reset.
Due(o) == notices[o] + Applying(o) + Armed(o)

Noticed ==
  /\ \A o \in DOMAIN heap : Due(o) <= 1
  /\ \A o \in Objects \ DOMAIN heap : notices[o] = 0

LEMMA Dues ==
  ASSUME TypeOK, NEW o \in Objects
  PROVE  notices[o] \in Int /\ Applying(o) \in 0..1 /\ Armed(o) \in 0..1
BY ConstantsAssumption DEF TypeOK, Applying, Armed

LEMMA DuesNext ==
  ASSUME TypeOK', NEW o \in Objects
  PROVE  notices'[o] \in Int /\ Applying(o)' \in 0..1 /\ Armed(o)' \in 0..1
BY ConstantsAssumption DEF TypeOK, Applying, Armed

\* A step for which an object comes to owe more only to the amount of one.
LEMMA NoticedStays ==
  ASSUME TypeOK, TypeOK', Known', Noticed,
         DOMAIN heap' = DOMAIN heap,
         \A o \in DOMAIN heap : Due(o)' <= Due(o) \/ Due(o)' <= 1,
         \A o \in Objects \ DOMAIN heap : notices'[o] = notices[o]
  PROVE  Noticed'
<1>1. ASSUME NEW o \in DOMAIN heap
      PROVE  (Due(o) <= 1)'
  <2>1. o \in Objects
    BY HeapType
  <2>2. Due(o) \in Int /\ Due(o)' \in Int
    BY <2>1, Dues, DuesNext DEF Due
  <2> QED BY <2>2 DEF Noticed
<1> QED BY <1>1 DEF Noticed

\* Steps that leave objects and notices alone, and whatever poll is at, it is
\* at the same object or at none.
LEMMA NoticedIdle ==
  ASSUME TypeOK, TypeOK', Known', Noticed, UNCHANGED <<heap, notices>>,
         \A o \in DOMAIN heap : Applying(o)' + Armed(o)' <= Applying(o) + Armed(o)
  PROVE  Noticed'
<1>1. ASSUME NEW o \in DOMAIN heap
      PROVE  Due(o)' <= Due(o)
  <2>1. o \in Objects
    BY HeapType
  <2>2. Applying(o)' + Armed(o)' <= Applying(o) + Armed(o)
    OBVIOUS
  <2> QED BY <2>1, <2>2, Dues, DuesNext DEF Due
<1> QED BY <1>1, NoticedStays

LEMMA PollNoticed ==
  ASSUME TypeOK, TypeOK', Known, Known', Noticed, Poll
  PROVE  Noticed'
<1> USE DEF kernel, clock, history
<1>1. CASE PollStart \/ PollSkip \/ PollEnd
  <2>1. /\ UNCHANGED <<heap, notices>>
        /\ poll.pc \in {"idle", "next"} /\ poll'.pc \in {"idle", "next"}
    BY <1>1, PollIsRecord DEF PollStart, PollSkip, PollEnd
  <2>2. \A o \in DOMAIN heap : Applying(o)' = Applying(o) /\ Armed(o)' = Armed(o)
    BY <2>1 DEF Applying, Armed
  <2>3. \A o \in DOMAIN heap : Applying(o) + Armed(o) <= Applying(o) + Armed(o)
    BY HeapType, Dues
  <2> QED BY <2>1, <2>2, <2>3, NoticedIdle
<1>2. CASE PollCollect
  <2>1. PICK p \in poll.todo :
          /\ poll.pc = "next" /\ Polled(p)
          /\ poll' = [pc |-> "store", todo |-> poll.todo \ {p}, cur |-> p,
                      load |-> heap[p].today, delta |-> Delta(heap[p].id)]
          /\ UNCHANGED <<heap, notices>>
    BY <1>2 DEF PollCollect
  <2>2. heap[p].state = "running" /\ poll'.pc = "store" /\ poll'.cur = p
    BY <2>1 DEF Polled
  <2>3. ASSUME NEW o \in DOMAIN heap
        PROVE  Applying(o)' + Armed(o)' <= Applying(o) + Armed(o)
    BY <2>1, <2>2 DEF Applying, Armed
  <2> QED BY <2>1, <2>3, NoticedIdle
<1>3. CASE PollStore
  <2>1. /\ poll.pc = "store" /\ poll'.pc = "check" /\ poll'.cur = poll.cur
        /\ UNCHANGED notices
        /\ heap' = [heap EXCEPT ![poll.cur].today = poll.load + poll.delta]
    BY <1>3, PollIsRecord DEF PollStore
  <2>2. DOMAIN heap' = DOMAIN heap
    BY <2>1
  <2>3. poll.cur \in DOMAIN heap /\ heap[poll.cur] \in Object
    BY <2>1, HeapType DEF Known
  <2>4. \A o \in DOMAIN heap : heap'[o].state = heap[o].state
    BY <2>1, <2>3 DEF Object
  <2>5. ASSUME NEW o \in DOMAIN heap
        PROVE  Due(o)' <= Due(o)
    <3>1. Due(o)' = Due(o)
      BY <2>1, <2>4 DEF Due, Applying, Armed
    <3> QED BY <3>1, HeapType, Dues DEF Due
  <2> QED BY <2>1, <2>2, <2>5, NoticedStays
<1>4. CASE PollCheck
  <2>1. /\ UNCHANGED <<heap, notices>>
        /\ poll.pc = "check"
        /\ \/ poll'.pc = "throttle" /\ poll'.cur = poll.cur
           \/ poll'.pc = "next"
    BY <1>4, PollIsRecord DEF PollCheck
  <2>2. ASSUME NEW o \in DOMAIN heap
        PROVE  Applying(o)' + Armed(o)' <= Applying(o) + Armed(o)
    BY <2>1 DEF Applying, Armed
  <2> QED BY <2>1, <2>2, NoticedIdle
<1>5. CASE PollThrottle
  <2>1. /\ poll.pc = "throttle" /\ poll'.pc = "apply" /\ poll'.cur = poll.cur
        /\ UNCHANGED notices
        /\ heap' = [heap EXCEPT ![poll.cur].state = "exceeded"]
    BY <1>5, PollIsRecord DEF PollThrottle
  <2>2. DOMAIN heap' = DOMAIN heap
    BY <2>1
  <2>3. poll.cur \in DOMAIN heap /\ heap[poll.cur] \in Object
    BY <2>1, HeapType DEF Known
  <2>4. \A o \in DOMAIN heap :
          heap'[o].state = IF o = poll.cur THEN "exceeded" ELSE heap[o].state
    BY <2>1, <2>3 DEF Object
  <2>5. ASSUME NEW o \in DOMAIN heap
        PROVE  Due(o)' <= Due(o)
    <3>1. Applying(o)' + Armed(o)' = Applying(o) + Armed(o)
      BY <2>1, <2>4 DEF Applying, Armed
    <3> QED BY <2>1, <3>1, HeapType, Dues, DuesNext DEF Due
  <2> QED BY <2>1, <2>2, <2>5, NoticedStays
<1>6. CASE PollApply
  <2>1. /\ poll.pc = "apply" /\ poll' = [poll EXCEPT !.pc = "next", !.cur = NoObject]
        /\ UNCHANGED heap
        /\ notices' = [notices EXCEPT ![poll.cur] = @ + 1]
    BY Zenon, <1>6 DEF PollApply
  <2>2. poll'.pc = "next"
    BY <2>1, PollIsRecord
  <2>3. poll.cur \in DOMAIN heap /\ notices \in [Objects -> Int]
    BY <2>1 DEF Known, TypeOK
  <2>4. ASSUME NEW o \in DOMAIN heap
        PROVE  Due(o)' <= Due(o)
    <3>1. o \in Objects /\ poll.cur \in Objects
      BY <2>3, HeapType
    <3>2. notices'[o] = notices[o] + Applying(o) /\ Applying(o)' = 0
      BY <2>1, <2>2, <2>3, <3>1 DEF Applying
    <3>3. Armed(o)' = Armed(o)
      BY <2>1, <2>2 DEF Armed
    <3> QED BY <3>1, <3>2, <3>3, Dues DEF Due
  <2>5. \A o \in Objects \ DOMAIN heap : notices'[o] = notices[o]
    BY <2>1, <2>3
  <2> QED BY <2>1, <2>4, <2>5, NoticedStays
<1> QED BY <1>1, <1>2, <1>3, <1>4, <1>5, <1>6 DEF Poll

LEMMA ResetNoticed ==
  ASSUME TypeOK, TypeOK', Known, Known', Noticed, ResetJob
  PROVE  Noticed'
<1> USE DEF kernel, clock, history
<1>1. CASE ResetOne
  <2>1. PICK p \in job.todo :
          /\ heap' = [heap EXCEPT ![p] = Reset(heap[p])]
          /\ notices' = [notices EXCEPT ![p] = IF poll.pc = "apply" /\ poll.cur = p
                                              THEN -1 ELSE 0]
          /\ UNCHANGED poll
    BY <1>1 DEF ResetOne
  <2>2. p \in DOMAIN heap /\ DOMAIN heap' = DOMAIN heap
    BY <2>1 DEF Known
  <2>3. p \in Objects /\ notices \in [Objects -> Int]
    BY <2>2, HeapType DEF TypeOK
  <2>4. ASSUME NEW o \in DOMAIN heap
        PROVE  Due(o)' <= Due(o) \/ Due(o)' <= 1
    <3>1. o \in Objects /\ Applying(o)' = Applying(o)
      BY <2>1, HeapType DEF Applying
    <3>2. CASE o = p
      <4>1. notices'[o] + Applying(o) = 0
        BY <2>1, <2>3, <3>2 DEF Applying
      <4>2. Due(o)' = Armed(o)'
        BY <2>3, <3>1, <4>1, Dues, DuesNext DEF Due
      <4> QED BY <3>1, <4>2, DuesNext
    <3>3. CASE o # p
      <4>1. heap'[o] = heap[o] /\ notices'[o] = notices[o]
        BY <2>1, <2>3, <3>1, <3>3
      <4>2. Armed(o)' = Armed(o)
        BY <2>1, <4>1 DEF Armed
      <4> QED BY <3>1, <4>1, <4>2, Dues DEF Due
    <3> QED BY <3>2, <3>3
  <2>5. \A o \in Objects \ DOMAIN heap : notices'[o] = notices[o]
    BY <2>1, <2>2, <2>3
  <2> QED BY <2>2, <2>4, <2>5, NoticedStays
<1>2. CASE ResetStart \/ ResetStamp \/ ResetEnd \/ \E o \in job.todo : ResetApply(o)
  <2>1. UNCHANGED <<heap, poll, notices>>
    BY Zenon, <1>2 DEF ResetStart, ResetStamp, ResetEnd, ResetApply
  <2>2. ASSUME NEW o \in DOMAIN heap
        PROVE  Applying(o)' + Armed(o)' <= Applying(o) + Armed(o)
    <3>1. Applying(o)' = Applying(o) /\ Armed(o)' = Armed(o)
      BY <2>1 DEF Applying, Armed
    <3> QED BY <3>1, HeapType, Dues
  <2> QED BY <2>1, <2>2, NoticedIdle
<1> QED BY <1>1, <1>2 DEF ResetJob

\* A new object owes nothing, and may come to owe one notice.
LEMMA AllocatedNoticed ==
  ASSUME TypeOK, TypeOK', Known, Known', Noticed,
         DiscoveryJob \/ \E c \in Containers : EventStart(c)
  PROVE  Noticed'
<1>1. Allocated
  BY Allocating
<1>2. UNCHANGED <<poll, notices>>
  BY DEF DiscoveryJob, EventStart, history
<1>3. ASSUME NEW o \in DOMAIN heap'
      PROVE  (Due(o) <= 1)'
  <2>1. CASE o \in DOMAIN heap
    <3>1. heap'[o] = heap[o]
      BY <1>1, <2>1 DEF Allocated
    <3>2. Due(o)' = Due(o)
      BY <1>2, <3>1 DEF Due, Applying, Armed
    <3> QED BY <1>2, <2>1, <3>2 DEF Noticed
  <2>2. CASE o \notin DOMAIN heap
    <3>1. o \in Objects
      <4>1. DOMAIN heap' = 1..Len(heap') /\ Len(heap') \in Nat
        BY <1>1 DEF Allocated
      <4>2. Len(heap') <= MaxObjects
        BY DEF TypeOK
      <4> QED BY <4>1, <4>2, ConstantsAssumption DEF Objects
    <3>2. notices'[o] = 0
      BY <1>2, <2>2, <3>1 DEF Noticed
    <3>3. Applying(o)' = 0
      BY <1>2, <2>2 DEF Applying, Known
    <3> QED BY <3>1, <3>2, <3>3, DuesNext DEF Due
  <2> QED BY <2>1, <2>2
<1> QED BY <1>1, <1>2, <1>3 DEF Noticed, Allocated

LEMMA NoticedKept ==
  ASSUME TypeOK, TypeOK', Known, Known', Noticed, [Next]_vars
  PROVE  Noticed'
<1> USE DEF kernel, clock, history
<1>1. CASE Poll
  BY <1>1, PollNoticed
<1>2. CASE ResetJob
  BY <1>2, ResetNoticed
<1>3. CASE DiscoveryJob \/ \E c \in Containers : EventStart(c)
  BY <1>3, AllocatedNoticed
<1>4. ASSUME NEW c \in Containers, EventDie(c)
      PROVE  Noticed'
  <2>1. UNCHANGED <<poll, notices>>
    BY <1>4 DEF EventDie
  <2>2. \/ heap' = heap
        \/ map[c] # NoObject /\ heap' = [heap EXCEPT ![map[c]].state = "stopped"]
    BY <1>4 DEF EventDie
  <2>3. DOMAIN heap' = DOMAIN heap
    BY <2>2
  <2>4. \A o \in DOMAIN heap : heap'[o].state = heap[o].state \/ heap'[o].state = "stopped"
    BY <2>2, HeapType DEF Object
  <2>5. ASSUME NEW o \in DOMAIN heap
        PROVE  Due(o)' <= Due(o)
    <3>1. Applying(o)' = Applying(o) /\ Armed(o)' <= Armed(o)
      BY <2>1, <2>4 DEF Applying, Armed
    <3> QED BY <2>1, <3>1, HeapType, Dues, DuesNext DEF Due
  <2> QED BY <2>1, <2>3, <2>5, NoticedStays
<1>5. CASE \/ Reapply \/ World \/ UNCHANGED vars
           \/ \E c \in Containers : EventDestroy(c)
  <2>1. UNCHANGED <<heap, poll, notices>>
    <3>1. CASE Reapply
      BY Zenon, <3>1 DEF Reapply, ReapplyStart, ReapplyOne, ReapplyEnd
    <3>2. CASE World
      BY <3>2 DEF World, DockerStart, DockerStop, DockerPause, Traffic, Midnight
    <3>3. CASE UNCHANGED vars \/ \E c \in Containers : EventDestroy(c)
      BY <3>3 DEF vars, EventDestroy
    <3> QED BY <1>5, <3>1, <3>2, <3>3
  <2>2. ASSUME NEW o \in DOMAIN heap
        PROVE  Applying(o)' + Armed(o)' <= Applying(o) + Armed(o)
    BY <2>1 DEF Applying, Armed
  <2> QED BY <2>1, <2>2, NoticedIdle
<1> QED BY <1>1, <1>2, <1>3, <1>4, <1>5 DEF Next, HandleEvent

-----------------------------------------------------------------------------
(* The limits.                                                             *)

\* The object its container had at the start, and has still.
Kept(o) == FirstObject(o) /\ Current(o)

\* Such an object is the only one of its container, and knows the first veth.
Original ==
  /\ Cardinality(Initial) <= Len(heap)
  /\ \A o \in DOMAIN heap :
       Kept(o) => /\ heap[o].veth = 1
                  /\ \A p \in DOMAIN heap : heap[p].id = heap[o].id => p = o

\* What is being reset gets its limit afterwards.
Relisted == job.pc = "reset" => job.todo \subseteq job.list

\* The main or the scheduler goroutine is going to call ApplyLimit on it.
Pursued(o) ==
  \/ poll.pc = "apply" /\ poll.cur = o
  \/ job.pc = "reset" /\ o \in job.list
  \/ job.pc = "apply" /\ o \in job.todo

Right(o) ==
  \/ shaping[heap[o].id] = Speed(o)
  \/ heap[o].id \in failed

Shaped ==
  \A o \in DOMAIN heap :
    Kept(o) /\ Enabled(o) /\ Attached(o) /\ heap[o].state # "stopped"
      => Pursued(o) \/ Right(o)

\* A container whose object is replaced no longer has the one of the start.
LEMMA Replacing ==
  ASSUME TypeOK, Original, NEW o \in DOMAIN heap', Kept(o)',
         DiscoveryJob \/ \E c \in Containers : EventStart(c)
  PROVE  /\ o \in DOMAIN heap /\ heap'[o] = heap[o] /\ Kept(o)
         /\ \A p \in DOMAIN heap' : heap'[p].id = heap'[o].id => p = o
<1>1. Allocated
  BY Allocating
<1>2. Cardinality(Initial) \in Nat /\ Len(heap) \in Nat /\ DOMAIN heap = 1..Len(heap)
  BY HeapType, ConstantsAssumption, FS_Subset, FS_CardinalityType
<1>3. o \in 1..Len(heap)
  BY <1>1, <1>2 DEF Allocated, Kept, FirstObject, Original
<1>4. o \in DOMAIN heap /\ heap'[o] = heap[o] /\ map'[heap[o].id] = o
  BY <1>1, <1>2, <1>3 DEF Allocated, Kept, Current
<1>5. heap[o].id \in Containers /\ map \in [Containers -> 0..Len(heap)]
  BY <1>4, HeapType DEF Object, TypeOK
<1>6. CASE DiscoveryJob
  <2> DEFINE S == {c \in Containers : docker[c] # "gone"}
  <2>1. map' = [c \in Containers |-> IF c \in S THEN Len(heap) + Numbering(S)[c]
                                     ELSE NoObject]
    BY <1>6 DEF DiscoveryJob
  <2>2. S \subseteq Containers
    OBVIOUS
  <2> HIDE DEF S
  <2>3. \A c \in S : Numbering(S)[c] \in 1..Cardinality(S)
    BY <2>2, ConstantsAssumption, FS_Subset, Numbered
  <2>4. Cardinality(S) \in Nat
    BY <2>2, FreshType
  <2> QED BY <1>2, <1>3, <1>4, <1>5, <2>1, <2>3, <2>4 DEF NoObject
<1>7. ASSUME NEW c \in Containers, EventStart(c)
      PROVE  /\ Kept(o)
             /\ \A p \in DOMAIN heap' : heap'[p].id = heap'[o].id => p = o
  <2>1. /\ map' = [map EXCEPT ![c] = Len(heap) + 1]
        /\ heap' = Append(heap, Inspected(c))
    BY <1>7 DEF EventStart
  <2>2. heap[o].id # c /\ map[heap[o].id] = o
    BY <1>2, <1>3, <1>4, <1>5, <2>1
  <2>3. Kept(o)
    BY <2>2 DEF Kept, Current, FirstObject
  <2>4. ASSUME NEW p \in DOMAIN heap', heap'[p].id = heap'[o].id
        PROVE  p = o
    <3>1. CASE p \in DOMAIN heap
      BY <1>1, <1>4, <2>3, <2>4, <3>1 DEF Allocated, Original
    <3>2. CASE p \notin DOMAIN heap
      <4>1. heap \in Seq(Object) /\ Inspected(c) \in Object /\ Inspected(c).id = c
        BY InspectedType DEF TypeOK
      <4>2. Len(heap') = Len(heap) + 1 /\ heap'[Len(heap) + 1] = Inspected(c)
        BY <2>1, <4>1, AppendProperties
      <4>3. p = Len(heap) + 1
        BY <1>1, <1>2, <3>2, <4>2 DEF Allocated
      <4> QED BY <1>4, <2>2, <2>4, <4>1, <4>2, <4>3
    <3> QED BY <3>1, <3>2
  <2> QED BY <2>3, <2>4
<1> QED BY <1>4, <1>6, <1>7

LEMMA MapStays ==
  ASSUME TypeOK, Touching \/ Resting
  PROVE  \A c \in Containers : map'[c] = map[c] \/ map'[c] = NoObject
<1>1. CASE Touching
  BY <1>1 DEF Touching, PollStore, PollThrottle, ResetOne, EventDie
<1>2. CASE Resting
  <2>1. CASE PollStart \/ PollSkip \/ PollCollect \/ PollCheck \/ PollApply \/ PollEnd
    BY Zenon, <2>1 DEF PollStart, PollSkip, PollCollect, PollCheck, PollApply, PollEnd
  <2>2. CASE \/ ResetStart \/ ResetStamp \/ ResetEnd
             \/ \E o \in job.todo : ResetApply(o)
    BY Zenon, <2>2 DEF ResetStart, ResetStamp, ResetEnd, ResetApply
  <2>3. CASE Reapply
    BY Zenon, <2>3 DEF Reapply, ReapplyStart, ReapplyOne, ReapplyEnd
  <2>4. CASE World
    BY <2>4 DEF World, DockerStart, DockerStop, DockerPause, Traffic, Midnight
  <2>5. CASE UNCHANGED vars
    BY <2>5 DEF vars
  <2>6. CASE \E c \in Containers : EventDestroy(c)
    BY <2>6 DEF EventDestroy, TypeOK
  <2> QED BY <1>2, <2>1, <2>2, <2>3, <2>4, <2>5, <2>6 DEF Resting
<1> QED BY <1>1, <1>2

\* Where an object of the start is kept, it was kept before the step.
LEMMA KeptBefore ==
  ASSUME TypeOK, Original, [Next]_vars, Touching => InPlace,
         NEW o \in DOMAIN heap', Kept(o)'
  PROVE  /\ o \in DOMAIN heap /\ Kept(o)
         /\ heap'[o].id = heap[o].id
         /\ heap'[o].configured = heap[o].configured
         /\ heap'[o].veth = heap[o].veth
         /\ \A p \in DOMAIN heap' : heap'[p].id = heap'[o].id => p = o
<1>1. CASE DiscoveryJob \/ \E c \in Containers : EventStart(c)
  BY <1>1, Replacing
<1>2. CASE Touching \/ Resting
  <2>1. /\ DOMAIN heap' = DOMAIN heap
        /\ \A p \in DOMAIN heap : /\ heap'[p].id = heap[p].id
                                  /\ heap'[p].configured = heap[p].configured
                                  /\ heap'[p].veth = heap[p].veth
    BY <1>2, RestingHeap DEF InPlace
  <2>2. DOMAIN heap = 1..Len(heap) /\ heap[o].id \in Containers
    BY <2>1, HeapType DEF Object
  <2>3. map[heap[o].id] = o
    BY <1>2, <2>1, <2>2, MapStays DEF Kept, Current, NoObject
  <2>4. Kept(o)
    BY <2>3 DEF Kept, Current, FirstObject
  <2> QED BY <2>1, <2>4 DEF Original
<1> QED BY <1>1, <1>2, StepKinds

LEMMA OriginalKept ==
  ASSUME TypeOK, Original, [Next]_vars, Touching => InPlace
  PROVE  Original'
<1>1. Len(heap) <= Len(heap') /\ Len(heap) \in Nat /\ Len(heap') \in Nat
  <2>1. CASE DiscoveryJob \/ \E c \in Containers : EventStart(c)
    BY <2>1, Allocating, HeapType DEF Allocated
  <2>2. CASE Touching \/ Resting
    BY <2>2, RestingHeap, HeapType DEF InPlace
  <2> QED BY <2>1, <2>2, StepKinds
<1>2. Cardinality(Initial) \in Nat
  BY ConstantsAssumption, FS_Subset, FS_CardinalityType
<1>3. (Cardinality(Initial) <= Len(heap))'
  BY <1>1, <1>2 DEF Original
<1>4. ASSUME NEW o \in DOMAIN heap', Kept(o)'
      PROVE  /\ heap'[o].veth = 1
             /\ \A p \in DOMAIN heap' : heap'[p].id = heap'[o].id => p = o
  BY <1>4, KeptBefore DEF Original
<1> QED BY <1>3, <1>4 DEF Original

LEMMA RelistedKept ==
  ASSUME TypeOK, Relisted, [Next]_vars
  PROVE  Relisted'
<1>1. CASE ResetStart
  BY <1>1 DEF ResetStart, Relisted
<1>2. CASE ResetOne \/ \E o \in job.todo : ResetApply(o)
  <2>1. PICK o \in job.todo : job' = [job EXCEPT !.todo = @ \ {o}]
    BY Zenon, <1>2 DEF ResetOne, ResetApply
  <2>2. job'.pc = job.pc /\ job'.todo \subseteq job.todo /\ job'.list = job.list
    BY <2>1, PollIsRecord
  <2> QED BY <2>2 DEF Relisted
<1>3. CASE ResetStamp
  BY <1>3, PollIsRecord DEF ResetStamp, Relisted
<1>4. CASE ResetEnd
  BY <1>4 DEF ResetEnd, Relisted
<1>5. CASE UNCHANGED job
  BY <1>5 DEF Relisted
<1>6. CASE Poll
  BY <1>5, <1>6 DEF Poll, PollStart, PollSkip, PollCollect, PollStore, PollCheck,
                    PollThrottle, PollApply, PollEnd
<1>7. CASE DiscoveryJob \/ Reapply
  BY Zenon, <1>5, <1>7 DEF DiscoveryJob, Reapply, ReapplyStart, ReapplyOne, ReapplyEnd
<1>8. CASE World \/ UNCHANGED vars \/ \E c \in Containers : HandleEvent(c)
  BY <1>5, <1>8 DEF World, DockerStart, DockerStop, DockerPause, Traffic, Midnight,
                    vars, HandleEvent, EventStart, EventDie, EventDestroy
<1> QED BY <1>1, <1>2, <1>3, <1>4, <1>6, <1>7, <1>8 DEF Next, ResetJob

\* None of the objects the reset is done with is exceeded.
Lifted ==
  job.pc = "reset" => \A o \in job.list \ job.todo : heap[o].state # "exceeded"

LEMMA LiftedKept ==
  ASSUME TypeOK, Known, Lifted, [Next]_vars, Touching => InPlace
  PROVE  Lifted'
<1>1. ASSUME UNCHANGED job,
             job.pc = "reset" => \A o \in DOMAIN heap :
                                   heap'[o].state \in {heap[o].state, "stopped"}
      PROVE  Lifted'
  BY <1>1 DEF Lifted, Known
<1>2. CASE Poll
  <2>1. UNCHANGED job
    BY Zenon, <1>2 DEF Poll, PollStart, PollSkip, PollCollect, PollStore, PollCheck,
                PollThrottle, PollApply, PollEnd
  <2>2. CASE PollThrottle
    BY <1>1, <2>1, <2>2 DEF PollThrottle
  <2>3. CASE PollStore
    <3>1. heap' = [heap EXCEPT ![poll.cur].today = poll.load + poll.delta]
      BY <2>3 DEF PollStore
    <3>2. \A o \in DOMAIN heap : heap'[o].state = heap[o].state
      BY <3>1, HeapType DEF Object
    <3> QED BY <1>1, <2>1, <3>2
  <2>4. CASE PollStart \/ PollSkip \/ PollCollect \/ PollCheck \/ PollApply \/ PollEnd
    BY Zenon, <1>1, <2>1, <2>4, RestingHeap DEF Resting
  <2> QED BY <1>2, <2>2, <2>3, <2>4 DEF Poll
<1>3. CASE ResetStart
  BY <1>3 DEF ResetStart, Lifted
<1>4. CASE ResetOne
  <2>1. PICK p \in job.todo :
          /\ job.pc = "reset"
          /\ heap' = [heap EXCEPT ![p] = Reset(heap[p])]
          /\ job' = [job EXCEPT !.todo = @ \ {p}]
    BY <1>4 DEF ResetOne
  <2>2. job'.todo = job.todo \ {p} /\ job'.list = job.list
    BY <2>1, PollIsRecord
  <2>3. heap'[p].state # "exceeded"
    BY <2>1, HeapType, ResetType DEF Known
  <2>4. \A o \in job.list \ job.todo : heap'[o].state # "exceeded"
    BY <2>1, <2>3 DEF Lifted, Known
  <2> QED BY <2>2, <2>3, <2>4 DEF Lifted
<1>5. CASE ResetStamp \/ ResetEnd \/ \E o \in job.todo : ResetApply(o)
  <2>1. job'.pc # "reset"
    <3>1. CASE ResetStamp
      BY <3>1, PollIsRecord DEF ResetStamp
    <3>2. CASE ResetEnd
      BY <3>2 DEF ResetEnd
    <3>3. CASE \E o \in job.todo : ResetApply(o)
      <4>1. PICK o \in job.todo : job' = [job EXCEPT !.todo = @ \ {o}] /\ job.pc = "apply"
        BY Zenon, <3>3 DEF ResetApply
      <4> QED BY <4>1, PollIsRecord
    <3> QED BY <1>5, <3>1, <3>2, <3>3
  <2> QED BY <2>1 DEF Lifted
<1>6. CASE DiscoveryJob \/ \E c \in Containers : EventStart(c)
  <2>1. UNCHANGED job
    BY Zenon, <1>6 DEF DiscoveryJob, EventStart
  <2> QED BY <1>1, <1>6, <2>1, Allocating DEF Allocated
<1>7. ASSUME NEW c \in Containers, EventDie(c)
      PROVE  Lifted'
  <2>1. /\ UNCHANGED job
        /\ heap' = heap \/ heap' = [heap EXCEPT ![map[c]].state = "stopped"]
    BY <1>7 DEF EventDie
  <2>2. \A o \in DOMAIN heap : heap'[o].state \in {heap[o].state, "stopped"}
    BY <2>1, HeapType DEF Object
  <2> QED BY <1>1, <2>1, <2>2
<1>8. CASE Reapply \/ World \/ UNCHANGED vars \/ \E c \in Containers : EventDestroy(c)
  <2>1. UNCHANGED <<heap, job>>
    <3>1. CASE Reapply
      BY Zenon, <3>1 DEF Reapply, ReapplyStart, ReapplyOne, ReapplyEnd
    <3>2. CASE World
      BY <3>2 DEF World, DockerStart, DockerStop, DockerPause, Traffic, Midnight
    <3>3. CASE UNCHANGED vars \/ \E c \in Containers : EventDestroy(c)
      BY <3>3 DEF vars, EventDestroy
    <3> QED BY <1>8, <3>1, <3>2, <3>3
  <2> QED BY <1>1, <2>1
<1> QED BY <1>2, <1>3, <1>4, <1>5, <1>6, <1>7, <1>8 DEF Next, ResetJob, HandleEvent

\* The first veth of a container does not come back.
LEMMA AttachedBefore ==
  ASSUME TypeOK, [Next]_vars, NEW o \in DOMAIN heap, heap[o].veth = 1,
         heap'[o].id = heap[o].id, heap'[o].veth = heap[o].veth, Attached(o)'
  PROVE  Attached(o)
<1>0. heap[o].id \in Containers
  BY HeapType DEF Object
<1> DEFINE c == heap[o].id
<1>1. veth'[c] = 1 /\ docker'[c] # "gone"
  BY DEF Attached
<1>2. CASE UNCHANGED <<docker, veth>>
  BY <1>2 DEF Attached
<1>3. ASSUME NEW d \in Containers, DockerStart(d)
      PROVE  Attached(o)
  <2>1. d # c
    <3>1. veth \in [Containers -> 1..MaxVeth] /\ MaxVeth \in Nat
      BY ConstantsAssumption DEF TypeOK
    <3>2. veth'[d] = veth[d] + 1
      BY <1>3, <3>1 DEF DockerStart
    <3> QED BY <1>1, <3>1, <3>2
  <2> QED BY <1>0, <1>1, <1>3, <2>1 DEF DockerStart, TypeOK, Attached
<1>4. ASSUME NEW d \in Containers, DockerStop(d) \/ DockerPause(d)
      PROVE  Attached(o)
  <2>1. veth' = veth /\ docker[c] # "gone"
    BY <1>0, <1>1, <1>4 DEF DockerStop, DockerPause, TypeOK
  <2> QED BY <1>1, <2>1 DEF Attached
<1>5. CASE World
  BY <1>2, <1>3, <1>4, <1>5 DEF World, Traffic, Midnight, kernel
<1>6. CASE Poll
  BY <1>2, <1>6 DEF Poll, PollStart, PollSkip, PollCollect, PollStore, PollCheck,
                    PollThrottle, PollApply, PollEnd, kernel
<1>7. CASE DiscoveryJob \/ ResetJob \/ Reapply
  <2>1. UNCHANGED kernel
    BY Zenon, <1>7 DEF DiscoveryJob, ResetJob, ResetStart, ResetOne, ResetStamp,
         ResetApply, ResetEnd, Reapply, ReapplyStart, ReapplyOne, ReapplyEnd
  <2> QED BY <1>2, <2>1 DEF kernel
<1>8. CASE UNCHANGED vars \/ \E d \in Containers : HandleEvent(d)
  BY <1>2, <1>8 DEF vars, kernel, HandleEvent, EventStart, EventDie, EventDestroy
<1> QED BY <1>5, <1>6, <1>7, <1>8 DEF Next

\* What an ApplyLimit means for its object, and for the other containers.
LEMMA Applied ==
  ASSUME TypeOK, UNCHANGED heap, NEW o \in DOMAIN heap, Attached(o),
         NEW ok \in BOOLEAN, ApplyLimit(o, ok)
  PROVE  Right(o)'
<1>1. heap[o].id \in Containers /\ shaping \in [Containers -> Speeds]
  BY HeapType DEF Object, TypeOK
<1>2. IF ok THEN shaping'[heap[o].id] = Speed(o) ELSE heap[o].id \in failed'
  BY <1>1 DEF ApplyLimit
<1>3. Speed(o)' = Speed(o)
  BY DEF Speed
<1> QED BY <1>2, <1>3 DEF Right

LEMMA AppliedElsewhere ==
  ASSUME TypeOK, NEW p \in DOMAIN heap, NEW ok \in BOOLEAN, ApplyLimit(p, ok),
         NEW c \in Containers, heap[p].id # c
  PROVE  shaping'[c] = shaping[c] /\ (c \in failed => c \in failed')
<1>1. heap[p].id \in Containers /\ shaping \in [Containers -> Speeds]
  BY HeapType DEF Object, TypeOK
<1> QED BY <1>1 DEF ApplyLimit

\* A step that changes neither the limit nor the state, and abandons no
\* ApplyLimit, leaves a right limit right.
LEMMA RightStays ==
  ASSUME NEW o, heap'[o].id = heap[o].id, heap'[o].configured = heap[o].configured,
         heap'[o].state = heap[o].state, shaping'[heap[o].id] = shaping[heap[o].id],
         heap[o].id \in failed => heap[o].id \in failed',
         Pursued(o) => Pursued(o)', Pursued(o) \/ Right(o)
  PROVE  Pursued(o)' \/ Right(o)'
<1>1. Speed(o)' = Speed(o)
  BY DEF Speed
<1> QED BY <1>1 DEF Right

LEMMA ShapedKept ==
  ASSUME TypeOK, Known, Original, Relisted, Shaped, [Next]_vars, Touching => InPlace
  PROVE  Shaped'
<1> SUFFICES ASSUME NEW o \in DOMAIN heap', Kept(o)', Enabled(o)', Attached(o)',
                    heap'[o].state # "stopped"
             PROVE  Pursued(o)' \/ Right(o)'
  BY DEF Shaped
<1>1. /\ o \in DOMAIN heap /\ Kept(o)
      /\ heap'[o].id = heap[o].id
      /\ heap'[o].configured = heap[o].configured
      /\ heap'[o].veth = heap[o].veth
  BY KeptBefore
<1>2. /\ heap[o].veth = 1
      /\ \A p \in DOMAIN heap : heap[p].id = heap[o].id => p = o
  BY <1>1 DEF Original
<1>3. Attached(o) /\ Enabled(o)
  BY <1>1, <1>2, AttachedBefore DEF Enabled
<1>4. heap[o] \in Object /\ heap[o].id \in Containers
  BY <1>1, HeapType DEF Object
<1>5. ASSUME heap'[o].state = heap[o].state,
             shaping'[heap[o].id] = shaping[heap[o].id],
             heap[o].id \in failed => heap[o].id \in failed',
             Pursued(o) => Pursued(o)'
      PROVE  Pursued(o)' \/ Right(o)'
  <2>1. Pursued(o) \/ Right(o)
    BY <1>1, <1>3, <1>5 DEF Shaped
  <2> QED BY <1>1, <1>5, <2>1, RightStays
<1>6. ASSUME UNCHANGED heap, NEW p \in DOMAIN heap, NEW ok \in BOOLEAN, ApplyLimit(p, ok),
             p # o => (Pursued(o) => Pursued(o)')
      PROVE  Pursued(o)' \/ Right(o)'
  <2>1. CASE p = o
    BY <1>1, <1>3, <1>6, <2>1, Applied
  <2>2. CASE p # o
    <3>1. heap'[o].state = heap[o].state
      BY <1>6
    <3>2. heap[p].id # heap[o].id
      BY <1>2, <1>6, <2>2
    <3>3. /\ shaping'[heap[o].id] = shaping[heap[o].id]
          /\ heap[o].id \in failed => heap[o].id \in failed'
      BY <1>4, <1>6, <3>2, AppliedElsewhere
    <3>4. Pursued(o) => Pursued(o)'
      BY <1>6, <2>2
    <3> QED BY <1>5, <3>1, <3>3, <3>4
  <2> QED BY <2>1, <2>2
<1>7. CASE Poll
  <2>1. CASE PollStart \/ PollSkip \/ PollCollect \/ PollCheck \/ PollEnd
    <3>1. UNCHANGED <<heap, shaping, failed, job>> /\ poll.pc # "apply"
      BY Zenon, <2>1 DEF PollStart, PollSkip, PollCollect, PollCheck, PollEnd
    <3> QED BY <1>5, <3>1 DEF Pursued
  <2>2. CASE PollStore
    <3>1. /\ UNCHANGED <<shaping, failed, job>> /\ poll.pc # "apply"
          /\ heap' = [heap EXCEPT ![poll.cur].today = poll.load + poll.delta]
      BY <2>2 DEF PollStore
    <3>2. heap'[o].state = heap[o].state
      BY <1>1, <1>4, <3>1 DEF Object
    <3> QED BY <1>5, <3>1, <3>2 DEF Pursued
  <2>3. CASE PollThrottle
    <3>1. /\ UNCHANGED <<shaping, failed, job>> /\ poll.pc = "throttle"
          /\ heap' = [heap EXCEPT ![poll.cur].state = "exceeded"]
          /\ poll'.pc = "apply" /\ poll'.cur = poll.cur
      BY <2>3, PollIsRecord DEF PollThrottle
    <3>2. CASE o = poll.cur
      BY <3>1, <3>2 DEF Pursued
    <3>3. CASE o # poll.cur
      <4>1. heap'[o].state = heap[o].state
        BY <1>1, <3>1, <3>3
      <4> QED BY <1>5, <3>1, <4>1 DEF Pursued
    <3> QED BY <3>2, <3>3
  <2>4. CASE PollApply
    <3>1. PICK ok \in BOOLEAN : ApplyLimit(poll.cur, ok)
      BY <2>4 DEF PollApply
    <3>2. UNCHANGED <<heap, job>> /\ poll.cur \in DOMAIN heap
      BY <2>4 DEF PollApply, Known
    <3>3. poll.cur # o => (Pursued(o) => Pursued(o)')
      BY <3>2 DEF Pursued
    <3> QED BY <1>6, <3>1, <3>2, <3>3
  <2> QED BY <1>7, <2>1, <2>2, <2>3, <2>4 DEF Poll
<1>8. CASE ResetJob
  <2>1. CASE ResetStart \/ ResetStamp \/ ResetEnd
    <3>1. UNCHANGED <<heap, shaping, failed, poll>>
      BY <2>1 DEF ResetStart, ResetStamp, ResetEnd
    <3>2. Pursued(o) => Pursued(o)'
      <4>1. CASE ResetStart
        BY <4>1 DEF ResetStart, Pursued
      <4>2. CASE ResetStamp
        <5>1. job'.pc = "apply" /\ job'.todo = job.list /\ job.pc = "reset"
          BY <4>2, PollIsRecord DEF ResetStamp
        <5> QED BY <3>1, <5>1 DEF Pursued
      <4>3. CASE ResetEnd
        BY <4>3 DEF ResetEnd, Pursued
      <4> QED BY <2>1, <4>1, <4>2, <4>3
    <3> QED BY <1>5, <3>1, <3>2
  <2>2. CASE ResetOne
    <3>1. PICK p \in job.todo :
            /\ job.pc = "reset"
            /\ heap' = [heap EXCEPT ![p] = Reset(heap[p])]
            /\ job' = [job EXCEPT !.todo = @ \ {p}]
            /\ UNCHANGED <<shaping, failed, poll>>
      BY <2>2 DEF ResetOne
    <3>2. job'.pc = "reset" /\ job'.list = job.list /\ p \in job.list
      BY <3>1, PollIsRecord DEF Relisted
    <3>3. CASE o = p
      BY <3>2, <3>3 DEF Pursued
    <3>4. CASE o # p
      <4>1. heap'[o].state = heap[o].state
        BY <1>1, <3>1, <3>4
      <4> QED BY <1>5, <3>1, <3>2, <4>1 DEF Pursued
    <3> QED BY <3>3, <3>4
  <2>3. ASSUME NEW p \in job.todo, ResetApply(p)
        PROVE  Pursued(o)' \/ Right(o)'
    <3>1. PICK ok \in BOOLEAN : ApplyLimit(p, ok)
      BY <2>3 DEF ResetApply
    <3>2. UNCHANGED <<heap, poll>> /\ p \in DOMAIN heap
      BY <2>3 DEF ResetApply, Known
    <3>3. /\ job.pc = "apply" /\ job'.pc = "apply"
          /\ job'.todo = job.todo \ {p} /\ job'.list = job.list
      BY <2>3, PollIsRecord DEF ResetApply
    <3>4. p # o => (Pursued(o) => Pursued(o)')
      BY <3>2, <3>3 DEF Pursued
    <3> QED BY <1>6, <3>1, <3>2, <3>4
  <2> QED BY <1>8, <2>1, <2>2, <2>3 DEF ResetJob
<1>9. CASE Reapply
  <2>1. UNCHANGED <<heap, poll, job>>
    BY Zenon, <1>9 DEF Reapply, ReapplyStart, ReapplyOne, ReapplyEnd
  <2>2. Pursued(o) => Pursued(o)'
    BY <2>1 DEF Pursued
  <2>3. CASE UNCHANGED <<shaping, failed>>
    BY <1>5, <2>1, <2>2, <2>3
  <2>4. CASE ReapplyOne
    <3>1. PICK p \in socket.todo, ok \in BOOLEAN : 
            ApplyLimit(p, ok) \/ UNCHANGED <<shaping, failed>>
      BY Zenon, <2>4 DEF ReapplyOne
    <3>2. p \in DOMAIN heap
      BY DEF Known
    <3> QED BY <1>6, <2>1, <2>2, <2>3, <3>1, <3>2
  <2> QED BY <1>9, <2>3, <2>4 DEF Reapply, ReapplyStart, ReapplyEnd
<1>10. CASE DiscoveryJob \/ \E c \in Containers : EventStart(c)
  <2>1. heap'[o].state = heap[o].state
    BY <1>1, <1>10, Replacing
  <2>2. UNCHANGED <<shaping, failed, poll, job>>
    BY <1>10 DEF DiscoveryJob, EventStart
  <2> QED BY <1>5, <2>1, <2>2 DEF Pursued
<1>11. ASSUME NEW c \in Containers, EventDie(c) \/ EventDestroy(c)
       PROVE  Pursued(o)' \/ Right(o)'
  <2>1. UNCHANGED <<shaping, failed, poll, job>>
    BY <1>11 DEF EventDie, EventDestroy
  <2>2. \/ heap' = heap
        \/ heap' = [heap EXCEPT ![map[c]].state = "stopped"]
    BY <1>11 DEF EventDie, EventDestroy
  <2>3. heap'[o].state = heap[o].state
    BY <1>1, <1>4, <2>2 DEF Object
  <2> QED BY <1>5, <2>1, <2>3 DEF Pursued
<1>12. CASE World
  <2>1. UNCHANGED <<heap, poll, job>>
    BY <1>12 DEF World, DockerStart, DockerStop, DockerPause, Traffic, Midnight
  <2>2. /\ shaping'[heap[o].id] = shaping[heap[o].id]
        /\ heap[o].id \in failed => heap[o].id \in failed'
    <3>1. ASSUME NEW c \in Containers, DockerStop(c)
          PROVE  /\ shaping'[heap[o].id] = shaping[heap[o].id]
                 /\ heap[o].id \in failed => heap[o].id \in failed'
      <4>1. docker'[c] = "gone"
        BY <3>1 DEF DockerStop, TypeOK
      <4>2. c # heap[o].id
        BY <1>1, <4>1 DEF Attached
      <4> QED BY <1>4, <3>1, <4>2 DEF DockerStop, TypeOK
    <3> QED BY <1>12, <3>1 DEF World, DockerStart, DockerPause, Traffic, Midnight
  <2> QED BY <1>5, <2>1, <2>2 DEF Pursued
<1>13. CASE UNCHANGED vars
  <2>1. UNCHANGED <<heap, shaping, failed, poll, job>>
    BY <1>13 DEF vars
  <2> QED BY <1>5, <2>1 DEF Pursued
<1> QED BY <1>7, <1>8, <1>9, <1>10, <1>11, <1>12, <1>13 DEF Next, HandleEvent

-----------------------------------------------------------------------------
(* The theorems.                                                           *)

IInv == /\ TypeOK /\ Known
        /\ Booked /\ Lifted /\ Noticed
        /\ Original /\ Relisted /\ Shaped

LEMMA InitInv == Init => IInv
<1> SUFFICES ASSUME Init PROVE IInv
  OBVIOUS
<1> DEFINE n == Cardinality(Initial)
           first(o) == CHOOSE c \in Initial : Numbering(Initial)[c] = o
           obj(o) == [id |-> first(o), state |-> "running", today |-> 0,
                      configured |-> TRUE, veth |-> 1]
<1>1. /\ IsFiniteSet(Initial) /\ n \in Nat /\ n <= MaxObjects
      /\ Numbering(Initial) \in [Initial -> 1..n]
      /\ \A o \in 1..n : first(o) \in Initial
  BY ConstantsAssumption, FS_Subset, Numbered
<1>2. /\ MaxTraffic \in Nat /\ MaxObjects \in Nat /\ MaxVeth \in Nat \ {0}
      /\ MaxDay \in Nat \ {0} /\ Initial \subseteq Containers
  BY ConstantsAssumption
<1>3. heap = [o \in 1..n |-> obj(o)]
  BY DEF Init
<1> HIDE DEF n, first
<1>4. \A o \in 1..n : obj(o) \in Object /\ obj(o).id \in Containers /\ obj(o).today = 0
  BY <1>1, <1>2 DEF Object
<1>5. \A o \in 1..n : heap[o] = obj(o)
  BY <1>3
<1> HIDE DEF obj
<1>6. heap \in [1..n -> Object]
  BY <1>3, <1>4
<1>7. heap \in Seq(Object) /\ Len(heap) = n /\ DOMAIN heap = 1..n
  BY <1>1, <1>6, SeqDef
<1>8. TypeOK
  <2>1. map \in [Containers -> 0..Len(heap)]
    BY <1>1, <1>7 DEF Init, NoObject, n
  <2>2. /\ docker \in [Containers -> {"running", "paused", "gone"}]
        /\ event \in [Containers -> {"none", "start", "die", "destroy"}]
        /\ veth \in [Containers -> 1..MaxVeth]
        /\ counter \in [Containers -> 0..MaxTraffic]
        /\ prev \in [Containers -> 0..MaxTraffic + 1]
        /\ shaping \in [Containers -> Speeds]
        /\ failed \in SUBSET Containers
    BY <1>2 DEF Init, Unread, Speeds
  <2>3. poll \in PollType /\ job \in JobType /\ socket \in SocketType
    BY <1>2 DEF Init, PollType, JobType, SocketType, NoObject
  <2>4. /\ day \in 1..MaxDay /\ lastReset \in 0..MaxDay
        /\ total \in [Containers -> 0..MaxTraffic]
        /\ recorded \in [Containers -> 0..MaxTraffic]
        /\ notices \in [Objects -> Int]
    BY <1>2 DEF Init
  <2> QED BY <1>1, <1>7, <2>1, <2>2, <2>3, <2>4 DEF TypeOK, PollType, JobType, SocketType
<1>9. Known
  BY DEF Init, Known
<1>10. Booked
  <2>1. poll.pc = "idle" /\ \A c \in Containers : /\ counter[c] = 0 /\ total[c] = 0
                                                 /\ recorded[c] = 0 /\ prev[c] = Unread
    BY DEF Init
  <2>2. \A c \in Containers : Delta(c) = 0 /\ Storing(c) = 0
    BY <2>1 DEF Delta, FirstReading, Storing
  <2>3. \A o \in DOMAIN heap : heap[o].id \in Containers /\ heap[o].today = 0
    BY <1>4, <1>5, <1>7
  <2> QED BY <2>1, <2>2, <2>3 DEF Booked
<1>11. Lifted
  BY DEF Init, Lifted
<1>12. Noticed
  <2>1. \A o \in Objects : notices[o] = 0 /\ Applying(o) = 0
    BY DEF Init, Applying
  <2>3. \A o \in DOMAIN heap : o \in Objects
    BY <1>8, HeapType
  <2> QED BY <1>8, <2>1, <2>3, Dues DEF Noticed, Due
<1>13. \A o \in DOMAIN heap :
         /\ heap[o].id \in Initial /\ heap[o].veth = 1 /\ heap[o].configured = TRUE
         /\ heap[o].state = "running"
         /\ Numbering(Initial)[heap[o].id] = o
  <2>1. \A o \in 1..n : Numbering(Initial)[first(o)] = o
    BY <1>1, Numbered DEF first, n
  <2>2. \A o \in 1..n : /\ obj(o).id = first(o) /\ obj(o).veth = 1
                         /\ obj(o).configured = TRUE /\ obj(o).state = "running"
    BY DEF obj
  <2> QED BY <1>1, <1>5, <1>7, <2>1, <2>2
<1>14. Original
  BY <1>7, <1>13 DEF Original, n
<1>15. Relisted
  BY DEF Init, Relisted
<1>16. Shaped
  <2> SUFFICES ASSUME NEW o \in DOMAIN heap, Enabled(o) PROVE Right(o)
    BY DEF Shaped
  <2>1. heap[o].id \in Initial \ Disabled
    BY <1>13 DEF Enabled
  <2>2. shaping[heap[o].id] = "full"
    BY <1>2, <2>1 DEF Init
  <2>3. Speed(o) = "full"
    BY <1>13 DEF Speed
  <2> QED BY <2>2, <2>3 DEF Right
<1> QED BY <1>8, <1>9, <1>10, <1>11, <1>12, <1>14, <1>15, <1>16 DEF IInv

LEMMA Always == Spec => []IInv
<1>1. IInv /\ [Next]_vars => IInv'
  <2> SUFFICES ASSUME TypeOK, Known, Booked, Lifted, Noticed,
                      Original, Relisted, Shaped, [Next]_vars
               PROVE  IInv'
    BY DEF IInv
  <2>1. TypeOK'
    BY TypeKept
  <2>2. Touching => InPlace
    BY TouchingInPlace, StoredBounded
  <2>3. Known' /\ Booked'
    BY <2>2, KnownKept, BookedKept
  <2>4. Noticed'
    BY <2>1, <2>3, NoticedKept
  <2>5. Original' /\ Relisted' /\ Lifted' /\ Shaped'
    BY <2>2, OriginalKept, RelistedKept, LiftedKept, ShapedKept
  <2> QED BY <2>1, <2>3, <2>4, <2>5 DEF IInv
<1> QED BY <1>1, InitInv, PTL DEF Spec

\* The shared objects, the goroutines and the counters keep their types, and
\* usage never exceeds the bound on traffic, for any containers and bounds.
THEOREM TypeCorrect == Spec => []TypeOK
<1>1. IInv => TypeOK
  BY DEF IInv
<1> QED BY <1>1, Always, PTL

\* No object ever shows more usage than its container had traffic, however
\* many containers, replaced objects, new veths and resets there are.
THEOREM UsageReal == Spec => []UsageIsReal
<1>1. IInv => UsageIsReal
  <2> SUFFICES ASSUME TypeOK, Booked, NEW o \in DOMAIN heap
               PROVE  heap[o].today <= total[heap[o].id]
    BY DEF IInv, UsageIsReal
  <2>1. PICK c \in Containers : c = heap[o].id
    BY Numbers
  <2>2. heap[o].today + Delta(c) <= total[c]
    BY <2>1 DEF Booked
  <2> QED BY <2>1, <2>2, Numbers
<1> QED BY <1>1, Always, PTL

\* An object has at most one notice from one reset to the next, besides the
\* one that may be under way at the reset, however the steps of poll, of the
\* resets and of the watcher interleave.
THEOREM OneNotice == Spec => []OneNoticePerReset
<1>1. IInv => OneNoticePerReset
  <2> SUFFICES ASSUME TypeOK, Noticed, NEW o \in DOMAIN heap
               PROVE  notices[o] <= 1
    BY DEF IInv, OneNoticePerReset
  <2>1. Due(o) <= 1
    BY DEF Noticed
  <2> QED BY <2>1, HeapType, Dues DEF Due
<1> QED BY <1>1, Always, PTL

\* ResetDaily leaves no object behind it exceeded, whatever poll was about to
\* do when it began, for any number of containers and objects.
THEOREM ResetLifts == Spec => []ResetLiftsThrottles
<1>1. IInv => ResetLiftsThrottles
  BY DEF IInv, Lifted, ResetLiftsThrottles
<1> QED BY <1>1, Always, PTL

\* While a container keeps the object it had at the start, its limit is the
\* one its state calls for whenever poll, the reset job and reapply are not
\* at work on it, in whatever order their steps came, unless the last
\* ApplyLimit on it failed.
THEOREM ShapingFollows == Spec => []ShapingFollowsState
<1>1. IInv => ShapingFollowsState
  <2> SUFFICES ASSUME Shaped, Quiet, NEW o \in DOMAIN heap,
                      Current(o), FirstObject(o), Enabled(o), Attached(o),
                      heap[o].state # "stopped"
               PROVE  Right(o)
    BY DEF IInv, ShapingFollowsState, Right
  <2>1. ~Pursued(o)
    BY DEF Quiet, Pursued
  <2> QED BY <2>1 DEF Shaped, Kept
<1> QED BY <1>1, Always, PTL
=============================================================================
