---------------------------- MODULE WebhookProofs ----------------------------
(***************************************************************************)
(* The safety properties of the webhook queue, for any number of workers,  *)
(* any capacity and any number of tries.                                   *)
(***************************************************************************)
EXTENDS Webhook, SequenceTheorems, FiniteSetTheorems, TLAPS

-----------------------------------------------------------------------------
(* The queue as a sequence of tasks.                                       *)

LEMMA QueueLength ==
  ASSUME NEW q \in Seq(Tasks)
  PROVE  /\ Len(q) \in Nat
         /\ DOMAIN q = 1..Len(q)
         /\ \A k \in 1..Len(q) : q[k] \in Tasks
BY LenProperties, ElementOfSeq

\* Taking the head moves every other task up by one place.
LEMMA QueueTail ==
  ASSUME NEW q \in Seq(Tasks), q # <<>>
  PROVE  /\ Tail(q) \in Seq(Tasks)
         /\ Head(q) \in Tasks
         /\ Head(q) = q[1]
         /\ Len(q) \in Nat \ {0}
         /\ Len(Tail(q)) = Len(q) - 1
         /\ DOMAIN q = 1..Len(q)
         /\ DOMAIN Tail(q) = 1..(Len(q) - 1)
         /\ \A k \in 1..(Len(q) - 1) : Tail(q)[k] = q[k + 1]
<1>1. /\ Head(q) \in Tasks
      /\ Tail(q) \in Seq(Tasks)
      /\ Len(Tail(q)) = Len(q) - 1
      /\ \A k \in 1..Len(Tail(q)) : Tail(q)[k] = q[k + 1]
  BY HeadTailProperties
<1>2. Len(q) \in Nat \ {0}
  BY EmptySeq
<1>3. DOMAIN q = 1..Len(q) /\ DOMAIN Tail(q) = 1..Len(Tail(q))
  BY <1>1, LenProperties
<1>4. Head(q) = q[1]
  OBVIOUS
<1> QED BY <1>1, <1>2, <1>3, <1>4

LEMMA QueueAppend ==
  ASSUME NEW q \in Seq(Tasks), NEW t \in Tasks
  PROVE  /\ Append(q, t) \in Seq(Tasks)
         /\ Len(q) \in Nat
         /\ Len(Append(q, t)) = Len(q) + 1
         /\ DOMAIN q = 1..Len(q)
         /\ DOMAIN Append(q, t) = 1..(Len(q) + 1)
         /\ \A k \in 1..Len(q) : Append(q, t)[k] = q[k]
         /\ Append(q, t)[Len(q) + 1] = t
BY AppendProperties, LenProperties

-----------------------------------------------------------------------------
(* Type correctness.                                                       *)

LEMMA FinishType ==
  ASSUME TypeOK, NEW w \in Workers, NEW result \in Outcomes, Finish(w, result),
         stats' \in [sent : Nat, failed : Nat]
  PROVE  TypeOK'
<1>1. outcome' \in [Tasks -> Outcomes]
  BY DEF Finish, TypeOK
<1>2. /\ state' \in [Workers -> {"ready", "busy", "done"}]
      /\ task' \in [Workers -> Tasks \cup {0}]
      /\ attempt' \in [Workers -> 0..MaxTries]
  BY WebhookAssumption DEF Finish, TypeOK
<1> QED BY <1>1, <1>2 DEF Finish, TypeOK

\* The queue never exceeds its capacity, and workers, tasks and counters keep
\* their types, whatever the endpoints answer and whenever Stop comes.
THEOREM TypeCorrect == Spec => []TypeOK
<1>1. Init => TypeOK
  BY WebhookAssumption, EmptySeq DEF Init, TypeOK, Outcomes, Tasks
<1>2. TypeOK /\ [Next]_vars => TypeOK'
  <2> SUFFICES ASSUME TypeOK, [Next]_vars PROVE TypeOK'
    OBVIOUS
  <2> USE WebhookAssumption
  <2>1. CASE Accept
    <3>1. offered + 1 \in Tasks /\ offered' \in 0..MaxTasks
      BY <2>1 DEF Accept, Offer, TypeOK, Tasks
    <3>2. queue' \in Seq(Tasks) /\ Len(queue') <= QueueSize
      BY <2>1, <3>1, QueueAppend DEF Accept, TypeOK
    <3> QED BY <2>1, <3>1, <3>2 DEF Accept, TypeOK
  <2>2. CASE Drop
    <3>1. offered + 1 \in Tasks /\ offered' \in 0..MaxTasks
      BY <2>2 DEF Drop, Offer, TypeOK, Tasks
    <3> QED BY <2>2, <3>1 DEF Drop, TypeOK, Outcomes
  <2>3. ASSUME NEW w \in Workers, Take(w) PROVE TypeOK'
    <3>1. /\ Head(queue) \in Tasks
          /\ queue' \in Seq(Tasks)
          /\ Len(queue') <= QueueSize
      BY <2>3, QueueTail DEF Take, TypeOK
    <3> QED BY <2>3, <3>1 DEF Take, TypeOK
  <2>4. ASSUME NEW w \in Workers, SeeStop(w) PROVE TypeOK'
    BY <2>4 DEF SeeStop, TypeOK
  <2>5. ASSUME NEW w \in Workers, Delivered(w) PROVE TypeOK'
    <3>1. stats' \in [sent : Nat, failed : Nat]
      BY <2>5 DEF Delivered, TypeOK
    <3> QED BY <2>5, <3>1, FinishType DEF Delivered, Outcomes
  <2>6. ASSUME NEW w \in Workers, Retry(w) PROVE TypeOK'
    BY <2>6 DEF Retry, TypeOK
  <2>7. ASSUME NEW w \in Workers, GiveUp(w) PROVE TypeOK'
    <3>1. stats' \in [sent : Nat, failed : Nat]
      BY <2>7 DEF GiveUp, TypeOK
    <3> QED BY <2>7, <3>1, FinishType DEF GiveUp, Outcomes
  <2>8. ASSUME NEW w \in Workers, Discard(w) PROVE TypeOK'
    <3>1. stats' \in [sent : Nat, failed : Nat]
      BY <2>8 DEF Discard, TypeOK
    <3> QED BY <2>8, <3>1, FinishType DEF Discard, Outcomes
  <2>9. CASE StopBegin
    BY <2>9 DEF StopBegin, TypeOK
  <2>10. CASE StopEnd
    BY <2>10 DEF StopEnd, TypeOK
  <2>11. CASE UNCHANGED vars
    BY <2>11 DEF vars, TypeOK
  <2> QED
    BY <2>1, <2>2, <2>3, <2>4, <2>5, <2>6, <2>7, <2>8, <2>9, <2>10, <2>11
    DEF Next, Send, Worker
<1> QED BY <1>1, <1>2, PTL DEF Spec

-----------------------------------------------------------------------------
(* Every task is in one place.                                             *)

\* OnePlace speaks of the tasks offered so far; it is inductive once the
\* queue and the workers are known to hold no others, and the tasks still to
\* come to have no outcome.
Numbered ==
  /\ \A k \in DOMAIN queue : queue[k] \in 1..offered
  /\ \A w \in Workers : Busy(w) => task[w] \in 1..offered
  /\ \A t \in Tasks : t > offered => outcome[t] = "pending"

Placed == Numbered /\ OnePlace

LEMMA AcceptPlaces ==
  ASSUME TypeOK, Placed, Accept
  PROVE  Placed'
<1> DEFINE n == offered + 1
<1> USE WebhookAssumption
<1>0. offered \in Nat /\ offered < MaxTasks /\ offered' = n
  BY DEF Accept, Offer, TypeOK
<1>1. /\ n \in Tasks /\ n \notin 1..offered /\ offered' = n /\ offered \in Nat
      /\ \A t \in 1..n : t \in 1..offered \/ t = n
      /\ 1..offered \subseteq 1..n /\ n \in 1..n
  <2>1. n \in Tasks
    BY <1>0 DEF Tasks
  <2>2. n \notin 1..offered
    BY <1>0
  <2>3. \A t \in 1..n : t \in 1..offered \/ t = n
    BY <1>0
  <2>4. 1..offered \subseteq 1..n /\ n \in 1..n
    BY <1>0
  <2> QED BY <1>0, <2>1, <2>2, <2>3, <2>4
<1>2. /\ Len(queue) \in Nat
      /\ DOMAIN queue = 1..Len(queue)
      /\ DOMAIN queue' = 1..(Len(queue) + 1)
      /\ \A k \in 1..Len(queue) : queue'[k] = queue[k]
      /\ queue'[Len(queue) + 1] = n
  BY <1>1, QueueAppend DEF Accept, TypeOK
<1>3. UNCHANGED <<state, task, outcome>> /\ outcome[n] = "pending"
  BY <1>1 DEF Accept, Placed, Numbered
<1>4. \A k \in DOMAIN queue' : k \in DOMAIN queue \/ k = Len(queue) + 1
  BY <1>2
<1>5. \A t : Queued(t)' <=> Queued(t) \/ t = n
  BY <1>2, <1>4 DEF Queued
<1>6. \A w \in Workers : Busy(w)' = Busy(w) /\ task'[w] = task[w]
  BY <1>3 DEF Busy
<1>7. \A w \in Workers : Busy(w) => task[w] # n
  BY <1>1 DEF Placed, Numbered
<1> HIDE DEF n
<1>8. Numbered'
  <2>1. \A k \in DOMAIN queue' : queue'[k] \in 1..n
    BY <1>1, <1>2, <1>4 DEF Placed, Numbered
  <2>2. \A w \in Workers : Busy(w)' => task'[w] \in 1..n
    BY <1>1, <1>6 DEF Placed, Numbered
  <2>3. \A t \in Tasks : t > n => outcome'[t] = "pending"
    BY <1>1, <1>3 DEF Placed, Numbered, Tasks, n
  <2> QED BY <1>1, <2>1, <2>2, <2>3 DEF Numbered
<1>9. OnePlace'
  <2>1. ASSUME NEW t \in 1..n
        PROVE  outcome'[t] = "pending"
                 <=> Queued(t)' \/ \E w \in Workers : Busy(w)' /\ task'[w] = t
    BY <1>1, <1>3, <1>5, <1>6 DEF Placed, OnePlace
  <2>2. \A w \in Workers : Busy(w)' => ~Queued(task[w])'
    BY <1>3, <1>5, <1>6, <1>7 DEF Placed, OnePlace
  <2>3. \A v, w \in Workers :
          Busy(v)' /\ Busy(w)' /\ task'[v] = task'[w] => v = w
    BY <1>6 DEF Placed, OnePlace
  <2>4. ASSUME NEW j \in DOMAIN queue', NEW k \in DOMAIN queue', queue'[j] = queue'[k]
        PROVE  j = k
    <3>1. \A i \in DOMAIN queue : queue'[i] = queue[i] /\ queue[i] # n
      BY <1>1, <1>2 DEF Placed, Numbered
    <3> QED BY <1>2, <1>4, <2>4, <3>1 DEF Placed, OnePlace
  <2> QED BY <1>1, <2>1, <2>2, <2>3, <2>4 DEF OnePlace
<1> QED BY <1>8, <1>9 DEF Placed

\* A dropped task is nowhere but has its outcome.
LEMMA DropPlaces ==
  ASSUME TypeOK, Placed, Drop
  PROVE  Placed'
<1> DEFINE n == offered + 1
<1> USE WebhookAssumption
<1>0. offered \in Nat /\ offered < MaxTasks /\ offered' = n
  BY DEF Drop, Offer, TypeOK
<1>1. n \in Tasks /\ n \notin 1..offered
  BY <1>0 DEF Tasks
<1>2. \A t \in 1..n : t \in 1..offered \/ t = n
  BY <1>0
<1>3. 1..offered \subseteq 1..n /\ 1..offered \subseteq Tasks
  BY <1>0 DEF Tasks
<1>4. /\ UNCHANGED <<queue, state, task>>
      /\ outcome' = [outcome EXCEPT ![n] = "dropped"]
  BY DEF Drop
<1>5. /\ outcome'[n] = "dropped"
      /\ \A t \in Tasks : t # n => outcome'[t] = outcome[t]
  BY <1>1, <1>4 DEF TypeOK
<1>6. ~Queued(n) /\ \A w \in Workers : ~(Busy(w) /\ task[w] = n)
  BY <1>1 DEF Placed, Numbered, Queued
<1> HIDE DEF n
<1>7. Numbered'
  <2>1. \A t \in Tasks : t > n => t > offered /\ t # n
    BY <1>0 DEF Tasks, n
  <2>2. \A t \in Tasks : t > n => outcome'[t] = "pending"
    BY <2>1, <1>5 DEF Placed, Numbered
  <2>3. \A k \in DOMAIN queue : queue[k] \in 1..n
    BY <1>3 DEF Placed, Numbered
  <2>4. \A w \in Workers : Busy(w)' => task'[w] \in 1..n
    BY <1>3, <1>4 DEF Placed, Numbered, Busy
  <2> QED BY <1>0, <1>4, <2>2, <2>3, <2>4 DEF Numbered, n
<1>8. OnePlace'
  <2>1. ASSUME NEW t \in 1..n
        PROVE  outcome'[t] = "pending"
                 <=> Queued(t) \/ \E w \in Workers : Busy(w) /\ task[w] = t
    <3>1. CASE t = n
      BY <3>1, <1>5, <1>6
    <3>2. CASE t # n
      BY <3>2, <1>2, <1>3, <1>5 DEF Placed, OnePlace
    <3> QED BY <3>1, <3>2
  <2> QED BY <1>0, <1>4, <2>1 DEF Placed, OnePlace, Queued, Busy, n
<1> QED BY <1>7, <1>8 DEF Placed

\* The head of the queue moves to the worker that takes it.
LEMMA TakePlaces ==
  ASSUME TypeOK, Placed, NEW w \in Workers, Take(w)
  PROVE  Placed'
<1> DEFINE h == queue[1]
<1>1. /\ queue' = Tail(queue) /\ Head(queue) = h
      /\ Len(queue) \in Nat \ {0}
      /\ DOMAIN queue = 1..Len(queue)
      /\ DOMAIN queue' = 1..(Len(queue) - 1)
      /\ \A k \in 1..(Len(queue) - 1) : queue'[k] = queue[k + 1]
  BY QueueTail DEF Take, TypeOK
<1>2. UNCHANGED <<offered, outcome>>
  BY DEF Take
<1>3. 1 \in DOMAIN queue /\ h \in 1..offered /\ Queued(h)
  BY <1>1 DEF Placed, Numbered, Queued
<1>4. \A k \in DOMAIN queue' : k + 1 \in DOMAIN queue /\ k + 1 # 1 /\ queue'[k] = queue[k + 1]
  BY <1>1
<1>5. \A k \in DOMAIN queue : k # 1 => k - 1 \in DOMAIN queue' /\ queue'[k - 1] = queue[k]
  BY <1>1
<1>6. \A k \in DOMAIN queue' : queue'[k] # h
  BY <1>3, <1>4 DEF Placed, OnePlace
<1>7. \A t : Queued(t)' <=> Queued(t) /\ t # h
  BY <1>4, <1>5, <1>6 DEF Queued
<1>8. /\ ~Busy(w) /\ Busy(w)' /\ task'[w] = h
      /\ \A v \in Workers : v # w => Busy(v)' = Busy(v) /\ task'[v] = task[v]
  BY <1>1 DEF Take, Busy, TypeOK
<1>9. \A v \in Workers : Busy(v) => task[v] # h
  BY <1>3 DEF Placed, OnePlace
<1> HIDE DEF h
<1>10. Numbered'
  BY <1>2, <1>3, <1>4, <1>8 DEF Placed, Numbered
<1>11. OnePlace'
  <2>1. ASSUME NEW t \in 1..offered
        PROVE  outcome[t] = "pending"
                 <=> Queued(t)' \/ \E v \in Workers : Busy(v)' /\ task'[v] = t
    <3>1. CASE t = h
      BY <3>1, <1>3, <1>8 DEF Placed, OnePlace
    <3>2. CASE t # h
      BY <3>2, <1>7, <1>8 DEF Placed, OnePlace
    <3> QED BY <3>1, <3>2
  <2>2. \A v \in Workers : Busy(v)' => ~Queued(task[v])'
    BY <1>6, <1>7, <1>8, <1>9 DEF Placed, OnePlace, Queued
  <2>3. \A u, v \in Workers : Busy(u)' /\ Busy(v)' /\ task'[u] = task'[v] => u = v
    BY <1>8, <1>9 DEF Placed, OnePlace
  <2>4. ASSUME NEW j \in DOMAIN queue', NEW k \in DOMAIN queue', queue'[j] = queue'[k]
        PROVE  j = k
    <3>1. j + 1 = k + 1
      BY <1>4, <2>4 DEF Placed, OnePlace
    <3> QED BY <1>1, <3>1
  <2> QED BY <1>2, <2>1, <2>2, <2>3, <2>4 DEF OnePlace
<1> QED BY <1>10, <1>11 DEF Placed

\* A worker that is done with its task gives it its outcome.
LEMMA FinishPlaces ==
  ASSUME TypeOK, Placed, NEW w \in Workers, NEW result \in Outcomes,
         result # "pending", Busy(w), Finish(w, result)
  PROVE  Placed'
<1> DEFINE d == task[w]
<1> USE WebhookAssumption
<1>1. UNCHANGED <<offered, queue>> /\ outcome' = [outcome EXCEPT ![d] = result]
  BY DEF Finish
<1>2. d \in 1..offered /\ offered \in Nat /\ 1..offered \subseteq Tasks
  BY DEF Placed, Numbered, TypeOK, Tasks
<1>3. outcome'[d] = result /\ \A t \in Tasks : t # d => outcome'[t] = outcome[t]
  BY <1>1, <1>2 DEF TypeOK
<1>4. /\ ~Busy(w)'
      /\ \A v \in Workers : v # w => Busy(v)' = Busy(v) /\ task'[v] = task[v]
  BY DEF Finish, Busy, TypeOK
<1>5. ~Queued(d) /\ \A v \in Workers : v # w /\ Busy(v) => task[v] # d
  BY DEF Placed, OnePlace
<1>6. \A t : Queued(t)' <=> Queued(t)
  BY <1>1 DEF Queued
<1> HIDE DEF d
<1>7. Numbered'
  <2>1. \A t \in Tasks : t > offered => t # d
    BY <1>2 DEF Tasks
  <2> QED BY <1>1, <1>3, <1>4, <2>1 DEF Placed, Numbered
<1>8. OnePlace'
  <2>1. ASSUME NEW t \in 1..offered
        PROVE  outcome'[t] = "pending"
                 <=> Queued(t) \/ \E v \in Workers : Busy(v)' /\ task'[v] = t
    <3>1. CASE t = d
      BY <3>1, <1>3, <1>4, <1>5
    <3>2. CASE t # d
      <4>1. (\E v \in Workers : Busy(v)' /\ task'[v] = t)
              <=> \E v \in Workers : Busy(v) /\ task[v] = t
        BY <3>2, <1>4 DEF d
      <4> QED BY <3>2, <4>1, <1>2, <1>3 DEF Placed, OnePlace
    <3> QED BY <3>1, <3>2
  <2>2. \A v \in Workers : Busy(v)' => ~Queued(task[v])'
    BY <1>4, <1>6 DEF Placed, OnePlace
  <2>3. \A u, v \in Workers : Busy(u)' /\ Busy(v)' /\ task'[u] = task'[v] => u = v
    BY <1>4 DEF Placed, OnePlace
  <2> QED BY <1>1, <1>6, <2>1, <2>2, <2>3 DEF Placed, OnePlace
<1> QED BY <1>7, <1>8 DEF Placed

\* A step that leaves the tasks where they are.
LEMMA KeepsPlaces ==
  ASSUME Placed, UNCHANGED <<offered, queue, task, outcome>>,
         \A w \in Workers : Busy(w)' = Busy(w)
  PROVE  Placed'
BY DEF Placed, Numbered, OnePlace, Queued

\* The inductive invariant: Accept, Take and Finish move a task, the rest
\* leave all of them where they are.
LEMMA PlacedAlways == Spec => []Placed
<1>1. Init => Placed
  <2> SUFFICES ASSUME Init PROVE Placed
    OBVIOUS
  <2>1. offered = 0 /\ 1..offered = {} /\ DOMAIN queue = {}
    BY DEF Init
  <2>2. \A w \in Workers : ~Busy(w)
    BY DEF Init, Busy
  <2>3. \A t \in Tasks : outcome[t] = "pending"
    BY DEF Init
  <2> QED BY <2>1, <2>2, <2>3 DEF Placed, Numbered, OnePlace
<1>2. TypeOK /\ Placed /\ [Next]_vars => Placed'
  <2> SUFFICES ASSUME TypeOK, Placed, [Next]_vars PROVE Placed'
    OBVIOUS
  <2>1. CASE Accept
    BY <2>1, AcceptPlaces
  <2>2. CASE Drop
    BY <2>2, DropPlaces
  <2>3. ASSUME NEW w \in Workers, Take(w) PROVE Placed'
    BY <2>3, TakePlaces
  <2>4. ASSUME NEW w \in Workers, SeeStop(w) PROVE Placed'
    <3>1. \A v \in Workers : Busy(v)' = Busy(v)
      BY <2>4 DEF SeeStop, Busy, TypeOK
    <3> QED BY <2>4, <3>1, KeepsPlaces DEF SeeStop
  <2>5. ASSUME NEW w \in Workers, Delivered(w) PROVE Placed'
    BY <2>5, FinishPlaces DEF Delivered, Busy, Outcomes
  <2>6. ASSUME NEW w \in Workers, Retry(w) PROVE Placed'
    BY <2>6, KeepsPlaces DEF Retry, Busy
  <2>7. ASSUME NEW w \in Workers, GiveUp(w) PROVE Placed'
    BY <2>7, FinishPlaces DEF GiveUp, Busy, Outcomes
  <2>8. ASSUME NEW w \in Workers, Discard(w) PROVE Placed'
    BY <2>8, FinishPlaces DEF Discard, Busy, Outcomes
  <2>9. CASE StopBegin
    BY <2>9, KeepsPlaces DEF StopBegin, Busy
  <2>10. CASE StopEnd
    BY <2>10, KeepsPlaces DEF StopEnd, Busy
  <2>11. CASE UNCHANGED vars
    BY <2>11, KeepsPlaces DEF vars, Busy
  <2> QED
    BY <2>1, <2>2, <2>3, <2>4, <2>5, <2>6, <2>7, <2>8, <2>9, <2>10, <2>11
    DEF Next, Send, Worker
<1> QED BY <1>1, <1>2, TypeCorrect, PTL DEF Spec

\* However many workers race for the queue, and whenever Stop comes, every
\* task is in the queue once, with one worker, or has its outcome (Send,
\* worker, deliver and Stop of webhook.go).
THEOREM Placing == Spec => []OnePlace
<1>1. Placed => OnePlace
  BY DEF Placed
<1> QED BY <1>1, PlacedAlways, PTL

-----------------------------------------------------------------------------
(* The counters.                                                           *)

LEMMA WithIsFinite ==
  ASSUME NEW result
  PROVE  IsFiniteSet(With(result)) /\ IsFiniteSet(With(result))'
<1>1. IsFiniteSet(Tasks)
  BY FS_Interval, WebhookAssumption DEF Tasks
<1>2. With(result) \subseteq Tasks /\ With(result)' \subseteq Tasks
  BY DEF With
<1> QED BY <1>1, <1>2, FS_Subset

\* The set of the tasks with the new outcome grows by one, the others stay.
LEMMA FinishCounts ==
  ASSUME TypeOK, Placed, NEW w \in Workers, NEW result \in Outcomes,
         result # "pending", Busy(w), Finish(w, result)
  PROVE  /\ Cardinality(With(result))' = Cardinality(With(result)) + 1
         /\ \A r \in Outcomes \ {"pending", result} : With(r)' = With(r)
<1> DEFINE d == task[w]
<1> USE WebhookAssumption
<1>1. d \in 1..offered /\ offered \in 0..MaxTasks /\ outcome[d] = "pending"
  BY DEF Placed, Numbered, OnePlace, TypeOK
<1>2. d \in Tasks
  BY <1>1 DEF Tasks
<1>3. outcome'[d] = result /\ \A t \in Tasks : t # d => outcome'[t] = outcome[t]
  BY <1>2 DEF Finish, TypeOK
<1> HIDE DEF d
<1>4. With(result)' = With(result) \cup {d} /\ d \notin With(result)
  BY <1>1, <1>2, <1>3 DEF With
<1>5. Cardinality(With(result) \cup {d}) = Cardinality(With(result)) + 1
  BY <1>4, WithIsFinite, FS_AddElement
<1>6. \A r \in Outcomes \ {"pending", result} : With(r)' = With(r)
  BY <1>1, <1>2, <1>3 DEF With
<1> QED BY <1>4, <1>5, <1>6

\* The statistics count each delivery and each failure once, whatever the
\* workers do at the same time (the two locked increments of deliver).
THEOREM Counting == Spec => []StatsAreExact
<1>1. Init => StatsAreExact
  <2> SUFFICES ASSUME Init PROVE StatsAreExact
    OBVIOUS
  <2>1. With("sent") = {} /\ With("failed") = {}
    BY DEF Init, With
  <2> QED BY <2>1, FS_EmptySet DEF Init, StatsAreExact
<1>2. TypeOK /\ Placed /\ StatsAreExact /\ [Next]_vars => StatsAreExact'
  <2> SUFFICES ASSUME TypeOK, Placed, StatsAreExact, [Next]_vars PROVE StatsAreExact'
    OBVIOUS
  <2>1. ASSUME UNCHANGED <<outcome, stats>> PROVE StatsAreExact'
    BY <2>1 DEF StatsAreExact, With
  <2>2. CASE Drop
    <3>1. offered + 1 \in Tasks /\ outcome[offered + 1] = "pending"
      BY <2>2, WebhookAssumption DEF Drop, Offer, TypeOK, Tasks, Placed, Numbered
    <3>2. /\ outcome'[offered + 1] = "dropped"
          /\ \A t \in Tasks : t # offered + 1 => outcome'[t] = outcome[t]
      BY <2>2, <3>1 DEF Drop, TypeOK
    <3>3. With("sent")' = With("sent") /\ With("failed")' = With("failed")
      BY <3>1, <3>2 DEF With
    <3> QED BY <2>2, <3>3 DEF Drop, StatsAreExact
  <2>3. ASSUME NEW w \in Workers, Delivered(w) PROVE StatsAreExact'
    <3>1. /\ Cardinality(With("sent"))' = Cardinality(With("sent")) + 1
          /\ With("failed")' = With("failed")
      BY <2>3, FinishCounts DEF Delivered, Busy, Outcomes
    <3>2. stats' = [sent |-> stats.sent + 1, failed |-> stats.failed]
      BY <2>3 DEF Delivered, TypeOK
    <3> QED BY <3>1, <3>2 DEF StatsAreExact
  <2>4. ASSUME NEW w \in Workers, GiveUp(w) PROVE StatsAreExact'
    <3>1. /\ Cardinality(With("failed"))' = Cardinality(With("failed")) + 1
          /\ With("sent")' = With("sent")
      BY <2>4, FinishCounts DEF GiveUp, Busy, Outcomes
    <3>2. stats' = [sent |-> stats.sent, failed |-> stats.failed + 1]
      BY <2>4 DEF GiveUp, TypeOK
    <3> QED BY <3>1, <3>2 DEF StatsAreExact
  <2>5. ASSUME NEW w \in Workers, Discard(w) PROVE StatsAreExact'
    <3>1. With("sent")' = With("sent") /\ With("failed")' = With("failed")
      BY <2>5, FinishCounts DEF Discard, Busy, Outcomes
    <3> QED BY <2>5, <3>1 DEF Discard, StatsAreExact
  <2>6. ASSUME NEW w \in Workers, Take(w) \/ SeeStop(w) \/ Retry(w)
        PROVE  StatsAreExact'
    BY <2>6, <2>1 DEF Take, SeeStop, Retry
  <2>7. CASE Accept \/ StopBegin \/ StopEnd \/ UNCHANGED vars
    BY <2>7, <2>1 DEF Accept, StopBegin, StopEnd, vars
  <2> QED
    BY <2>2, <2>3, <2>4, <2>5, <2>6, <2>7 DEF Next, Send, Worker
<1> QED BY <1>1, <1>2, TypeCorrect, PlacedAlways, PTL DEF Spec

-----------------------------------------------------------------------------
(* The order of the queue.                                                 *)

\* What a worker does to a task that is not dropped keeps the order of the
\* others.
LEMMA KeepsOrder ==
  ASSUME FirstInFirstOut, UNCHANGED <<offered, queue>>,
         \A t \in 1..offered : outcome[t] = "dropped" => outcome'[t] = "dropped"
  PROVE  FirstInFirstOut'
BY DEF FirstInFirstOut

LEMMA FinishKeepsOrder ==
  ASSUME TypeOK, Placed, FirstInFirstOut, NEW w \in Workers, NEW result \in Outcomes,
         Busy(w), Finish(w, result)
  PROVE  FirstInFirstOut'
<1>1. task[w] \in 1..offered /\ outcome[task[w]] = "pending" /\ 1..offered \subseteq Tasks
  BY WebhookAssumption DEF Placed, Numbered, OnePlace, TypeOK, Tasks
<1>2. \A t \in 1..offered : outcome[t] = "dropped" => outcome'[t] = "dropped"
  BY <1>1 DEF Finish, TypeOK
<1> QED BY <1>2, KeepsOrder DEF Finish

\* Tasks leave the queue in the order Send put them there, for any number of
\* workers (a task leaves only at the head, and Send appends).
THEOREM Ordering == Spec => []FirstInFirstOut
<1>1. Init => FirstInFirstOut
  BY DEF Init, FirstInFirstOut
<1>2. TypeOK /\ Placed /\ FirstInFirstOut /\ [Next]_vars => FirstInFirstOut'
  <2> SUFFICES ASSUME TypeOK, Placed, FirstInFirstOut, [Next]_vars PROVE FirstInFirstOut'
    OBVIOUS
  <2>1. CASE Accept
    <3>1. /\ offered \in Nat /\ offered' = offered + 1 /\ offered + 1 \in Tasks
          /\ UNCHANGED outcome
      BY <2>1, WebhookAssumption DEF Accept, Offer, TypeOK, Tasks
    <3>2. /\ Len(queue) \in Nat
          /\ DOMAIN queue = 1..Len(queue)
          /\ DOMAIN queue' = 1..(Len(queue) + 1)
          /\ \A k \in 1..Len(queue) : queue'[k] = queue[k]
          /\ queue'[Len(queue) + 1] = offered + 1
      BY <2>1, <3>1, QueueAppend DEF Accept, TypeOK
    <3>3. SUFFICES ASSUME NEW k \in DOMAIN queue', NEW t \in 1..(offered + 1), t > queue'[k],
                          outcome[t] # "dropped"
                   PROVE  \E j \in DOMAIN queue' : j > k /\ queue'[j] = t
      BY <3>1 DEF FirstInFirstOut
    <3>4. k \in DOMAIN queue
      BY <3>1, <3>2, <3>3
    <3>5. CASE t = offered + 1
      BY <3>2, <3>4, <3>5
    <3>6. CASE t # offered + 1
      <4>1. t \in 1..offered /\ t > queue[k]
        BY <3>1, <3>2, <3>3, <3>4, <3>6
      <4>2. PICK j \in DOMAIN queue : j > k /\ queue[j] = t
        BY <4>1, <3>3, <3>4 DEF FirstInFirstOut
      <4> QED BY <4>2, <3>2
    <3> QED BY <3>5, <3>6
  <2>2. CASE Drop
    <3>1. /\ offered \in Nat /\ offered' = offered + 1 /\ offered + 1 \in Tasks
          /\ UNCHANGED queue /\ 1..offered \subseteq Tasks
      BY <2>2, WebhookAssumption DEF Drop, Offer, TypeOK, Tasks
    <3>2. outcome'[offered + 1] = "dropped" /\ \A t \in 1..offered : outcome'[t] = outcome[t]
      BY <2>2, <3>1 DEF Drop, TypeOK
    <3> QED BY <3>1, <3>2 DEF FirstInFirstOut
  <2>3. ASSUME NEW w \in Workers, Take(w) PROVE FirstInFirstOut'
    <3>1. /\ Len(queue) \in Nat \ {0}
          /\ DOMAIN queue = 1..Len(queue)
          /\ DOMAIN queue' = 1..(Len(queue) - 1)
          /\ \A k \in 1..(Len(queue) - 1) : queue'[k] = queue[k + 1]
      BY <2>3, QueueTail DEF Take, TypeOK
    <3>2. UNCHANGED <<offered, outcome>>
      BY <2>3 DEF Take
    <3>3. SUFFICES ASSUME NEW k \in DOMAIN queue', NEW t \in 1..offered, t > queue'[k],
                          outcome[t] # "dropped"
                   PROVE  \E j \in DOMAIN queue' : j > k /\ queue'[j] = t
      BY <3>2 DEF FirstInFirstOut
    <3>4. k + 1 \in DOMAIN queue /\ t > queue[k + 1]
      BY <3>1, <3>3
    <3>5. PICK j \in DOMAIN queue : j > k + 1 /\ queue[j] = t
      BY <3>3, <3>4 DEF FirstInFirstOut
    <3>6. j - 1 \in DOMAIN queue' /\ j - 1 > k /\ queue'[j - 1] = t
      BY <3>1, <3>5
    <3> QED BY <3>6
  <2>4. ASSUME NEW w \in Workers, Delivered(w) PROVE FirstInFirstOut'
    BY <2>4, FinishKeepsOrder DEF Delivered, Busy, Outcomes
  <2>5. ASSUME NEW w \in Workers, GiveUp(w) PROVE FirstInFirstOut'
    BY <2>5, FinishKeepsOrder DEF GiveUp, Busy, Outcomes
  <2>6. ASSUME NEW w \in Workers, Discard(w) PROVE FirstInFirstOut'
    BY <2>6, FinishKeepsOrder DEF Discard, Busy, Outcomes
  <2>7. ASSUME NEW w \in Workers, SeeStop(w) \/ Retry(w) PROVE FirstInFirstOut'
    BY <2>7, KeepsOrder DEF SeeStop, Retry
  <2>8. CASE StopBegin \/ StopEnd \/ UNCHANGED vars
    BY <2>8, KeepsOrder DEF StopBegin, StopEnd, vars
  <2> QED
    BY <2>1, <2>2, <2>3, <2>4, <2>5, <2>6, <2>7, <2>8 DEF Next, Send, Worker
<1> QED BY <1>1, <1>2, TypeCorrect, PlacedAlways, PTL DEF Spec
=============================================================================
