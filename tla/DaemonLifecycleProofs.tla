------------------------ MODULE DaemonLifecycleProofs ------------------------
(***************************************************************************)
(* The order of shutdown, for any connections, requests and workers.       *)
(***************************************************************************)
EXTENDS DaemonLifecycle, TLAPS

-----------------------------------------------------------------------------
(* The steps of Stop.                                                      *)

LEMMA Steps ==
  Step = {"wait", "send", "socket", "cancel", "sched", "metrics", "api", "tc",
          "webhook", "workers", "db", "exit", "done"}
<1>1. DOMAIN StopSteps = 1..13
  BY DEF StopSteps
<1>2. \A k \in 1..13 : k \in {1, 2, 3, 4, 5, 6, 7, 8, 9, 10, 11, 12, 13}
  OBVIOUS
<1> QED BY <1>1, <1>2 DEF Step, StopSteps

\* What has been stopped after the scheduler, and after the rules.
AfterSched == {"metrics", "api", "tc", "webhook", "workers", "db", "exit", "done"}

AfterTc == {"webhook", "workers", "db", "exit", "done"}

\* The steps are distinct, so a step is before another where it is listed
\* before it.
LEMMA BeforeListed ==
  ASSUME NEW k \in DOMAIN StopSteps
  PROVE  Before(StopSteps[k]) = k
<1>1. \A i, j \in DOMAIN StopSteps : StopSteps[i] = StopSteps[j] => i = j
  <2>1. DOMAIN StopSteps = 1..13
    BY DEF StopSteps
  <2> QED BY <2>1 DEF StopSteps
<1> QED BY <1>1 DEF Before

LEMMA PassedTc == stop \in Step /\ Passed("tc") => stop \in AfterTc
<1> SUFFICES ASSUME stop \in Step, Passed("tc") PROVE stop \in AfterTc
  OBVIOUS
<1>1. DOMAIN StopSteps = 1..13
  BY DEF StopSteps
<1>2. PICK k \in 1..13 : stop = StopSteps[k]
  BY <1>1 DEF Step
<1>3. Before(stop) = k
  BY <1>1, <1>2, BeforeListed
<1>4. Before("tc") = 8
  BY <1>1, BeforeListed DEF StopSteps
<1>5. k \in {9, 10, 11, 12, 13}
  BY <1>3, <1>4 DEF Passed
<1> QED BY <1>2, <1>5 DEF StopSteps, AfterTc

-----------------------------------------------------------------------------
(* Type correctness.                                                       *)

Flags == signal \in BOOLEAN /\ cancelled \in BOOLEAN /\ stopCh \in BOOLEAN /\ rules \in BOOLEAN

\* What TypeOK says of the other variables.
Rest ==
  /\ start \in {"boot", "select", "poll", "returned"}
  /\ sched \in {"off", "select", "job", "returned"}
  /\ {listener, queue, db} \subseteq {"none", "open", "closed"}
  /\ acceptor \in {"off", "accept", "returned"}
  /\ spins \in 0..MaxSpins
  /\ conn \in [Conns -> {"none", "serving", "done"}]
  /\ request \in [Requests -> {"none", "serving", "done"}]
  /\ worker \in [Workers -> {"running", "returned"}]
  /\ stop \in Step
  /\ faults \subseteq {"send", "db"}

LEMMA TypeParts == TypeOK <=> Rest /\ Flags
<1>1. {signal, cancelled, stopCh, rules} \subseteq BOOLEAN <=> Flags
  BY Zenon DEF Flags
<1> QED BY Zenon, <1>1 DEF TypeOK, Rest

LEMMA FlagsKept == ASSUME Flags, [Next]_vars PROVE Flags'
<1>1. CASE Signal
  BY Zenon, <1>1 DEF Signal, Flags
<1>2. CASE Start \/ Sched
  BY Zenon, <1>2 DEF Start, BootEnd, PollBegin, PollEnd, StartReturns, Sched, JobBegin,
                     JobEnd, SchedReturns, Flags
<1>3. CASE BootWork \/ PollWork \/ JobWork
  BY Zenon, <1>3 DEF BootWork, PollWork, JobWork, Work, ApplyRules, SendWebhook, WriteDb, Flags
<1>4. CASE \E c \in Conns : Connect(c) \/ Reapply(c) \/ Respond(c)
  BY Zenon, <1>4 DEF Connect, Reapply, Respond, ApplyRules, Flags
<1>5. CASE AcceptFails
  BY Zenon, <1>5 DEF AcceptFails, Flags
<1>6. CASE \E r \in Requests : RequestBegin(r) \/ RequestEnd(r)
  BY Zenon, <1>6 DEF RequestBegin, RequestEnd, Flags
<1>7. CASE \E w \in Workers : WorkerReturns(w)
  BY Zenon, <1>7 DEF WorkerReturns, Flags
<1>8. CASE StopCalled \/ StopSend \/ StopSocket \/ StopCancel \/ StopSched \/ StopMetrics
  BY Zenon, <1>8 DEF StopCalled, StopSend, StopSocket, StopCancel, StopSched, StopMetrics,
                     SendWebhook, others, Flags
<1>9. CASE StopApi \/ StopTc \/ StopWebhook \/ StopWorkers \/ StopDb \/ StopExit
  BY Zenon, <1>9 DEF StopApi, StopTc, StopWebhook, StopWorkers, StopDb, StopExit, others, Flags
<1>10. CASE UNCHANGED vars
  BY Zenon, <1>10 DEF vars, Flags
<1> QED BY Zenon, <1>1, <1>2, <1>3, <1>4, <1>5, <1>6, <1>7, <1>8, <1>9, <1>10 DEF Next, Stop

LEMMA RestKept == ASSUME Rest, [Next]_vars PROVE Rest'
<1>1. CASE Signal
  BY <1>1 DEF Signal, Rest
<1>2. CASE Start \/ Sched
  BY <1>2 DEF Start, BootEnd, PollBegin, PollEnd, StartReturns, Sched, JobBegin,
              JobEnd, SchedReturns, Rest
<1>3. CASE BootWork \/ PollWork \/ JobWork
  BY <1>3 DEF BootWork, PollWork, JobWork, Work, ApplyRules, SendWebhook, WriteDb, Rest
<1>4. CASE \E c \in Conns : Connect(c) \/ Reapply(c) \/ Respond(c)
  BY <1>4 DEF Connect, Reapply, Respond, ApplyRules, Rest
<1>5. CASE AcceptFails
  BY <1>5, LifecycleAssumption DEF AcceptFails, Rest
<1>6. CASE \E r \in Requests : RequestBegin(r) \/ RequestEnd(r)
  BY <1>6 DEF RequestBegin, RequestEnd, Rest
<1>7. CASE \E w \in Workers : WorkerReturns(w)
  BY <1>7 DEF WorkerReturns, Rest
<1>8. CASE StopCalled \/ StopSend \/ StopSocket \/ StopCancel \/ StopSched \/ StopMetrics
  BY <1>8, Steps DEF StopCalled, StopSend, StopSocket, StopCancel, StopSched, StopMetrics,
                     SendWebhook, Advance, others, Rest
<1>9. CASE StopApi \/ StopTc \/ StopWebhook \/ StopWorkers \/ StopDb \/ StopExit
  BY <1>9, Steps DEF StopApi, StopTc, StopWebhook, StopWorkers, StopDb, StopExit,
                     Advance, others, Rest
<1>10. CASE UNCHANGED vars
  BY <1>10 DEF vars, Rest
<1> QED BY <1>1, <1>2, <1>3, <1>4, <1>5, <1>6, <1>7, <1>8, <1>9, <1>10 DEF Next, Stop

-----------------------------------------------------------------------------
(* The order of Stop.                                                      *)

\* Stop begins when Start has returned, goes past the scheduler when its
\* goroutine has returned, and closes the queue and the database later.
Ordered ==
  /\ stop # "wait" => start = "returned"
  /\ stop \in AfterSched => sched = "returned"
  /\ queue = "closed" => stop \in {"db", "exit", "done"}
  /\ db = "closed" => stop \in {"exit", "done"}

\* Only Stop itself disturbs what has been stopped.
LEMMA OrderedKept == ASSUME Ordered, [Next]_vars PROVE Ordered'
<1>1. CASE Signal
  BY <1>1 DEF Signal, Ordered
<1>2. CASE Start
  BY <1>2 DEF Start, BootEnd, PollBegin, PollEnd, StartReturns, Ordered, AfterSched
<1>3. CASE Sched
  BY <1>3 DEF Sched, JobBegin, JobEnd, SchedReturns, Ordered
<1>4. CASE BootWork \/ PollWork \/ JobWork
  BY <1>4 DEF BootWork, PollWork, JobWork, Work, Ordered
<1>5. CASE \E c \in Conns : Connect(c) \/ Reapply(c) \/ Respond(c)
  BY <1>5 DEF Connect, Reapply, Respond, Ordered
<1>6. CASE AcceptFails
  BY <1>6 DEF AcceptFails, Ordered
<1>7. CASE \E r \in Requests : RequestBegin(r) \/ RequestEnd(r)
  BY <1>7 DEF RequestBegin, RequestEnd, Ordered
<1>8. CASE \E w \in Workers : WorkerReturns(w)
  BY <1>8 DEF WorkerReturns, Ordered
<1>9. CASE StopCalled \/ StopSend \/ StopSocket \/ StopCancel \/ StopSched \/ StopMetrics
  BY <1>9 DEF StopCalled, StopSend, StopSocket, StopCancel, StopSched, StopMetrics,
              Advance, others, Ordered, AfterSched
<1>10. CASE StopApi \/ StopTc \/ StopWebhook \/ StopWorkers \/ StopDb \/ StopExit
  BY <1>10 DEF StopApi, StopTc, StopWebhook, StopWorkers, StopDb, StopExit,
               Advance, others, Ordered, AfterSched
<1>11. CASE UNCHANGED vars
  BY <1>11 DEF vars, Ordered
<1> QED BY <1>1, <1>2, <1>3, <1>4, <1>5, <1>6, <1>7, <1>8, <1>9, <1>10, <1>11
        DEF Next, Stop

\* Whoever is at work finds queue and database open.
LEMMA NoFault ==
  ASSUME Ordered, NothingUsedAfterClose, [Next]_vars
  PROVE  NothingUsedAfterClose'
<1>1. CASE BootWork \/ PollWork \/ JobWork
  <2>1. queue # "closed" /\ db # "closed"
    BY <1>1 DEF BootWork, PollWork, JobWork, Ordered, AfterSched
  <2> QED BY <1>1, <2>1 DEF BootWork, PollWork, JobWork, Work, ApplyRules, SendWebhook,
                            WriteDb, NothingUsedAfterClose
<1>2. CASE StopSend
  <2>1. queue # "closed"
    BY <1>2 DEF StopSend, Advance, Ordered
  <2> QED BY <1>2, <2>1 DEF StopSend, SendWebhook, NothingUsedAfterClose
<1>3. CASE \E c \in Conns : Connect(c) \/ Reapply(c) \/ Respond(c)
  BY <1>3 DEF Connect, Reapply, Respond, ApplyRules, NothingUsedAfterClose
<1>4. CASE \/ \E r \in Requests : RequestBegin(r) \/ RequestEnd(r)
           \/ \E w \in Workers : WorkerReturns(w)
  BY <1>4 DEF RequestBegin, RequestEnd, WorkerReturns, NothingUsedAfterClose
<1>5. CASE Signal \/ Start \/ Sched \/ AcceptFails
  BY <1>5 DEF Signal, Start, BootEnd, PollBegin, PollEnd, StartReturns, Sched, JobBegin,
              JobEnd, SchedReturns, AcceptFails, NothingUsedAfterClose
<1>6. CASE \/ StopCalled \/ StopSocket \/ StopCancel \/ StopSched \/ StopMetrics
           \/ StopApi \/ StopTc \/ StopWebhook \/ StopWorkers \/ StopDb \/ StopExit
  BY <1>6 DEF StopCalled, StopSocket, StopCancel, StopSched, StopMetrics, StopApi, StopTc,
              StopWebhook, StopWorkers, StopDb, StopExit, NothingUsedAfterClose
<1>7. CASE UNCHANGED vars
  BY <1>7 DEF vars, NothingUsedAfterClose
<1> QED BY <1>1, <1>2, <1>3, <1>4, <1>5, <1>6, <1>7 DEF Next, Stop

LEMMA OrderedAlways == Spec => [](Rest /\ Flags /\ Ordered /\ NothingUsedAfterClose)
<1>1. Init => Rest /\ Ordered /\ NothingUsedAfterClose
  BY Steps, LifecycleAssumption
     DEF Init, Rest, Ordered, AfterSched, NothingUsedAfterClose
<1>2. Init => Flags
  BY Zenon DEF Init, Flags
<1>3. /\ Rest /\ Flags /\ Ordered /\ NothingUsedAfterClose
      /\ [Next]_vars
      => (Rest /\ Flags /\ Ordered /\ NothingUsedAfterClose)'
  BY RestKept, FlagsKept, OrderedKept, NoFault
<1> QED BY <1>1, <1>2, <1>3, PTL DEF Spec

\* Every variable keeps its type, for any connections, requests and workers.
THEOREM TypeCorrect == Spec => []TypeOK
<1>1. Rest /\ Flags => TypeOK
  BY TypeParts
<1> QED BY <1>1, OrderedAlways, PTL

\* The poll loop, the jobs and Stop never meet a closed webhook queue or
\* database, whenever the signal comes and whoever is at work then.
THEOREM NothingUsed == Spec => []NothingUsedAfterClose
BY OrderedAlways, PTL

\* Only a socket handler can install rules once RemoveAll has run, however
\* many goroutines of whichever kind were at work when the signal came.
THEOREM StayRemoved == Spec => RulesStayRemoved
<1>1. Rest /\ Flags /\ Ordered /\ NothingUsedAfterClose /\ [Next]_vars
        => [Passed("tc") /\ ~rules /\ rules' =>
              \E c \in Conns : conn[c] = "serving"]_vars
  <2> SUFFICES ASSUME Rest, Ordered, [Next]_vars, Passed("tc"), ~rules, rules'
               PROVE  \E c \in Conns : conn[c] = "serving"
    OBVIOUS
  <2>1. stop \in AfterTc
    BY PassedTc DEF Rest
  <2>2. start = "returned" /\ sched = "returned"
    BY <2>1 DEF Ordered, AfterTc, AfterSched
  <2>3. ~BootWork /\ ~PollWork /\ ~JobWork
    BY <2>2 DEF BootWork, PollWork, JobWork
  <2>4. \A r \in Requests : ~RequestBegin(r) /\ ~RequestEnd(r)
    BY Zenon DEF RequestBegin, RequestEnd
  <2>5. \A w \in Workers : ~WorkerReturns(w)
    BY Zenon DEF WorkerReturns
  <2>6. ~Signal /\ ~Start /\ ~Sched /\ ~AcceptFails
    BY Zenon DEF Signal, Start, BootEnd, PollBegin, PollEnd, StartReturns, Sched, JobBegin,
                 JobEnd, SchedReturns, AcceptFails
  <2>7. ~Stop
    <3>1. ~StopSend
      BY <2>1 DEF StopSend, Advance, AfterTc
    <3>2. ~StopTc
      BY <2>1 DEF StopTc, Advance, AfterTc
    <3> QED BY Zenon, <3>1, <3>2
            DEF Stop, StopCalled, StopSocket, StopCancel, StopSched, StopMetrics, StopApi,
                StopWebhook, StopWorkers, StopDb, StopExit
  <2>8. ~UNCHANGED vars
    BY Zenon DEF vars
  <2>9. \E c \in Conns : Connect(c) \/ Reapply(c) \/ Respond(c)
    BY Zenon, <2>3, <2>4, <2>5, <2>6, <2>7, <2>8 DEF Next
  <2>10. \E c \in Conns : Reapply(c)
    BY Zenon, <2>9 DEF Connect, Respond
  <2> QED BY Zenon, <2>10 DEF Reapply
<1> QED BY <1>1, OrderedAlways, PTL DEF Spec, RulesStayRemoved
=============================================================================
