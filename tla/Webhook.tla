------------------------------- MODULE Webhook -------------------------------
(***************************************************************************)
(* internal/webhook/webhook.go: the bounded queue of notifications, the    *)
(* workers that deliver them with retries, and the shutdown.               *)
(*                                                                         *)
(* A task is one event for one enabled endpoint; tasks are numbered in the *)
(* order Send offers them to the queue.  Every channel operation and every *)
(* HTTP attempt is a step of its own.                                      *)
(***************************************************************************)
EXTENDS Naturals, Sequences, FiniteSets

CONSTANTS
  Workers,     \* the goroutines startWorkers creates
  QueueSize,   \* capacity of the channel
  MaxTries,    \* Endpoint.MaxRetries
  MaxTasks     \* bound: tasks ever offered

ASSUME WebhookAssumption ==
  /\ IsFiniteSet(Workers)
  /\ QueueSize \in Nat \ {0}
  /\ MaxTries \in Nat \ {0}
  /\ MaxTasks \in Nat

VARIABLES
  offered,   \* tasks offered so far
  queue,     \* Manager.queue
  state,     \* of each worker: waiting in its select, in deliver, returned
  task,      \* the task a worker delivers
  attempt,   \* the attempt it is at
  stop,      \* Manager.stopCh open / closed, then queue closed
  outcome,   \* what became of each task
  stats      \* Manager.stats

vars == <<offered, queue, state, task, attempt, stop, outcome, stats>>

Tasks == 1..MaxTasks

Outcomes == {"pending", "sent", "failed", "discarded", "dropped"}

TypeOK ==
  /\ offered \in 0..MaxTasks
  /\ queue \in Seq(Tasks)
  /\ Len(queue) <= QueueSize
  /\ state \in [Workers -> {"ready", "busy", "done"}]
  /\ task \in [Workers -> Tasks \cup {0}]
  /\ attempt \in [Workers -> 0..MaxTries]
  /\ stop \in {"open", "stopping", "closed"}
  /\ outcome \in [Tasks -> Outcomes]
  /\ stats \in [sent : Nat, failed : Nat]

Init ==
  /\ offered = 0
  /\ queue = <<>>
  /\ state = [w \in Workers |-> "ready"]
  /\ task = [w \in Workers |-> 0]
  /\ attempt = [w \in Workers |-> 0]
  /\ stop = "open"
  /\ outcome = [t \in Tasks |-> "pending"]
  /\ stats = [sent |-> 0, failed |-> 0]

-----------------------------------------------------------------------------
(* Send, for one endpoint: a select with a default, so it never waits.     *)
(* Nobody sends once Stop has begun (see DaemonLifecycle).                 *)

Offer ==
  /\ stop = "open"
  /\ offered < MaxTasks
  /\ offered' = offered + 1

\* Mutant: off by one at the capacity.
AcceptOneMore ==
  /\ Offer
  /\ Len(queue) <= QueueSize
  /\ queue' = Append(queue, offered + 1)
  /\ UNCHANGED <<state, task, attempt, stop, outcome, stats>>

Accept ==
  /\ Offer
  /\ Len(queue) < QueueSize
  /\ queue' = Append(queue, offered + 1)
  /\ UNCHANGED <<state, task, attempt, stop, outcome, stats>>

Drop ==
  /\ Offer
  /\ Len(queue) = QueueSize
  /\ outcome' = [outcome EXCEPT ![offered + 1] = "dropped"]
  /\ UNCHANGED <<queue, state, task, attempt, stop, stats>>

Send == Accept \/ Drop

-----------------------------------------------------------------------------
(* worker and deliver.                                                     *)

\* Mutant: a worker copies the head of the queue and leaves it there.
TakeCopy(w) ==
  /\ state[w] = "ready"
  /\ queue # <<>>
  /\ state' = [state EXCEPT ![w] = "busy"]
  /\ task' = [task EXCEPT ![w] = Head(queue)]
  /\ attempt' = [attempt EXCEPT ![w] = 1]
  /\ UNCHANGED <<offered, queue, stop, outcome, stats>>

\* Mutant: the youngest task first.
TakeLast(w) ==
  /\ state[w] = "ready"
  /\ queue # <<>>
  /\ queue' = SubSeq(queue, 1, Len(queue) - 1)
  /\ state' = [state EXCEPT ![w] = "busy"]
  /\ task' = [task EXCEPT ![w] = queue[Len(queue)]]
  /\ attempt' = [attempt EXCEPT ![w] = 1]
  /\ UNCHANGED <<offered, stop, outcome, stats>>

\* select picks either case when both are ready: also after stopCh is
\* closed a worker may take another task.
Take(w) ==
  /\ state[w] = "ready"
  /\ queue # <<>>
  /\ queue' = Tail(queue)
  /\ state' = [state EXCEPT ![w] = "busy"]
  /\ task' = [task EXCEPT ![w] = Head(queue)]
  /\ attempt' = [attempt EXCEPT ![w] = 1]
  /\ UNCHANGED <<offered, stop, outcome, stats>>

\* Mutant: the workers wait for the queue to be closed, as with range.
SeeStopClosed(w) ==
  /\ state[w] = "ready"
  /\ stop = "closed"
  /\ state' = [state EXCEPT ![w] = "done"]
  /\ UNCHANGED <<offered, queue, task, attempt, stop, outcome, stats>>

SeeStop(w) ==
  /\ state[w] = "ready"
  /\ stop # "open"
  /\ state' = [state EXCEPT ![w] = "done"]
  /\ UNCHANGED <<offered, queue, task, attempt, stop, outcome, stats>>

\* deliver returns to the loop of the worker.
Finish(w, result) ==
  /\ outcome' = [outcome EXCEPT ![task[w]] = result]
  /\ state' = [state EXCEPT ![w] = "ready"]
  /\ task' = [task EXCEPT ![w] = 0]
  /\ attempt' = [attempt EXCEPT ![w] = 0]
  /\ UNCHANGED <<offered, queue, stop>>

\* A 2xx answer.
Delivered(w) ==
  /\ state[w] = "busy"
  /\ Finish(w, "sent")
  /\ stats' = [stats EXCEPT !.sent = @ + 1]

\* Mutant: after the last try the count starts again.
RetryForEver(w) ==
  /\ state[w] = "busy"
  /\ attempt' = [attempt EXCEPT ![w] = (@ % MaxTries) + 1]
  /\ UNCHANGED <<offered, queue, state, task, stop, outcome, stats>>

\* Mutant: a failed try counts as a failed delivery.
RetryCounting(w) ==
  /\ state[w] = "busy"
  /\ attempt[w] < MaxTries
  /\ attempt' = [attempt EXCEPT ![w] = @ + 1]
  /\ stats' = [stats EXCEPT !.failed = @ + 1]
  /\ UNCHANGED <<offered, queue, state, task, stop, outcome>>

\* No answer, or another status: back off and try again ...
Retry(w) ==
  /\ state[w] = "busy"
  /\ attempt[w] < MaxTries
  /\ attempt' = [attempt EXCEPT ![w] = @ + 1]
  /\ UNCHANGED <<offered, queue, state, task, stop, outcome, stats>>

\* ... until the tries are used up.
GiveUp(w) ==
  /\ state[w] = "busy"
  /\ attempt[w] = MaxTries
  /\ Finish(w, "failed")
  /\ stats' = [stats EXCEPT !.failed = @ + 1]

\* The payload cannot be formatted or the URL not parsed.
Discard(w) ==
  /\ state[w] = "busy"
  /\ Finish(w, "discarded")
  /\ UNCHANGED stats

Worker(w) ==
  Take(w) \/ SeeStop(w) \/ Delivered(w) \/ Retry(w) \/ GiveUp(w) \/ Discard(w)

-----------------------------------------------------------------------------
(* Stop: close(stopCh), wg.Wait, close(queue).                             *)

StopBegin ==
  /\ stop = "open"
  /\ stop' = "stopping"
  /\ UNCHANGED <<offered, queue, state, task, attempt, outcome, stats>>

StopEnd ==
  /\ stop = "stopping"
  /\ \A w \in Workers : state[w] = "done"
  /\ stop' = "closed"
  /\ UNCHANGED <<offered, queue, state, task, attempt, outcome, stats>>

Next ==
  \/ Send
  \/ \E w \in Workers : Worker(w)
  \/ StopBegin
  \/ StopEnd

Spec == Init /\ [][Next]_vars

\* The workers are scheduled, an HTTP attempt ends (client.Timeout) and so
\* does a back-off; Stop, once begun, is carried on.
Fairness == (\A w \in Workers : WF_vars(Worker(w))) /\ WF_vars(StopEnd)

FairSpec == Spec /\ Fairness

-----------------------------------------------------------------------------
(* Properties.                                                             *)

Queued(t) == \E k \in DOMAIN queue : queue[k] = t

Busy(w) == state[w] = "busy"

\* Nothing is lost or done twice while it is under way: a task has its
\* outcome as soon as it is neither in the queue nor with a worker, and it is
\* never in two of these places, nor twice in one, however the workers race
\* for the queue and whenever Stop comes.
OnePlace ==
  /\ \A t \in 1..offered :
       outcome[t] = "pending" <=> Queued(t) \/ \E w \in Workers : Busy(w) /\ task[w] = t
  /\ \A w \in Workers : Busy(w) => ~Queued(task[w])
  /\ \A v, w \in Workers : Busy(v) /\ Busy(w) /\ task[v] = task[w] => v = w
  /\ \A j, k \in DOMAIN queue : queue[j] = queue[k] => j = k

With(result) == {t \in Tasks : outcome[t] = result}

\* The statistics count each delivery and each failure once.
StatsAreExact ==
  stats = [sent |-> Cardinality(With("sent")), failed |-> Cardinality(With("failed"))]

\* Tasks leave the queue in the order in which they were accepted: what a
\* worker holds or has finished is older than everything that still waits.
FirstInFirstOut ==
  \A k \in DOMAIN queue, t \in 1..offered :
    t > queue[k] => outcome[t] = "dropped" \/ \E j \in DOMAIN queue : j > k /\ queue[j] = t

\* Until Stop, every accepted task is tried to an end.
AcceptedIsTried ==
  \A t \in Tasks :
    (t <= offered /\ outcome[t] = "pending") ~> (outcome[t] # "pending" \/ stop # "open")

\* Stop returns: no worker waits for ever, and none is waited for in vain.
StopReturns == stop = "stopping" ~> stop = "closed"

-----------------------------------------------------------------------------
(* What the documentation says and the code does not do.                   *)

\* README.md:221 lists the event daemon_stopped, which Daemon.Stop sends
\* before it stops the manager: what was accepted is not thrown away.
StopDrains == stop = "closed" => queue = <<>>

\* configs/config.yaml:75 "persist_queue: true # Store failed webhooks in DB"
\* and :95 "Retry failed webhooks every minute": a task that failed while the
\* manager runs is tried again.
FailedIsRetried ==
  \A t \in Tasks :
    outcome[t] = "failed" ~> (outcome[t] # "failed" \/ stop # "open")
=============================================================================
