--------------------------- MODULE DaemonLifecycle ---------------------------
(***************************************************************************)
(* The life of bandwidthd from daemon.Start to the end of daemon.Stop:     *)
(* cmd/bandwidthd/main.go waits for a signal, cancels the context of       *)
(* Start, waits for Start to return and calls Stop, which shuts the        *)
(* subsystems down one after the other while the scheduler, the HTTP       *)
(* servers, the socket listener and its handlers may still be at work.     *)
(*                                                                         *)
(* The subsystems are reduced to what matters for the order: who may       *)
(* install tc rules, send webhooks or write to the database, and when the  *)
(* webhook queue and the database are closed (see Scheduler, Webhook and   *)
(* QuotaEnforcement for what they do).                                     *)
(***************************************************************************)
EXTENDS Naturals, FiniteSets

CONSTANTS
  Conns,      \* connections to the Unix socket, each with its handler
  Requests,   \* HTTP requests to the API
  Workers,    \* webhook workers
  MaxSpins    \* bound: up to which the turns of the accept loop are counted

ASSUME LifecycleAssumption ==
  /\ IsFiniteSet(Workers)
  /\ MaxSpins \in Nat \ {0}

VARIABLES
  signal,     \* SIGTERM or SIGINT has arrived and main has cancelled ctx
  start,      \* the goroutine of daemon.Start
  sched,      \* the goroutine of the scheduler
  cancelled,  \* Scheduler.cancel has been called
  listener,   \* Daemon.socketLn
  acceptor,   \* the goroutine of startSocketListener
  spins,      \* its turns since the listener was closed
  conn,       \* the socket handlers
  request,    \* the API handlers
  worker,     \* the webhook workers
  stopCh,     \* webhook.Manager.stopCh has been closed
  queue,      \* the webhook queue
  db,         \* the database
  rules,      \* tc rules are installed
  stop,       \* how far daemon.Stop has come: the step it is to take next
  faults      \* history: operations on what had been closed

vars == <<signal, start, sched, cancelled, listener, acceptor, spins, conn, request,
          worker, stopCh, queue, db, rules, stop, faults>>

\* The steps of daemon.Stop, in order.
StopSteps ==
  <<"wait", "send", "socket", "cancel", "sched", "metrics", "api", "tc",
    "webhook", "workers", "db", "exit", "done">>

Step == {StopSteps[k] : k \in DOMAIN StopSteps}

Before(step) == CHOOSE k \in DOMAIN StopSteps : StopSteps[k] = step

\* Stop has gone beyond the step.
Passed(step) == Before(stop) > Before(step)

TypeOK ==
  /\ {signal, cancelled, stopCh, rules} \subseteq BOOLEAN
  /\ start \in {"boot", "select", "poll", "returned"}
  /\ sched \in {"off", "select", "job", "returned"}
  /\ {listener, queue, db} \subseteq {"none", "open", "closed"}
  /\ acceptor \in {"off", "accept", "returned"}
  /\ spins \in 0..MaxSpins
  /\ conn \in [Conns -> {"none", "serving", "done"}]
  /\ request \in [Requests -> {"none", "serving", "done"}]
  /\ worker \in [Workers -> {"running", "returned"}]
  /\ stop \in Step
  /\ faults \subseteq {"send", "db"}

Init ==
  /\ signal = FALSE
  /\ start = "boot"
  /\ sched = "off"
  /\ cancelled = FALSE
  /\ listener = "none"
  /\ acceptor = "off"
  /\ spins = 0
  /\ conn = [c \in Conns |-> "none"]
  /\ request = [r \in Requests |-> "none"]
  /\ worker = [w \in Workers |-> "running"]
  /\ stopCh = FALSE
  /\ queue = "open"
  /\ db = "open"
  /\ rules = FALSE
  /\ stop = "wait"
  /\ faults = {}

-----------------------------------------------------------------------------
(* What goroutines do in the course of their work.                         *)

ApplyRules ==
  /\ rules' = TRUE
  /\ UNCHANGED faults

\* Send on a closed channel panics, a write to a closed database fails.
SendWebhook ==
  /\ faults' = IF queue = "closed" THEN faults \cup {"send"} ELSE faults
  /\ UNCHANGED rules

WriteDb ==
  /\ faults' = IF db = "closed" THEN faults \cup {"db"} ELSE faults
  /\ UNCHANGED rules

Work ==
  /\ ApplyRules \/ SendWebhook \/ WriteDb
  /\ UNCHANGED <<signal, start, sched, cancelled, listener, acceptor, spins, conn,
                 request, worker, stopCh, queue, db, stop>>

-----------------------------------------------------------------------------
(* main and daemon.Start.                                                  *)

\* WaitForSignal, then cancel().
Signal ==
  /\ ~signal
  /\ signal' = TRUE
  /\ UNCHANGED <<start, sched, cancelled, listener, acceptor, spins, conn, request,
                 worker, stopCh, queue, db, rules, stop, faults>>

\* The first discovery, the rows and the rules; then the scheduler, the API
\* and the socket are started.  A signal does not cut this short.
BootWork == start = "boot" /\ Work

BootEnd ==
  /\ start = "boot"
  /\ start' = "select"
  /\ sched' = "select"
  /\ \/ listener' = "open" /\ acceptor' = "accept"
     \/ UNCHANGED <<listener, acceptor>>     \* net.Listen failed
  /\ UNCHANGED <<signal, cancelled, spins, conn, request, worker, stopCh, queue, db,
                 rules, stop, faults>>

\* The main loop.  With a tick there, select may poll once more although ctx
\* is done.
PollBegin ==
  /\ start = "select"
  /\ start' = "poll"
  /\ UNCHANGED <<signal, sched, cancelled, listener, acceptor, spins, conn, request,
                 worker, stopCh, queue, db, rules, stop, faults>>

PollWork == start = "poll" /\ Work

PollEnd ==
  /\ start = "poll"
  /\ start' = "select"
  /\ UNCHANGED <<signal, sched, cancelled, listener, acceptor, spins, conn, request,
                 worker, stopCh, queue, db, rules, stop, faults>>

StartReturns ==
  /\ start = "select"
  /\ signal
  /\ start' = "returned"
  /\ UNCHANGED <<signal, sched, cancelled, listener, acceptor, spins, conn, request,
                 worker, stopCh, queue, db, rules, stop, faults>>

Start == BootEnd \/ PollBegin \/ PollEnd \/ StartReturns

-----------------------------------------------------------------------------
(* The scheduler: its jobs re-apply rules, send webhooks and write rows.   *)

JobBegin ==
  /\ sched = "select"
  /\ sched' = "job"
  /\ UNCHANGED <<signal, start, cancelled, listener, acceptor, spins, conn, request,
                 worker, stopCh, queue, db, rules, stop, faults>>

JobWork == sched = "job" /\ Work

JobEnd ==
  /\ sched = "job"
  /\ sched' = "select"
  /\ UNCHANGED <<signal, start, cancelled, listener, acceptor, spins, conn, request,
                 worker, stopCh, queue, db, rules, stop, faults>>

SchedReturns ==
  /\ sched = "select"
  /\ cancelled
  /\ sched' = "returned"
  /\ UNCHANGED <<signal, start, cancelled, listener, acceptor, spins, conn, request,
                 worker, stopCh, queue, db, rules, stop, faults>>

Sched == JobBegin \/ JobEnd \/ SchedReturns

-----------------------------------------------------------------------------
(* The Unix socket: the accept loop, and a goroutine per connection that   *)
(* nobody waits for.                                                       *)

Connect(c) ==
  /\ acceptor = "accept"
  /\ listener = "open"
  /\ conn[c] = "none"
  /\ conn' = [conn EXCEPT ![c] = "serving"]
  /\ UNCHANGED <<signal, start, sched, cancelled, listener, acceptor, spins, request,
                 worker, stopCh, queue, db, rules, stop, faults>>

\* Accept fails at once on a closed listener; only the channel that Stop
\* closes last ends the loop.
AcceptFails ==
  /\ acceptor = "accept"
  /\ listener = "closed"
  /\ IF stop = "done" THEN acceptor' = "returned" ELSE UNCHANGED acceptor
  /\ spins' = IF spins < MaxSpins THEN spins + 1 ELSE spins
  /\ UNCHANGED <<signal, start, sched, cancelled, listener, conn, request, worker,
                 stopCh, queue, db, rules, stop, faults>>

\* The command "reapply" installs rules; the others change nothing.
Reapply(c) ==
  /\ conn[c] = "serving"
  /\ stop # "done"
  /\ ApplyRules
  /\ UNCHANGED <<signal, start, sched, cancelled, listener, acceptor, spins, conn,
                 request, worker, stopCh, queue, db, stop>>

Respond(c) ==
  /\ conn[c] = "serving"
  /\ conn' = [conn EXCEPT ![c] = "done"]
  /\ UNCHANGED <<signal, start, sched, cancelled, listener, acceptor, spins, request,
                 worker, stopCh, queue, db, rules, stop, faults>>

-----------------------------------------------------------------------------
(* The API server: Shutdown waits for the requests under way.              *)

RequestBegin(r) ==
  /\ start \in {"select", "poll", "returned"}
  /\ Before(stop) <= Before("api")
  /\ request[r] = "none"
  /\ request' = [request EXCEPT ![r] = "serving"]
  /\ UNCHANGED <<signal, start, sched, cancelled, listener, acceptor, spins, conn,
                 worker, stopCh, queue, db, rules, stop, faults>>

RequestEnd(r) ==
  /\ request[r] = "serving"
  /\ request' = [request EXCEPT ![r] = "done"]
  /\ UNCHANGED <<signal, start, sched, cancelled, listener, acceptor, spins, conn,
                 worker, stopCh, queue, db, rules, stop, faults>>

WorkerReturns(w) ==
  /\ worker[w] = "running"
  /\ stopCh
  /\ worker' = [worker EXCEPT ![w] = "returned"]
  /\ UNCHANGED <<signal, start, sched, cancelled, listener, acceptor, spins, conn,
                 request, stopCh, queue, db, rules, stop, faults>>

-----------------------------------------------------------------------------
(* daemon.Stop, which main calls when Start has returned.                  *)

Advance(from, to) == stop = from /\ stop' = to

others == <<signal, start, sched, acceptor, spins, conn, request, worker>>

\* Mutant: main calls Stop without waiting for Start to return.
StopCalledEarly ==
  /\ signal
  /\ Advance("wait", "send")
  /\ UNCHANGED <<others, cancelled, listener, stopCh, queue, db, rules, faults>>

StopCalled ==
  /\ signal /\ start = "returned"
  /\ Advance("wait", "send")
  /\ UNCHANGED <<others, cancelled, listener, stopCh, queue, db, rules, faults>>

StopSend ==
  /\ Advance("send", "socket")
  /\ SendWebhook
  /\ UNCHANGED <<others, cancelled, listener, stopCh, queue, db>>

StopSocket ==
  /\ Advance("socket", "cancel")
  /\ listener' = IF listener = "open" THEN "closed" ELSE listener
  /\ UNCHANGED <<others, cancelled, stopCh, queue, db, rules, faults>>

StopCancel ==
  /\ Advance("cancel", "sched")
  /\ cancelled' = TRUE
  /\ UNCHANGED <<others, listener, stopCh, queue, db, rules, faults>>

\* Mutant: Scheduler.Stop does not wait for the job that runs.
StopSchedAtOnce ==
  /\ Advance("sched", "metrics")
  /\ UNCHANGED <<others, cancelled, listener, stopCh, queue, db, rules, faults>>

StopSched ==
  /\ sched = "returned"
  /\ Advance("sched", "metrics")
  /\ UNCHANGED <<others, cancelled, listener, stopCh, queue, db, rules, faults>>

\* Close drops the connections of the metrics server.
StopMetrics ==
  /\ Advance("metrics", "api")
  /\ UNCHANGED <<others, cancelled, listener, stopCh, queue, db, rules, faults>>

StopApi ==
  /\ \A r \in Requests : request[r] # "serving"
  /\ Advance("api", "tc")
  /\ UNCHANGED <<others, cancelled, listener, stopCh, queue, db, rules, faults>>

StopTc ==
  /\ Advance("tc", "webhook")
  /\ rules' = FALSE
  /\ UNCHANGED <<others, cancelled, listener, stopCh, queue, db, faults>>

\* Mutant: stopCh is not closed before the workers are waited for.
StopWebhookSilent ==
  /\ Advance("webhook", "workers")
  /\ UNCHANGED <<others, cancelled, listener, stopCh, queue, db, rules, faults>>

StopWebhook ==
  /\ Advance("webhook", "workers")
  /\ stopCh' = TRUE
  /\ UNCHANGED <<others, cancelled, listener, queue, db, rules, faults>>

StopWorkers ==
  /\ \A w \in Workers : worker[w] = "returned"
  /\ Advance("workers", "db")
  /\ queue' = "closed"
  /\ UNCHANGED <<others, cancelled, listener, stopCh, db, rules, faults>>

StopDb ==
  /\ Advance("db", "exit")
  /\ db' = "closed"
  /\ UNCHANGED <<others, cancelled, listener, stopCh, queue, rules, faults>>

\* The logger is closed, then Daemon.stopCh.
StopExit ==
  /\ Advance("exit", "done")
  /\ UNCHANGED <<others, cancelled, listener, stopCh, queue, db, rules, faults>>

Stop ==
  \/ StopCalled \/ StopSend \/ StopSocket \/ StopCancel \/ StopSched
  \/ StopMetrics \/ StopApi \/ StopTc \/ StopWebhook \/ StopWorkers
  \/ StopDb \/ StopExit

Next ==
  \/ Signal
  \/ Start \/ BootWork \/ PollWork
  \/ Sched \/ JobWork
  \/ \E c \in Conns : Connect(c) \/ Reapply(c) \/ Respond(c)
  \/ AcceptFails
  \/ \E r \in Requests : RequestBegin(r) \/ RequestEnd(r)
  \/ \E w \in Workers : WorkerReturns(w)
  \/ Stop

Spec == Init /\ [][Next]_vars

\* The goroutines are scheduled and their work ends; select does not pass
\* over a ready case for ever.
Fairness ==
  /\ WF_vars(Start) /\ SF_vars(StartReturns)
  /\ WF_vars(Sched) /\ SF_vars(SchedReturns)
  /\ \A w \in Workers : WF_vars(WorkerReturns(w))
  /\ WF_vars(Stop)

\* The clients of the API take their answers.
ClientFairness == \A r \in Requests : WF_vars(RequestEnd(r))

FairSpec == Spec /\ Fairness /\ ClientFairness

ImpatientSpec == Spec /\ Fairness

-----------------------------------------------------------------------------
(* Properties.                                                             *)

\* Stop closes nothing under the feet of a goroutine: the poll loop, the jobs
\* and Stop itself never send on the closed webhook queue, which would panic,
\* nor write to the closed database.
NothingUsedAfterClose == faults = {}

\* The rules RemoveAll took away are not put back by the poll loop or by a
\* job that was under way: only a socket handler can do that.
RulesStayRemoved ==
  [][Passed("tc") /\ ~rules /\ rules' =>
       \E c \in Conns : conn[c] = "serving"]_vars

\* A signal at any time ends the daemon, during the first discovery, in the
\* middle of a poll or of a job.
StopTerminates == signal ~> stop = "done"

-----------------------------------------------------------------------------
(* What comments and the documentation say and the code does not do.       *)

\* daemon.go:442 "Remove all tc rules": none is left when the daemon is gone.
NoRulesLeft == stop = "done" => ~rules

\* README.md:294 "No busy loops - ticker-based polling": a failing Accept is
\* not repeated over and over.
NoBusyLoop == spins < MaxSpins

\* CHANGELOG.md:45 "Systemd integration with graceful shutdown": the daemon
\* also stops when a client of the API does not take its answer.
StopNeedsNoClient == signal ~> stop = "done"
=============================================================================
