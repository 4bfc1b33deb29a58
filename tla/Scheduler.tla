------------------------------ MODULE Scheduler ------------------------------
(***************************************************************************)
(* internal/scheduler/scheduler.go: one goroutine runs every job that is   *)
(* due, one after the other, at each tick of its ticker.                   *)
(*                                                                         *)
(* Time is kept as ages, none above MaxAge, so that it can go on for ever: *)
(* what happened MaxAge units ago or longer is just old.                   *)
(***************************************************************************)
EXTENDS Naturals

CONSTANTS
  Jobs,           \* the registered jobs
  Interval,       \* ScheduledJob.Interval
  CheckInterval,  \* Scheduler.checkInterval
  MaxAge,         \* bound: the age at which times are no longer told apart
  None            \* no job

ASSUME SchedulerAssumption ==
  /\ Interval \in [Jobs -> Nat]
  /\ CheckInterval \in Nat \ {0}
  /\ MaxAge \in Nat
  /\ \A j \in Jobs : Interval[j] <= MaxAge
  /\ None \notin Jobs

VARIABLES
  loop,       \* the goroutine: in its select, in tick, in a job, returned
  todo,       \* the due jobs that tick has not run yet
  running,    \* the job whose Fn runs
  age,        \* time since LastRun
  fresh,      \* the jobs whose LastRun is the zero time
  tickAge,    \* time since the `now` of the current tick
  phase,      \* time since the ticker last fired
  ticked,     \* the ticker's channel, of capacity 1, holds a tick
  cancelled,  \* Stop has cancelled ctx
  stopped     \* Stop has returned

vars == <<loop, todo, running, age, fresh, tickAge, phase, ticked, cancelled, stopped>>

TypeOK ==
  /\ loop \in {"select", "tick", "job", "returned"}
  /\ todo \in SUBSET Jobs
  /\ running \in Jobs \cup {None}
  /\ age \in [Jobs -> 0..MaxAge]
  /\ fresh \in SUBSET Jobs
  /\ tickAge \in 0..MaxAge
  /\ phase \in 0..CheckInterval - 1
  /\ {ticked, cancelled, stopped} \subseteq BOOLEAN

Init ==
  /\ loop = "select"
  /\ todo = {}
  /\ running = None
  /\ age = [j \in Jobs |-> 0]
  /\ fresh = Jobs
  /\ tickAge = 0
  /\ phase = 0
  /\ ticked = FALSE
  /\ cancelled = FALSE
  /\ stopped = FALSE

-----------------------------------------------------------------------------
(* The goroutine of Start, and tick.                                       *)

\* Mutant: a job that has never run counts as just run.
DueLater(j) == j \notin fresh /\ age[j] >= Interval[j]

\* A job is due when it has never run, or not for its interval.
Due(j) == j \in fresh \/ age[j] >= Interval[j]

\* When ctx is done and a tick is there, select picks either.  tick reads the
\* clock once, and only tick sets LastRun: what is due is settled here.
TickBegin ==
  /\ loop = "select"
  /\ ticked
  /\ loop' = "tick"
  /\ todo' = {j \in Jobs : Due(j)}
  /\ tickAge' = 0
  /\ ticked' = FALSE
  /\ UNCHANGED <<running, age, fresh, phase, cancelled, stopped>>

JobBegin(j) ==
  /\ loop = "tick"
  /\ j \in todo
  /\ loop' = "job"
  /\ todo' = todo \ {j}
  /\ running' = j
  /\ UNCHANGED <<age, fresh, tickAge, phase, ticked, cancelled, stopped>>

\* An error is only logged; LastRun becomes the `now` of the tick.
JobEnd ==
  /\ loop = "job"
  /\ loop' = "tick"
  /\ running' = None
  /\ age' = [age EXCEPT ![running] = tickAge]
  /\ fresh' = fresh \ {running}
  /\ UNCHANGED <<todo, tickAge, phase, ticked, cancelled, stopped>>

TickEnd ==
  /\ loop = "tick"
  /\ todo = {}
  /\ loop' = "select"
  /\ UNCHANGED <<todo, running, age, fresh, tickAge, phase, ticked, cancelled, stopped>>

\* Mutant: the cancellation is only seen when no tick is waiting.
ReturnIdle ==
  /\ loop = "select"
  /\ cancelled
  /\ ~ticked
  /\ loop' = "returned"
  /\ UNCHANGED <<todo, running, age, fresh, tickAge, phase, ticked, cancelled, stopped>>

Return ==
  /\ loop = "select"
  /\ cancelled
  /\ loop' = "returned"
  /\ UNCHANGED <<todo, running, age, fresh, tickAge, phase, ticked, cancelled, stopped>>

Loop ==
  \/ TickBegin \/ JobEnd \/ TickEnd \/ Return
  \/ \E j \in Jobs : JobBegin(j)

-----------------------------------------------------------------------------
(* Stop, and the clock.                                                    *)

StopBegin ==
  /\ ~cancelled
  /\ cancelled' = TRUE
  /\ UNCHANGED <<loop, todo, running, age, fresh, tickAge, phase, ticked, stopped>>

\* Mutant: Stop does not wait.
StopEndAtOnce ==
  /\ cancelled
  /\ ~stopped
  /\ stopped' = TRUE
  /\ UNCHANGED <<loop, todo, running, age, fresh, tickAge, phase, ticked, cancelled>>

\* wg.Wait
StopEnd ==
  /\ cancelled
  /\ ~stopped
  /\ loop = "returned"
  /\ stopped' = TRUE
  /\ UNCHANGED <<loop, todo, running, age, fresh, tickAge, phase, ticked, cancelled>>

Older(a) == IF a = MaxAge THEN a ELSE a + 1

\* A ticker whose channel is full drops the tick.
Clock ==
  /\ loop # "returned"
  /\ age' = [j \in Jobs |-> Older(age[j])]
  /\ tickAge' = Older(tickAge)
  /\ phase' = (phase + 1) % CheckInterval
  /\ ticked' = (ticked \/ phase' = 0)
  /\ UNCHANGED <<loop, todo, running, fresh, cancelled, stopped>>

Next == Loop \/ StopBegin \/ StopEnd \/ Clock

Spec == Init /\ [][Next]_vars

\* Jobs return and time passes.  A select with two ready cases picks one at
\* random, so ctx.Done is not passed over for ever: strong fairness.
Fairness == WF_vars(Loop) /\ SF_vars(Return) /\ WF_vars(StopEnd) /\ WF_vars(Clock)

FairSpec == Spec /\ Fairness

-----------------------------------------------------------------------------
(* Properties.                                                             *)

\* scheduler.go:107 "Stop gracefully stops the scheduler, waiting for running
\* jobs to finish": when Stop has returned no job runs and none will begin,
\* even if ticks and the cancellation raced for the goroutine.
NoJobAfterStop ==
  [][stopped => running = None /\ running' = None]_vars

\* No job starves: every one runs again and again until Stop, however long
\* the others take and whatever ticks are dropped meanwhile.
JobsAreServed == \A j \in Jobs : []<>(running = j) \/ <>cancelled

\* Stop returns, also when every job outlasts the ticker.
StopReturns == cancelled ~> stopped
=============================================================================
