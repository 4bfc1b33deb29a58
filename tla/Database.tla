------------------------------ MODULE Database ------------------------------
(***************************************************************************)
(* internal/database and internal/cleanup: the rows of the containers,     *)
(* their usage samples, and what the poll loop, the scheduler's jobs, the  *)
(* pool of connections and restarts of the daemon do to them.              *)
(*                                                                         *)
(* A timestamp is its age in hours, at most MaxAge.  An execution of one   *)
(* SQL statement holds DB.mu and is one step.  Usage is counted in units,  *)
(* at most MaxUsage a day.                                                 *)
(***************************************************************************)
EXTENDS Integers

CONSTANTS
  Containers,
  Disabled,     \* those labelled bandwidth.enabled=false
  MaxConns,     \* max_open_conns
  StaleHours,   \* stale_container_hours; 0: never delete
  KeepHours,    \* the 30 days of cleanup.go
  Offset,       \* hours the local time is ahead of UTC
  MaxUsage,     \* bound: units of traffic of a day
  MaxAge        \* bound: ages from here on are not told apart

ASSUME DatabaseAssumption ==
  /\ Disabled \subseteq Containers
  /\ MaxConns \in Nat \ {0}
  /\ StaleHours \in Nat /\ KeepHours \in Nat /\ Offset \in Int
  /\ MaxUsage \in Nat
  /\ MaxAge \in Nat /\ MaxAge > KeepHours /\ MaxAge > StaleHours + Offset

VARIABLES
  up,         \* containers docker has running
  paused,     \* those of them that are paused
  answers,    \* does docker answer
  running,    \* is the daemon
  discovery,  \* Daemon.discovery is not nil
  listed,     \* keys of Discovery.containers
  today,      \* Container.Today* of the listed objects
  state,      \* Container.State of the listed objects
  poll,       \* where the poll loop is, with the object it holds
  job,        \* what the goroutine of the scheduler, or Start, is at
  todo,       \* containers still to be upserted
  recorded,   \* hours since a discovery was last recorded for the container
  rows,       \* ids in the table containers
  seen,       \* ages of containers.last_seen
  stored,     \* containers.today_*
  samples     \* table usage: the ages of each container's samples

environment == <<up, paused, answers>>
memory == <<listed, today, state>>
tables == <<rows, seen, stored, samples>>
vars == <<environment, running, discovery, memory, poll, job, todo, recorded, tables>>

Ages == 0..MaxAge
Usage == 0..MaxUsage
Jobs == {"boot", "idle", "upsert", "reset", "usage"}
Idle == [at |-> "idle"]
States == {"running", "exceeded", "stopped"}   \* "stopped" for "paused" too

TypeOK ==
  /\ up \subseteq Containers /\ paused \subseteq up
  /\ answers \in BOOLEAN /\ running \in BOOLEAN
  /\ discovery \in BOOLEAN
  /\ listed \subseteq Containers
  /\ today \in [Containers -> Usage] /\ state \in [Containers -> States]
  /\ poll \in {Idle} \cup [at : {"insert"}, id : Containers, usage : Usage, current : BOOLEAN]
               \cup [at : {"update"}, id : Containers, usage : Usage]
  /\ job \in Jobs
  /\ todo \subseteq Containers
  /\ recorded \in [Containers -> Ages]
  /\ rows \subseteq Containers
  /\ seen \in [Containers -> Ages]
  /\ stored \in [Containers -> Usage]
  /\ samples \in [Containers -> SUBSET Ages]

\* A new installation, before the service starts.
Init ==
  /\ up = {} /\ paused = {} /\ answers = TRUE
  /\ running = FALSE /\ discovery = FALSE
  /\ listed = {} /\ today = [c \in Containers |-> 0]
  /\ state = [c \in Containers |-> "running"]
  /\ poll = Idle
  /\ job = "idle" /\ todo = {}
  /\ recorded = [c \in Containers |-> MaxAge]
  /\ rows = {}
  /\ seen = [c \in Containers |-> 0]
  /\ stored = [c \in Containers |-> 0]
  /\ samples = [c \in Containers |-> {}]

-----------------------------------------------------------------------------
(* The connections.  foreign_keys=ON is set on the first one only.  The    *)
(* pool opens another when Ping, which takes no lock, meets a statement,   *)
(* and a statement runs on either.                                         *)

Enforcing == IF MaxConns > 1 THEN BOOLEAN ELSE {TRUE}

-----------------------------------------------------------------------------
(* Start and discovery.                                                    *)

\* dockerStateToModel.
Inspected(c) == IF c \in paused THEN "stopped" ELSE "running"

\* The objects of a discovery are new, and replace those of the map; a poll
\* under way goes on with the old one.  With no container up the map stays.
Discover ==
  /\ IF up = {}
       THEN UNCHANGED memory
       ELSE /\ listed' = up
            /\ today' = [c \in Containers |-> 0]
            /\ state' = [c \in Containers |-> Inspected(c)]
  /\ todo' = up
  /\ poll' = IF poll.at = "insert" /\ up # {} THEN [poll EXCEPT !.current = FALSE] ELSE poll

\* New and Start: the tables are created if they do not exist, and nothing
\* is read from them; without docker there is no discovery from then on.
Boot ==
  /\ ~running
  /\ running' = TRUE
  /\ discovery' = answers
  /\ \/ answers /\ Discover
     \/ UNCHANGED <<memory, todo, poll>>
  /\ job' = "boot"
  /\ UNCHANGED <<environment, recorded, tables>>

\* The first discovery is over: the scheduler and the poll loop begin.
BootEnd ==
  /\ job = "boot" /\ todo = {}
  /\ job' = "idle"
  /\ UNCHANGED <<environment, running, discovery, memory, poll, todo, recorded, tables>>

DiscoveryJob ==
  /\ running /\ job = "idle"
  /\ discovery /\ answers
  /\ Discover
  /\ job' = "upsert"
  /\ UNCHANGED <<environment, running, discovery, recorded, tables>>

DiscoveryEnd ==
  /\ job = "upsert" /\ todo = {}
  /\ job' = "idle"
  /\ UNCHANGED <<environment, running, discovery, memory, poll, todo, recorded, tables>>

\* Mutant: INSERT OR IGNORE instead of the upsert.
InsertContainer(c) ==
  /\ job \in {"boot", "upsert"} /\ c \in todo
  /\ todo' = todo \ {c}
  /\ rows' = rows \cup {c}
  /\ recorded' = [recorded EXCEPT ![c] = 0]
  /\ UNCHANGED <<environment, running, discovery, memory, poll, job, seen, stored, samples>>

\* Mutant: INSERT OR REPLACE, which deletes the old row first.
ReplaceContainer(c) ==
  /\ job \in {"boot", "upsert"} /\ c \in todo
  /\ todo' = todo \ {c}
  /\ rows' = rows \cup {c}
  /\ seen' = [seen EXCEPT ![c] = 0]
  /\ stored' = [stored EXCEPT ![c] = today[c]]
  /\ samples' = [samples EXCEPT ![c] = {}]
  /\ recorded' = [recorded EXCEPT ![c] = 0]
  /\ UNCHANGED <<environment, running, discovery, memory, poll, job>>

UpsertContainer(c) ==
  /\ job \in {"boot", "upsert"} /\ c \in todo
  /\ todo' = todo \ {c}
  /\ rows' = rows \cup {c}
  /\ seen' = [seen EXCEPT ![c] = 0]
  /\ stored' = [stored EXCEPT ![c] = today[c]]
  /\ recorded' = [recorded EXCEPT ![c] = 0]
  /\ UNCHANGED <<environment, running, discovery, memory, poll, job, samples>>

\* The watcher puts a new object for a container that starts or goes on
\* after a pause, with no row until the next discovery.
EventStart(c) ==
  /\ running /\ discovery /\ answers
  /\ c \in up
  /\ listed' = listed \cup {c}
  /\ today' = [today EXCEPT ![c] = 0]
  /\ state' = [state EXCEPT ![c] = Inspected(c)]
  /\ poll' = IF poll.at = "insert" /\ poll.id = c THEN [poll EXCEPT !.current = FALSE] ELSE poll
  /\ UNCHANGED <<environment, running, discovery, job, todo, recorded, tables>>

\* The events die and pause.  One that comes late is followed by that of the
\* start, with another object.
EventStop(c) ==
  /\ running /\ discovery /\ answers
  /\ c \in listed /\ c \notin up \ paused
  /\ state' = [state EXCEPT ![c] = "stopped"]
  /\ UNCHANGED <<environment, running, discovery, listed, today, poll, job, todo, recorded, tables>>

-----------------------------------------------------------------------------
(* The poll loop.  Collect fails for a container that is not up.           *)

\* An object in another state and a disabled container are passed over.  The
\* usage may be over the quota: the object is throttled then.
PollCollect(c) ==
  /\ running /\ job # "boot" /\ poll = Idle
  /\ c \in (listed \cap up) \ Disabled
  /\ state[c] = "running"
  /\ \E usage \in {today[c], today[c] + 1} \cap Usage :
       /\ today' = [today EXCEPT ![c] = usage]
       /\ poll' = [at |-> "insert", id |-> c, usage |-> usage, current |-> TRUE]
  /\ \E new \in {"running", "exceeded"} : state' = [state EXCEPT ![c] = new]
  /\ UNCHANGED <<environment, running, discovery, listed, job, todo, recorded, tables>>

\* The foreign key refuses a sample without a row; the error is dropped.
\* The arguments of the update are read when this is done.
InsertUsage ==
  /\ poll.at = "insert"
  /\ \E enforced \in Enforcing :
       IF poll.id \in rows \/ ~enforced
         THEN samples' = [samples EXCEPT ![poll.id] = @ \cup {0}]
         ELSE UNCHANGED samples
  /\ poll' = [at |-> "update", id |-> poll.id, usage |-> poll.usage]
  /\ UNCHANGED <<environment, running, discovery, memory, job, todo, recorded, rows, seen, stored>>

\* Mutant: the row adds up what is a total already.
AddContainerUsage ==
  /\ poll.at = "update"
  /\ IF poll.id \in rows
       THEN stored' = [stored EXCEPT ![poll.id] = @ + poll.usage]
       ELSE UNCHANGED stored
  /\ poll' = Idle
  /\ UNCHANGED <<environment, running, discovery, memory, job, todo, recorded, rows, seen, samples>>

UpdateContainerUsage ==
  /\ poll.at = "update"
  /\ IF poll.id \in rows
       THEN stored' = [stored EXCEPT ![poll.id] = poll.usage]
       ELSE UNCHANGED stored
  /\ poll' = Idle
  /\ UNCHANGED <<environment, running, discovery, memory, job, todo, recorded, rows, seen, samples>>

-----------------------------------------------------------------------------
(* The quota-reset job: first the objects, then the rows.                  *)

ResetDaily ==
  /\ running /\ job = "idle"
  /\ today' = [c \in Containers |-> 0]
  /\ state' = [c \in Containers |-> IF state[c] = "exceeded" THEN "running" ELSE state[c]]
  /\ poll' = IF poll.at = "insert" /\ poll.current /\ poll.id \in listed
               THEN [poll EXCEPT !.usage = 0] ELSE poll
  /\ job' = "reset"
  /\ UNCHANGED <<environment, running, discovery, listed, todo, recorded, tables>>

ResetDailyUsage ==
  /\ job = "reset"
  /\ stored' = [c \in Containers |-> 0]
  /\ job' = "idle"
  /\ UNCHANGED <<environment, running, discovery, memory, poll, todo, recorded, rows, seen, samples>>

-----------------------------------------------------------------------------
(* The cleanup job: stale rows, then old samples; with StaleHours = 0      *)
(* neither.                                                                *)

\* Mutant: the comparison the wrong way round.
StaleReversed(c) == c \in rows /\ seen[c] < StaleHours

\* last_seen < cutoff as strings: last_seen has the local offset, the cutoff
\* a Z.  The clock readings are compared; when they are equal, the sign of
\* an offset sorts before the Z.
Stale(c) ==
  /\ c \in rows
  /\ IF Offset = 0 THEN seen[c] > StaleHours ELSE seen[c] >= StaleHours + Offset

\* Run; its repair of the rules and VACUUM do not touch the tables.
CleanupBegins == running /\ job = "idle" /\ StaleHours > 0

\* Mutant: the table usage without ON DELETE CASCADE.
CleanupWithoutCascade ==
  /\ CleanupBegins
  /\ LET gone == {c \in Containers : Stale(c)}
     IN  /\ rows' = rows \ gone
         /\ seen' = [c \in Containers |-> IF c \in gone THEN 0 ELSE seen[c]]
         /\ stored' = [c \in Containers |-> IF c \in gone THEN 0 ELSE stored[c]]
  /\ job' = "usage"
  /\ UNCHANGED <<environment, running, discovery, memory, poll, todo, recorded, samples>>

CleanupStaleContainers ==
  /\ CleanupBegins
  /\ LET gone == {c \in Containers : Stale(c)}
     IN  /\ rows' = rows \ gone
         /\ seen' = [c \in Containers |-> IF c \in gone THEN 0 ELSE seen[c]]
         /\ stored' = [c \in Containers |-> IF c \in gone THEN 0 ELSE stored[c]]
         /\ \E enforced \in Enforcing :
              samples' = [c \in Containers |->
                            IF c \in gone /\ enforced THEN {} ELSE samples[c]]
  /\ job' = "usage"
  /\ UNCHANGED <<environment, running, discovery, memory, poll, todo, recorded>>

\* Mutant: no sample is old enough.
CleanupNothing ==
  /\ job = "usage"
  /\ samples' = [c \in Containers |-> {age \in samples[c] : age <= MaxAge}]
  /\ job' = "idle"
  /\ UNCHANGED <<environment, running, discovery, memory, poll, todo, recorded, rows, seen, stored>>

CleanupOldUsage ==
  /\ job = "usage"
  /\ samples' = [c \in Containers |-> {age \in samples[c] : age <= KeepHours}]
  /\ job' = "idle"
  /\ UNCHANGED <<environment, running, discovery, memory, poll, todo, recorded, rows, seen, stored>>

-----------------------------------------------------------------------------
(* The world: containers, docker, time, and the end of the process.        *)

ContainerStarts(c) ==
  /\ answers /\ c \notin up
  /\ up' = up \cup {c}
  /\ UNCHANGED <<paused, answers, running, discovery, memory, poll, job, todo, recorded, tables>>

ContainerStops(c) ==
  /\ c \in up
  /\ up' = up \ {c} /\ paused' = paused \ {c}
  /\ UNCHANGED <<answers, running, discovery, memory, poll, job, todo, recorded, tables>>

ContainerPauses(c) ==
  /\ answers /\ c \in up
  /\ paused' = IF c \in paused THEN paused \ {c} ELSE paused \cup {c}
  /\ UNCHANGED <<up, answers, running, discovery, memory, poll, job, todo, recorded, tables>>

\* Containers may live on while the engine is down.
Engine ==
  /\ answers' = ~answers
  /\ UNCHANGED <<up, paused, running, discovery, memory, poll, job, todo, recorded, tables>>

Older(age) == IF age < MaxAge THEN age + 1 ELSE age

\* Discovery runs every few seconds: while it can, an hour does not pass
\* without a scan.  Jobs are short.
Hour ==
  /\ job = "idle"
  /\ running /\ discovery /\ answers => \A c \in up : recorded[c] = 0
  /\ recorded' = [c \in Containers |-> Older(recorded[c])]
  /\ seen' = [c \in Containers |-> IF c \in rows THEN Older(seen[c]) ELSE 0]
  /\ samples' = [c \in Containers |-> {Older(age) : age \in samples[c]}]
  /\ UNCHANGED <<environment, running, discovery, memory, poll, job, todo, rows, stored>>

\* The process dies or is stopped; the statements are transactions of their
\* own, so the tables stay as they are.
Crash ==
  /\ running
  /\ running' = FALSE /\ discovery' = FALSE
  /\ listed' = {} /\ today' = [c \in Containers |-> 0]
  /\ state' = [c \in Containers |-> "running"]
  /\ poll' = Idle
  /\ job' = "idle" /\ todo' = {}
  /\ UNCHANGED <<environment, recorded, tables>>

Poll == (\E c \in Containers : PollCollect(c)) \/ InsertUsage \/ UpdateContainerUsage

JobStep ==
  \/ \E c \in Containers : UpsertContainer(c)
  \/ BootEnd \/ DiscoveryEnd \/ ResetDailyUsage \/ CleanupOldUsage

Next ==
  \/ Boot \/ Crash
  \/ DiscoveryJob \/ ResetDaily \/ CleanupStaleContainers
  \/ JobStep
  \/ Poll
  \/ \E c \in Containers : EventStart(c) \/ EventStop(c)
  \/ \E c \in Containers : ContainerStarts(c) \/ ContainerStops(c) \/ ContainerPauses(c)
  \/ Engine
  \/ Hour

Spec == Init /\ [][Next]_vars

\* systemd starts the daemon again.  Jobs begun are carried on; discovery
\* and cleanup come round although other jobs share their goroutine
\* (JobsAreServed of Scheduler), and each listed container has its turn.
Fairness ==
  /\ WF_vars(Boot)
  /\ WF_vars(JobStep)
  /\ SF_vars(DiscoveryJob)
  /\ SF_vars(CleanupStaleContainers)
  /\ WF_vars(InsertUsage \/ UpdateContainerUsage)
  /\ \A c \in Containers : SF_vars(PollCollect(c))

FairSpec == Spec /\ Fairness

-----------------------------------------------------------------------------
(* Properties.                                                             *)

\* Every sample belongs to a row, although the poll loop inserts samples
\* while the cleanup deletes rows, and although the two are in different
\* statements with no transaction around them.
SamplesHaveRows == \A c \in Containers : samples[c] # {} => c \in rows

\* A row goes only when no discovery was recorded for the container within
\* StaleHours, whatever restarts, engine outages and events came between.
OnlyStaleRowsGo ==
  [][\A c \in rows \ rows' : recorded[c] > StaleHours]_vars

\* A sample goes only when it is too old, or with the row of a container
\* that is stale: no restart and no upsert takes one away.
SamplesAreKept ==
  [][\A c \in Containers :
       (\E age \in samples[c] : age <= KeepHours /\ age \notin samples'[c]
                                 /\ age + 1 \notin samples'[c])
         => c \notin rows']_vars

\* Old samples do not stay, whatever the poll loop adds and however often
\* docker fails.
OldSamplesGo ==
  \A c \in Containers :
    (\E age \in samples[c] : age > KeepHours)
      ~> (~running \/ \A age \in samples[c] : age <= KeepHours)

\* A container that stays up is sampled again and again, over its quota too:
\* discovery puts a row back before the samples need it and an object in the
\* state running, and cleanup leaves the row alone.
SamplingGoesOn ==
  \A c \in Containers \ Disabled :
    <>[](running /\ discovery /\ answers /\ c \in up \ paused) => []<>(0 \in samples[c])

-----------------------------------------------------------------------------
(* What the documentation says and the code does not do.                   *)

\* README.md:28 "Survives Docker daemon restarts, crashes, and reboots": the
\* usage of the day that the table holds is there again after a restart.
RestartKeepsUsage ==
  [][~running /\ running' => \A c \in listed' \cap rows : today'[c] = stored[c]]_vars
=============================================================================
