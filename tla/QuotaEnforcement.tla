-------------------------- MODULE QuotaEnforcement --------------------------
(***************************************************************************)
(* The heart of bandwidthd: the container objects, and the goroutines that *)
(* change them without a common lock.                                      *)
(*                                                                         *)
(*   - the main goroutine polls: it collects traffic, checks the quota and *)
(*     throttles (daemon.poll, monitor.Collect, quota.CheckQuota);         *)
(*   - the scheduler goroutine runs the discovery job, which replaces the  *)
(*     objects, and the quota-reset job (daemon.Start);                    *)
(*   - the docker event watcher replaces, stops and deletes objects;       *)
(*   - a socket handler re-applies the limits (daemon.reapply).            *)
(*                                                                         *)
(* Discovery.ListContainers hands out POINTERS, so a goroutine may work on *)
(* an object that the map has meanwhile replaced: the heap of objects is   *)
(* explicit here, and every access to a field of an object that another    *)
(* goroutine may also touch is a step of its own.                          *)
(*                                                                         *)
(* A behaviour starts where daemon.Start enters its loop.  The tc Manager  *)
(* is reduced to the class it leaves on the veth of each container (see    *)
(* TrafficControl for the policer, and for what becomes of both when       *)
(* commands fail), a discovery to one step (see DockerDiscovery).  What    *)
(* the goroutines write to the database is left to Database.               *)
(***************************************************************************)
EXTENDS Integers, Sequences, FiniteSets

CONSTANTS
  Containers,    \* container IDs
  Initial,       \* those running when the daemon starts
  Disabled,      \* those with the label bandwidth.enabled=false
  Labelled,      \* those whose speed and quota are given by labels
  Quota,         \* the daily quota, in units of traffic
  TcCanFail,     \* may a tc command fail on an existing interface?
  ZoneLoads,     \* does time.LoadLocation know the configured time zone?
  MaxObjects,    \* bound: objects ever created
  MaxTraffic,    \* bound: traffic of a container, in units
  MaxDay,        \* bound: the last day
  MaxVeth        \* bound: veths a container gets one after the other

ASSUME ConstantsAssumption ==
  /\ Initial \subseteq Containers
  /\ Disabled \subseteq Containers
  /\ Labelled \subseteq Containers
  /\ IsFiniteSet(Containers)
  /\ Quota \in Nat \ {0}
  /\ TcCanFail \in BOOLEAN
  /\ ZoneLoads \in BOOLEAN
  /\ {MaxObjects, MaxTraffic} \subseteq Nat
  /\ {MaxDay, MaxVeth} \subseteq Nat \ {0}
  /\ Cardinality(Initial) <= MaxObjects

VARIABLES
  heap,      \* every models.Container ever allocated
  map,       \* Discovery.containers: the current object of an ID (0: none)
  docker,    \* what docker says of each container
  event,     \* the event of a container that the watcher has not handled
  veth,      \* the number of the current veth of each container
  counter,   \* its traffic counter (/sys/class/net/.../statistics)
  prev,      \* Monitor.prev: the counter at the last Collect
  shaping,   \* the limit tc enforces on the current veth
  failed,    \* history: containers whose last ApplyLimit on that veth failed
  poll,      \* the main goroutine
  job,       \* the scheduler goroutine
  socket,    \* the socket handler that runs reapply
  day,       \* the calendar day
  lastReset, \* quota.Manager.lastReset, as a day (0: the zero time)
  total,     \* history: traffic of the container since the start
  recorded,  \* history: traffic collected since the last reset
  notices    \* history: quota_exceeded webhooks sent, per object, since its
             \* last reset (-1: one that was under way then is still to come)

kernel == <<docker, event, veth, counter>>
clock == <<day, lastReset>>
history == <<total, recorded, notices>>
vars == <<heap, map, kernel, prev, shaping, failed, poll, job, socket, clock, history>>

Objects == 1..MaxObjects

NoObject == 0

Speeds == {"none", "full", "fallback", "throttle"}

Object == [id : Containers, state : {"running", "stopped", "exceeded"},
           today : 0..MaxTraffic, configured : BOOLEAN, veth : 1..MaxVeth]

Unread == MaxTraffic + 1

\* A numbering of the set S: the order in which its objects are allocated.
Numbering(S) == CHOOSE f \in [S -> 1..Cardinality(S)] :
                  \A c, d \in S : c # d => f[c] # f[d]

TypeOK ==
  /\ heap \in Seq(Object) /\ Len(heap) <= MaxObjects
  /\ map \in [Containers -> 0..Len(heap)]
  /\ docker \in [Containers -> {"running", "paused", "gone"}]
  /\ event \in [Containers -> {"none", "start", "die", "destroy"}]
  /\ veth \in [Containers -> 1..MaxVeth]
  /\ counter \in [Containers -> 0..MaxTraffic]
  /\ prev \in [Containers -> 0..MaxTraffic + 1]
  /\ shaping \in [Containers -> Speeds]
  /\ failed \in SUBSET Containers
  /\ poll \in [pc : {"idle", "next", "store", "check", "throttle", "apply"},
               todo : SUBSET Objects, cur : 0..MaxObjects,
               load : 0..MaxTraffic, delta : 0..MaxTraffic]
  /\ job \in [pc : {"idle", "reset", "apply"}, todo : SUBSET Objects,
              list : SUBSET Objects]
  /\ socket \in [pc : {"idle", "apply"}, todo : SUBSET Objects]
  /\ day \in 1..MaxDay
  /\ lastReset \in 0..MaxDay
  /\ total \in [Containers -> 0..MaxTraffic]
  /\ recorded \in [Containers -> 0..MaxTraffic]
  /\ notices \in [Objects -> Int]

-----------------------------------------------------------------------------
(* The objects.                                                            *)

Listed == {map[c] : c \in Containers} \ {NoObject}

Enabled(o) == heap[o].id \notin Disabled

\* inspectContainer: a fresh object, with the state docker reports, no usage
\* and no speeds but those of the labels.
Inspected(c) ==
  [id |-> c,
   state |-> IF docker[c] = "running" THEN "running" ELSE "stopped",
   today |-> 0,
   configured |-> c \in Labelled,
   veth |-> veth[c]]

\* CheckQuota.  A container without a quota is unlimited.
Exceeded(o) == heap[o].configured /\ heap[o].today >= Quota

\* What ApplyLimit asks tc for.
Speed(o) ==
  IF heap[o].state = "exceeded" THEN "throttle"
  ELSE IF heap[o].configured THEN "full" ELSE "fallback"

\* The veth the object knows still exists.
Attached(o) ==
  /\ heap[o].veth = veth[heap[o].id]
  /\ docker[heap[o].id] # "gone"

\* tcMgr.ApplyLimit.  A call that fails has deleted the earlier limit, or has
\* left it where it was: the deletions may fail too.  Without the veth every
\* command fails.
ApplyLimit(o, ok) ==
  LET c == heap[o].id IN
  /\ ok \/ TcCanFail \/ ~Attached(o)
  /\ ok => Attached(o)
  /\ IF Attached(o)
     THEN /\ \E s \in IF ok THEN {Speed(o)} ELSE {"none", shaping[c]} :
               shaping' = [shaping EXCEPT ![c] = s]
          /\ failed' = IF ok THEN failed \ {c} ELSE failed \cup {c}
     ELSE UNCHANGED <<shaping, failed>>

\* daemon.Start 223-290: the containers found first get the defaults of the
\* configuration and, when enabled, their limit.
Init ==
  /\ heap = [o \in 1..Cardinality(Initial) |->
               [id |-> CHOOSE c \in Initial : Numbering(Initial)[c] = o, state |-> "running",
                today |-> 0, configured |-> TRUE, veth |-> 1]]
  /\ map = [c \in Containers |-> IF c \in Initial THEN Numbering(Initial)[c] ELSE NoObject]
  /\ docker = [c \in Containers |-> IF c \in Initial THEN "running" ELSE "gone"]
  /\ event = [c \in Containers |-> "none"]
  /\ veth = [c \in Containers |-> 1]
  /\ counter = [c \in Containers |-> 0]
  /\ prev = [c \in Containers |-> Unread]
  /\ shaping = [c \in Containers |->
                  IF c \in Initial \ Disabled THEN "full" ELSE "none"]
  /\ failed = {}
  /\ poll = [pc |-> "idle", todo |-> {}, cur |-> NoObject, load |-> 0, delta |-> 0]
  /\ job = [pc |-> "idle", todo |-> {}, list |-> {}]
  /\ socket = [pc |-> "idle", todo |-> {}]
  /\ day = 1
  /\ lastReset = 0
  /\ total = [c \in Containers |-> 0]
  /\ recorded = [c \in Containers |-> 0]
  /\ notices = [o \in Objects |-> 0]

-----------------------------------------------------------------------------
(* The main goroutine: daemon.poll.                                        *)

PollStart ==
  /\ poll.pc = "idle"
  /\ poll' = [poll EXCEPT !.pc = "next", !.todo = Listed]
  /\ UNCHANGED <<heap, map, kernel, prev, shaping, failed, job, socket, clock,
                 history>>

\* Only running, enabled containers are polled; Collect fails when the veth
\* is gone.
Polled(o) == heap[o].state = "running" /\ Enabled(o) /\ Attached(o)

PollSkip ==
  \E o \in poll.todo :
    /\ poll.pc = "next"
    /\ ~Polled(o)
    /\ poll' = [poll EXCEPT !.todo = @ \ {o}]
    /\ UNCHANGED <<heap, map, kernel, prev, shaping, failed, job, socket, clock,
                   history>>

\* Mutant: a counter that went back to zero is not noticed.
FirstReadingEver(c) == prev[c] = Unread

\* Collect, under Monitor.mu: the traffic since the previous reading, and the
\* new reading.  A first reading, or one below the previous (a new veth), is
\* a fresh sample and counts nothing.
FirstReading(c) == prev[c] = Unread \/ counter[c] < prev[c]

\* Mutant: the counter itself is added.
DeltaTotal(c) == counter[c]

Delta(c) == IF FirstReading(c) THEN 0 ELSE counter[c] - prev[c]

\* Collect reads the counter and, for its +=, the usage field ...
PollCollect ==
  \E o \in poll.todo :
    LET c == heap[o].id IN
    /\ poll.pc = "next"
    /\ Polled(o)
    /\ poll' = [pc |-> "store", todo |-> poll.todo \ {o}, cur |-> o,
                load |-> heap[o].today, delta |-> Delta(c)]
    /\ prev' = [prev EXCEPT ![c] = counter[c]]
    /\ UNCHANGED <<heap, map, kernel, shaping, failed, job, socket, clock, history>>

\* ... and stores the sum into the field.
PollStore ==
  LET c == heap[poll.cur].id IN
  /\ poll.pc = "store"
  /\ heap' = [heap EXCEPT ![poll.cur].today = poll.load + poll.delta]
  /\ recorded' = [recorded EXCEPT ![c] = @ + poll.delta]
  /\ poll' = [poll EXCEPT !.pc = "check", !.load = 0, !.delta = 0]
  /\ UNCHANGED <<map, kernel, prev, shaping, failed, job, socket, clock, total,
                 notices>>

\* Mutant: the state test is the wrong way round.
PollCheckFlipped ==
  /\ poll.pc = "check"
  /\ poll' = IF Exceeded(poll.cur) /\ heap[poll.cur].state = "exceeded"
             THEN [poll EXCEPT !.pc = "throttle"]
             ELSE [poll EXCEPT !.pc = "next", !.cur = NoObject]
  /\ UNCHANGED <<heap, map, kernel, prev, shaping, failed, job, socket, clock,
                 history>>

\* CheckQuota, and the state test of poll that follows it.
PollCheck ==
  /\ poll.pc = "check"
  /\ poll' = IF Exceeded(poll.cur) /\ heap[poll.cur].state # "exceeded"
             THEN [poll EXCEPT !.pc = "throttle"]
             ELSE [poll EXCEPT !.pc = "next", !.cur = NoObject]
  /\ UNCHANGED <<heap, map, kernel, prev, shaping, failed, job, socket, clock,
                 history>>

\* Mutant: the state is not set.
PollThrottleStateless ==
  /\ poll.pc = "throttle"
  /\ job.pc # "reset"
  /\ poll' = [poll EXCEPT !.pc = "apply"]
  /\ UNCHANGED <<heap, map, kernel, prev, shaping, failed, job, socket, clock,
                 history>>

\* Mutant: quota.Manager.mu is not taken.
PollThrottleUnlocked ==
  /\ poll.pc = "throttle"
  /\ heap' = [heap EXCEPT ![poll.cur].state = "exceeded"]
  /\ poll' = [poll EXCEPT !.pc = "apply"]
  /\ UNCHANGED <<map, kernel, prev, shaping, failed, job, socket, clock, history>>

\* ApplyExceededThrottle, which takes quota.Manager.mu: ResetDaily holds it
\* while it works on the objects.
PollThrottle ==
  /\ poll.pc = "throttle"
  /\ job.pc # "reset"
  /\ heap' = [heap EXCEPT ![poll.cur].state = "exceeded"]
  /\ poll' = [poll EXCEPT !.pc = "apply"]
  /\ UNCHANGED <<map, kernel, prev, shaping, failed, job, socket, clock, history>>

\* ApplyLimit, whose error is dropped, and the quota_exceeded webhook.
PollApply ==
  /\ poll.pc = "apply"
  /\ \E ok \in BOOLEAN : ApplyLimit(poll.cur, ok)
  /\ notices' = [notices EXCEPT ![poll.cur] = @ + 1]
  /\ poll' = [poll EXCEPT !.pc = "next", !.cur = NoObject]
  /\ UNCHANGED <<heap, map, kernel, prev, job, socket, clock, total, recorded>>

PollEnd ==
  /\ poll.pc = "next"
  /\ poll.todo = {}
  /\ poll' = [poll EXCEPT !.pc = "idle"]
  /\ UNCHANGED <<heap, map, kernel, prev, shaping, failed, job, socket, clock,
                 history>>

Poll ==
  \/ PollStart \/ PollSkip \/ PollCollect \/ PollStore \/ PollCheck
  \/ PollThrottle \/ PollApply \/ PollEnd

-----------------------------------------------------------------------------
(* The scheduler goroutine, which runs one job at a time.                  *)

\* One fresh object for each container of S.
Fresh(S) == [k \in 1..Cardinality(S) |->
               Inspected(CHOOSE c \in S : Numbering(S)[c] = k)]

\* The discovery job: every container `docker ps` lists gets a new object, with
\* zero usage; the others leave the map.  With nothing running, Discover
\* returns before it touches the map.
DiscoveryJob ==
  LET S == {c \in Containers : docker[c] # "gone"} IN
  /\ job.pc = "idle"
  /\ S # {}
  /\ Len(heap) + Cardinality(S) <= MaxObjects
  /\ heap' = heap \o Fresh(S)
  /\ map' = [c \in Containers |-> IF c \in S THEN Len(heap) + Numbering(S)[c]
                                  ELSE NoObject]
  /\ UNCHANGED <<kernel, prev, shaping, failed, poll, job, socket, clock, history>>

\* Mutant: only the first reset is ever due.
ShouldResetOnce == lastReset = 0

\* The quota-reset job: the time zone, without which it ends with an error
\* each minute, ShouldReset, then the list.
ShouldReset == lastReset = 0 \/ lastReset # day

ResetStart ==
  /\ job.pc = "idle"
  /\ ZoneLoads
  /\ ShouldReset
  /\ job' = [pc |-> "reset", todo |-> Listed, list |-> Listed]
  /\ UNCHANGED <<heap, map, kernel, prev, shaping, failed, poll, socket, clock, total,
                 recorded, notices>>

\* One iteration of quota.ResetDaily.
Reset(obj) ==
  [obj EXCEPT !.state = IF @ = "exceeded" THEN "running" ELSE @, !.today = 0]

ResetOne ==
  \E o \in job.todo :
    /\ job.pc = "reset"
    /\ heap' = [heap EXCEPT ![o] = Reset(heap[o])]
    /\ recorded' = [recorded EXCEPT ![heap[o].id] = 0]
    /\ notices' = [notices EXCEPT ![o] = IF poll.pc = "apply" /\ poll.cur = o
                                        THEN -1 ELSE 0]
    /\ job' = [job EXCEPT !.todo = @ \ {o}]
    /\ UNCHANGED <<map, kernel, prev, shaping, failed, poll, socket, clock, total>>

\* Mutant: the limits are not applied again after the reset.
ResetStampOnly ==
  /\ job.pc = "reset"
  /\ job.todo = {}
  /\ lastReset' = day
  /\ job' = [pc |-> "idle", todo |-> {}, list |-> {}]
  /\ UNCHANGED <<heap, map, kernel, prev, shaping, failed, poll, socket, day, history>>

\* lastReset = time.Now(), at the end of ResetDaily.
ResetStamp ==
  /\ job.pc = "reset"
  /\ job.todo = {}
  /\ lastReset' = day
  /\ job' = [job EXCEPT !.pc = "apply", !.todo = job.list]
  /\ UNCHANGED <<heap, map, kernel, prev, shaping, failed, poll, socket, day, history>>

\* "Re-apply tc rules to restore original speeds", to every listed object.
ResetApply(o) ==
  /\ job.pc = "apply"
  /\ o \in job.todo
  /\ \E ok \in BOOLEAN : ApplyLimit(o, ok)
  /\ job' = [job EXCEPT !.todo = @ \ {o}]
  /\ UNCHANGED <<heap, map, kernel, prev, poll, socket, clock, history>>

ResetEnd ==
  /\ job.pc = "apply"
  /\ job.todo = {}
  /\ job' = [pc |-> "idle", todo |-> {}, list |-> {}]
  /\ UNCHANGED <<heap, map, kernel, prev, shaping, failed, poll, socket, clock,
                 history>>

ResetJob ==
  \/ ResetStart \/ ResetOne \/ ResetStamp \/ ResetEnd
  \/ \E o \in job.todo : ResetApply(o)

-----------------------------------------------------------------------------
(* A socket handler: daemon.reapply.                                       *)

ReapplyStart ==
  /\ socket.pc = "idle"
  /\ socket' = [pc |-> "apply", todo |-> Listed]
  /\ UNCHANGED <<heap, map, kernel, prev, shaping, failed, poll, job, clock, history>>

\* One iteration: only enabled, running containers; the first error ends it.
ReapplyOne ==
  \E o \in socket.todo, ok \in BOOLEAN :
    /\ socket.pc = "apply"
    /\ IF Enabled(o) /\ heap[o].state = "running"
       THEN /\ ApplyLimit(o, ok)
            /\ socket' = IF ok THEN [socket EXCEPT !.todo = @ \ {o}]
                         ELSE [pc |-> "idle", todo |-> {}]
       ELSE /\ socket' = [socket EXCEPT !.todo = @ \ {o}]
            /\ UNCHANGED <<shaping, failed>>
    /\ UNCHANGED <<heap, map, kernel, prev, poll, job, clock, history>>

ReapplyEnd ==
  /\ socket.pc = "apply"
  /\ socket.todo = {}
  /\ socket' = [pc |-> "idle", todo |-> {}]
  /\ UNCHANGED <<heap, map, kernel, prev, shaping, failed, poll, job, clock, history>>

Reapply == ReapplyStart \/ ReapplyOne \/ ReapplyEnd

-----------------------------------------------------------------------------
(* The event watcher: Discovery.handleEvent.                               *)

\* start, unpause
EventStart(c) ==
  /\ event[c] = "start"
  /\ event' = [event EXCEPT ![c] = "none"]
  /\ Len(heap) < MaxObjects
  /\ heap' = Append(heap, Inspected(c))
  /\ map' = [map EXCEPT ![c] = Len(heap) + 1]
  /\ UNCHANGED <<docker, veth, counter, prev, shaping, failed, poll, job, socket,
                 clock, history>>

\* die, pause
EventDie(c) ==
  /\ event[c] = "die"
  /\ event' = [event EXCEPT ![c] = "none"]
  /\ heap' = IF map[c] = NoObject THEN heap
             ELSE [heap EXCEPT ![map[c]].state = "stopped"]
  /\ UNCHANGED <<map, docker, veth, counter, prev, shaping, failed, poll, job, socket,
                 clock, history>>

EventDestroy(c) ==
  /\ event[c] = "destroy"
  /\ event' = [event EXCEPT ![c] = "none"]
  /\ map' = [map EXCEPT ![c] = NoObject]
  /\ UNCHANGED <<heap, docker, veth, counter, prev, shaping, failed, poll, job, socket,
                 clock, history>>

HandleEvent(c) == EventStart(c) \/ EventDie(c) \/ EventDestroy(c)

-----------------------------------------------------------------------------
(* The world outside: docker, the traffic and the clock.                   *)

\* A container starts: it gets a new veth, with counters at zero and no
\* qdisc.  At most one event of a container is under way.
DockerStart(c) ==
  /\ docker[c] = "gone"
  /\ event[c] = "none"
  /\ veth[c] < MaxVeth
  /\ docker' = [docker EXCEPT ![c] = "running"]
  /\ event' = [event EXCEPT ![c] = "start"]
  /\ veth' = [veth EXCEPT ![c] = @ + 1]
  /\ counter' = [counter EXCEPT ![c] = 0]
  /\ UNCHANGED <<heap, map, prev, shaping, failed, poll, job, socket, clock, history>>

\* It stops and its veth vanishes.
DockerStop(c) ==
  /\ docker[c] = "running"
  /\ event[c] = "none"
  /\ docker' = [docker EXCEPT ![c] = "gone"]
  /\ \E e \in {"die", "destroy"} : event' = [event EXCEPT ![c] = e]
  /\ shaping' = [shaping EXCEPT ![c] = "none"]
  /\ failed' = failed \ {c}
  /\ UNCHANGED <<heap, map, veth, counter, prev, poll, job, socket, clock,
                 history>>

\* It is paused or unpaused and keeps its veth.
DockerPause(c) ==
  /\ docker[c] # "gone"
  /\ event[c] = "none"
  /\ docker' = [docker EXCEPT ![c] = IF @ = "running" THEN "paused" ELSE "running"]
  /\ event' = [event EXCEPT ![c] = IF docker[c] = "running" THEN "die" ELSE "start"]
  /\ UNCHANGED <<heap, map, veth, counter, prev, shaping, failed, poll, job, socket,
                 clock, history>>

Traffic(c) ==
  /\ docker[c] = "running"
  /\ total[c] < MaxTraffic
  /\ counter' = [counter EXCEPT ![c] = @ + 1]
  /\ total' = [total EXCEPT ![c] = @ + 1]
  /\ UNCHANGED <<heap, map, docker, event, veth, prev, shaping, failed, poll, job, socket,
                 clock, recorded, notices>>

Midnight ==
  /\ day < MaxDay
  /\ day' = day + 1
  /\ UNCHANGED <<heap, map, kernel, prev, shaping, failed, poll, job, socket,
                 lastReset, history>>

World ==
  \/ \E c \in Containers : DockerStart(c) \/ DockerStop(c) \/ DockerPause(c) \/ Traffic(c)
  \/ Midnight

Next ==
  \/ Poll
  \/ DiscoveryJob
  \/ ResetJob
  \/ Reapply
  \/ \E c \in Containers : HandleEvent(c)
  \/ World

Spec == Init /\ [][Next]_vars

\* The goroutines of the daemon run, and the docker CLI and tc return; the
\* scheduler serves the reset job (see Scheduler).  Nothing is assumed of
\* docker, of the traffic, of the clock or of the clients of the socket.
Fairness ==
  /\ WF_vars(Poll)
  /\ WF_vars(ResetJob)
  /\ WF_vars(ReapplyOne \/ ReapplyEnd)
  /\ \A c \in Containers : WF_vars(HandleEvent(c))

FairSpec == Spec /\ Fairness

-----------------------------------------------------------------------------
(* Properties.                                                             *)

Current(o) == map[heap[o].id] = o

\* No object ever shows more usage than its container had traffic since the
\* daemon started: readings taken around restarts (counters back at zero),
\* through replaced objects and around resets never count a byte twice.
UsageIsReal ==
  \A o \in DOMAIN heap : heap[o].today <= total[heap[o].id]

\* From one reset of an object to the next, poll decides at most once that its
\* container is to be told of: at most one quota_exceeded webhook is sent,
\* besides one that was under way when the reset came, although poll, the
\* reset job and the event watcher all write the state on which this depends.
OneNoticePerReset == \A o \in DOMAIN heap : notices[o] <= 1

\* While ResetDaily works through its list, none of the objects it is done
\* with is exceeded: it hands all of them over at full speed, whatever poll
\* had decided before it began.
ResetLiftsThrottles ==
  job.pc = "reset" => \A o \in job.list \ job.todo : heap[o].state # "exceeded"

\* Nobody is half way through an object.
Quiet == poll.pc \in {"idle", "next"} /\ job.pc = "idle" /\ socket.pc = "idle"

\* The objects of the start are the first to be allocated.
FirstObject(o) == o <= Cardinality(Initial)

\* As long as a container keeps the object it had at the start, the limit on
\* its veth is the one its state calls for whenever no goroutine is at work
\* on it: throttled when exceeded, the configured speed when not.  Whatever
\* order poll, reset and reapply take their steps in, the last ApplyLimit
\* sees the last state.  Only after an ApplyLimit that failed is there another
\* limit, or none, until one succeeds.
ShapingFollowsState ==
  Quiet =>
    \A o \in DOMAIN heap :
      (/\ Current(o)
       /\ FirstObject(o)
       /\ Enabled(o)
       /\ Attached(o)
       /\ heap[o].state # "stopped")
      => \/ shaping[heap[o].id] = Speed(o)
         \/ heap[o].id \in failed

\* The object a container has now, in state exceeded.
Slowed(o) == o \in DOMAIN heap /\ Current(o) /\ heap[o].state = "exceeded"

Throttleable(o) ==
  o \in DOMAIN heap /\ Polled(o) /\ Current(o) /\ Exceeded(o)

\* A container that the daemon has counted over its quota becomes exceeded,
\* unless its object is replaced or stopped or its usage is reset first.
OverQuotaIsThrottled ==
  \A o \in Objects : Throttleable(o) ~> ~Throttleable(o)

\* Every day has its reset, in a time zone that loads.
ResetHappens == ZoneLoads => ((lastReset # day) ~> (lastReset = day))

-----------------------------------------------------------------------------
(* What the documentation says and the code does not do.                   *)

\* README.md:20 "Daily traffic quotas": usage collected since the last reset
\* counts against the quota until the next one.
UsageIsKept ==
  Quiet => \A c \in Containers :
             map[c] # NoObject => heap[map[c]].today >= recorded[c]

\* README.md:20 "automatic midnight reset": after a reset only traffic
\* collected after it counts.
UsageIsTodays ==
  \A o \in DOMAIN heap :
    Current(o) /\ FirstObject(o) => heap[o].today <= recorded[heap[o].id]

\* README.md:20 "automatic midnight reset": every day has its reset, whatever
\* time zone Validate lets through.
EveryDayIsReset == (lastReset # day) ~> (lastReset = day)

\* README.md:23 "Reduces speed when quota exceeded": a container is exceeded
\* only while its usage is at least its quota.
ExceededMeansOverQuota ==
  \A o \in DOMAIN heap :
    Slowed(o) /\ job.pc # "reset" => heap[o].today >= Quota

\* README.md:23 "Reduces speed when quota exceeded": the speed of a container
\* in state exceeded is eventually reduced, a failing tc command or not.
ExceededIsSlowed ==
  \A o \in Objects :
    Slowed(o) ~> (Slowed(o) /\ Attached(o) => shaping[heap[o].id] = "throttle")

\* README.md:25 "Historical statistics": the traffic of a throttled container
\* is read like that of the others, not first on the day after.
ThrottledIsTracked ==
  \A o \in Objects :
    (Slowed(o) /\ counter[heap[o].id] # prev[heap[o].id])
      ~> (Slowed(o) => counter[heap[o].id] = prev[heap[o].id])

\* daemon.go:315 "Re-apply tc rules to restore original speeds": the reset
\* job gives the containers of the start their configured speed again.
ResetRestores ==
  [][\A o \in DOMAIN heap :
       ResetApply(o) /\ heap[o].id \in Initial /\ Attached(o)
         => shaping'[heap[o].id] # "fallback"]_vars

\* daemon.go:283 "Apply tc rules to all enabled containers": the containers
\* with bandwidth.enabled=false are left alone.
DisabledIsUntouched == \A c \in Disabled : shaping[c] = "none"

\* README.md:21 "Auto-discovery [...] zero manual registration" of containers
\* that README.md:19 gives a speed limit: an enabled container the poll loop
\* has found running and read the counters of is limited.
DiscoveredIsLimited ==
  \A o \in DOMAIN heap :
    Quiet /\ Current(o) /\ Polled(o) /\ prev[heap[o].id] # Unread
      => shaping[heap[o].id] # "none"
=============================================================================
