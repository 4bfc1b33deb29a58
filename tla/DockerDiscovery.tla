--------------------------- MODULE DockerDiscovery ---------------------------
(***************************************************************************)
(* internal/docker/discovery.go: the map of known containers and its two   *)
(* writers.  Discover (a scheduled job) lists the containers, inspects     *)
(* them one by one without the lock and then replaces the map; the event   *)
(* watcher writes single entries, for a start after an inspect of its own. *)
(* Docker goes on meanwhile, and may itself restart.                       *)
(*                                                                         *)
(* QuotaEnforcement takes a discovery as one step; here it has its parts.  *)
(***************************************************************************)
EXTENDS Naturals, Sequences

CONSTANTS
  Containers,   \* container IDs
  Bare,         \* those without an eth0, or without a cat to read it with
  MaxChanges,   \* bound: what happens to the containers
  MaxRestarts,  \* bound: how often the docker engine goes down
  MaxErrors,    \* bound: commands that fail for no reason of the container
  Null          \* "not known", "inspect failed", "no veth"

ASSUME DiscoveryAssumption ==
  /\ Bare \subseteq Containers
  /\ {MaxChanges, MaxRestarts, MaxErrors} \subseteq Nat

VARIABLES
  engine,      \* the docker engine is up
  restarts,    \* how often it went down
  status,      \* the state of each container in docker
  starts,      \* how often it was started: which PID and veth it has
  changes,     \* bounded: changes of containers
  errors,      \* bounded: failed commands
  attached,    \* Daemon.discovery is not nil
  watcher,     \* the goroutine of WatchEvents
  events,      \* its pipe from `docker events`
  inspected,   \* what it inspected and has not written yet
  scan,        \* the goroutine that runs Discover
  map          \* Discovery.containers

world == <<engine, restarts, status, starts, changes>>
discoveryVars == <<world, errors, attached, watcher, events, inspected, scan, map>>

\* A veth is known by its container and by the start that made it.
Veths == Containers \X (0..MaxChanges)

\* What inspectContainer makes of a container.
Object == [state : {"running", "paused", "stopped"}, veth : Veths \cup {Null}]

Event == [id : Containers, action : {"start", "die", "destroy"}]

DiscoveryTypeOK ==
  /\ {engine, attached} \subseteq BOOLEAN
  /\ restarts \in 0..MaxRestarts + 1
  /\ status \in [Containers -> {"new", "running", "paused", "exited", "gone"}]
  /\ starts \in [Containers -> 0..MaxChanges]
  /\ changes \in 0..MaxChanges
  /\ errors \in 0..MaxErrors
  /\ watcher \in {"off", "listening", "writing", "returned"}
  /\ events \in Seq(Event)
  /\ inspected \in [id : Containers, object : Object] \cup {Null}
  /\ scan \in [on : BOOLEAN, todo : SUBSET Containers,
               found : [Containers -> Object \cup {Null}]]
  /\ map \in [Containers -> Object \cup {Null}]

Nothing == [c \in Containers |-> Null]

\* daemon.New: NewDiscovery fails when docker does not answer, and the
\* daemon goes on with a nil discovery.
DiscoveryInit ==
  /\ engine \in BOOLEAN
  /\ attached = engine
  /\ restarts = IF engine THEN 0 ELSE 1
  /\ status \in [Containers -> {"new", "running"}]
  /\ ~engine => \A c \in Containers : status[c] = "new"
  /\ starts = [c \in Containers |-> 0]
  /\ changes = 0
  /\ errors = 0
  /\ watcher = "off"
  /\ events = <<>>
  /\ inspected = Null
  /\ scan = [on |-> FALSE, todo |-> {}, found |-> Nothing]
  /\ map = Nothing

-----------------------------------------------------------------------------
(* inspectContainer.                                                       *)

Known(c) == engine /\ status[c] \notin {"new", "gone"}

\* dockerStateToModel.
StateOf(s) ==
  CASE s = "running" -> "running"
    [] s = "paused"  -> "paused"
    [] OTHER         -> "stopped"

Up(c) == status[c] \in {"running", "paused"}

OwnVeth(c) == <<c, starts[c]>>

HostVeths == {OwnVeth(c) : c \in {d \in Containers : Up(d)}}

\* firstHostVeth: whichever the directory lists first.
FirstHostVeth(v) == IF HostVeths = {} THEN v = Null ELSE v \in HostVeths

\* A command that succeeds, and one that fails for no reason of the container.
Works == UNCHANGED errors

Breaks == errors < MaxErrors /\ errors' = errors + 1

\* `docker exec` can read the index of the veth: not in a paused container.
Readable(c) == status[c] = "running" /\ c \notin Bare

\* detectVeth: nothing without a PID, else the veth with the index read, else
\* the first veth of the host.
Detects(c, v) ==
  \/ ~Up(c) /\ v = Null /\ Works
  \/ Readable(c) /\ v = OwnVeth(c) /\ Works
  \/ Readable(c) /\ FirstHostVeth(v) /\ Breaks
  \/ Up(c) /\ ~Readable(c) /\ FirstHostVeth(v) /\ Works

Inspected(c, v) == [state |-> StateOf(status[c]), veth |-> v]

\* `docker inspect` answers and the veth is looked for ...
Answers(c, v) == Known(c) /\ Detects(c, v)

\* ... or it fails: the container is gone, docker does not answer, or the
\* context ran out.
Fails(c) == IF Known(c) THEN Breaks ELSE Works

-----------------------------------------------------------------------------
(* Discover.                                                               *)

\* docker ps.  With no container up, Discover returns here; so it does when
\* docker does not answer, and when there is no discovery at all.
ScanBegin ==
  LET ids == {c \in Containers : Up(c)} IN
  /\ attached
  /\ engine
  /\ ~scan.on
  /\ ids # {}
  /\ scan' = [on |-> TRUE, todo |-> ids, found |-> Nothing]
  /\ UNCHANGED <<world, errors, attached, watcher, events, inspected, map>>

ScanInspect(c) ==
  /\ c \in scan.todo
  /\ \/ \E v \in HostVeths \cup {Null} :
          /\ Answers(c, v)
          /\ scan' = [scan EXCEPT !.todo = @ \ {c}, !.found[c] = Inspected(c, v)]
     \/ /\ Fails(c)
        /\ scan' = [scan EXCEPT !.todo = @ \ {c}]
  /\ UNCHANGED <<world, attached, watcher, events, inspected, map>>

\* Mutant: the containers that were not found are kept.
ScanCommitKeeping ==
  /\ scan.on
  /\ scan.todo = {}
  /\ map' = [c \in Containers |-> IF scan.found[c] = Null THEN map[c] ELSE scan.found[c]]
  /\ scan' = [on |-> FALSE, todo |-> {}, found |-> Nothing]
  /\ UNCHANGED <<world, errors, attached, watcher, events, inspected>>

\* Under the lock: what was inspected is entered, all else is removed.
ScanCommit ==
  /\ scan.on
  /\ scan.todo = {}
  /\ map' = scan.found
  /\ scan' = [on |-> FALSE, todo |-> {}, found |-> Nothing]
  /\ UNCHANGED <<world, errors, attached, watcher, events, inspected>>

Scan == ScanBegin \/ ScanCommit \/ \E c \in Containers : ScanInspect(c)

-----------------------------------------------------------------------------
(* WatchEvents and handleEvent.                                            *)

\* daemon.Start starts the watcher once.
WatchBegin ==
  /\ attached
  /\ watcher = "off"
  /\ watcher' = IF engine THEN "listening" ELSE "returned"
  /\ UNCHANGED <<world, errors, attached, events, inspected, scan, map>>

Handle(action) ==
  /\ watcher = "listening"
  /\ events # <<>>
  /\ Head(events).action = action
  /\ events' = Tail(events)

\* start and unpause: inspect first ...
HandleStart ==
  LET c == Head(events).id IN
  /\ Handle("start")
  /\ \/ \E v \in HostVeths \cup {Null} :
          /\ Answers(c, v)
          /\ inspected' = [id |-> c, object |-> Inspected(c, v)]
          /\ watcher' = "writing"
     \/ /\ Fails(c)
        /\ UNCHANGED <<inspected, watcher>>
  /\ UNCHANGED <<world, attached, scan, map>>

\* ... and write under the lock.
WriteStart ==
  /\ watcher = "writing"
  /\ map' = [map EXCEPT ![inspected.id] = inspected.object]
  /\ inspected' = Null
  /\ watcher' = "listening"
  /\ UNCHANGED <<world, errors, attached, events, scan>>

\* die and pause.
HandleDie ==
  LET c == Head(events).id IN
  /\ Handle("die")
  /\ map' = IF map[c] = Null THEN map ELSE [map EXCEPT ![c].state = "stopped"]
  /\ UNCHANGED <<world, errors, attached, watcher, inspected, scan>>

HandleDestroy ==
  /\ Handle("destroy")
  /\ map' = [map EXCEPT ![Head(events).id] = Null]
  /\ UNCHANGED <<world, errors, attached, watcher, inspected, scan>>

\* The pipe breaks when the engine goes down: Decode fails and the goroutine
\* returns, for good.
WatchEnds ==
  /\ watcher = "listening"
  /\ events = <<>>
  /\ restarts > 0
  /\ watcher' = "returned"
  /\ UNCHANGED <<world, errors, attached, events, inspected, scan, map>>

Watch ==
  WatchBegin \/ HandleStart \/ WriteStart \/ HandleDie \/ HandleDestroy \/ WatchEnds

-----------------------------------------------------------------------------
(* Docker.                                                                 *)

\* An event reaches the pipe while `docker events` is running.
Emit(c, action) ==
  events' = IF engine /\ restarts = 0 /\ watcher \in {"listening", "writing"}
            THEN Append(events, [id |-> c, action |-> action]) ELSE events

Change(c, from, to) ==
  /\ changes < MaxChanges
  /\ changes' = changes + 1
  /\ status[c] \in from
  /\ status' = [status EXCEPT ![c] = to]
  /\ UNCHANGED <<engine, restarts, errors, attached, watcher, inspected, scan, map>>

DockerStart(c) ==
  /\ engine
  /\ Change(c, {"new", "exited"}, "running")
  /\ starts' = [starts EXCEPT ![c] = @ + 1]
  /\ Emit(c, "start")

DockerPause(c) ==
  engine /\ Change(c, {"running"}, "paused") /\ Emit(c, "die") /\ UNCHANGED starts

DockerUnpause(c) ==
  engine /\ Change(c, {"paused"}, "running") /\ Emit(c, "start") /\ UNCHANGED starts

\* A container may also exit while the engine is down.
DockerDie(c) ==
  Change(c, {"running", "paused"}, "exited") /\ Emit(c, "die") /\ UNCHANGED starts

DockerRemove(c) ==
  engine /\ Change(c, {"exited"}, "gone") /\ Emit(c, "destroy") /\ UNCHANGED starts

EngineDown ==
  /\ engine
  /\ restarts < MaxRestarts
  /\ engine' = FALSE
  /\ restarts' = restarts + 1
  /\ UNCHANGED <<status, starts, changes, errors, attached, watcher, events, inspected,
                 scan, map>>

EngineUp ==
  /\ ~engine
  /\ engine' = TRUE
  /\ UNCHANGED <<restarts, status, starts, changes, errors, attached, watcher, events,
                 inspected, scan, map>>

Docker ==
  \/ \E c \in Containers :
       \/ DockerStart(c) \/ DockerPause(c) \/ DockerUnpause(c)
       \/ DockerDie(c) \/ DockerRemove(c)
  \/ EngineDown
  \/ EngineUp

DiscoveryNext == Scan \/ Watch \/ Docker

DiscoverySpec == DiscoveryInit /\ [][DiscoveryNext]_discoveryVars

\* The scheduler runs Discover again and again, the watcher is scheduled and
\* docker commands return.  Of docker only that it comes back up.
DiscoveryFairness == WF_discoveryVars(Scan) /\ WF_discoveryVars(Watch) /\ WF_discoveryVars(EngineUp)

FairDiscoverySpec == DiscoverySpec /\ DiscoveryFairness

-----------------------------------------------------------------------------
(* Properties.                                                             *)

\* The entry of a container says whether it runs, and, where that can be found
\* out, with which veth.
AccurateFor(c) ==
  IF Up(c)
  THEN /\ map[c] # Null
       /\ map[c].state = "running" <=> status[c] = "running"
       /\ Readable(c) => map[c].veth = OwnVeth(c)
  ELSE map[c] = Null

Accurate == \A c \in Containers : AccurateFor(c)

SomeUp == \E c \in Containers : Up(c)

\* When docker settles with some container up, the map becomes accurate and
\* stays so: stale inspects, failed ones, events handled late or lost with
\* the watcher and engine restarts are all repaired by a later scan, and no
\* late write of the watcher spoils it again.  The veth is that of the
\* container wherever it runs and `docker exec` can read it.
MapSettles == attached /\ <>[]SomeUp => <>[]Accurate

-----------------------------------------------------------------------------
(* What comments and the documentation say and the code does not do.       *)

\* discovery.go:135 "Detect removed containers": a container that docker has
\* removed does not stay in the map for ever.
GoneIsForgotten ==
  \A c \in Containers : (status[c] = "gone" /\ map[c] # Null) ~> map[c] = Null

\* README.md:21 "Detects Docker containers, veth interfaces": no container is
\* known by the veth of another.
VethIsOwn ==
  \A c \in Containers :
    map[c] # Null /\ map[c].veth # Null => \E n \in 0..MaxChanges : map[c].veth = <<c, n>>

\* daemon.go:119 "will retry when Docker starts": a daemon started before
\* docker finds it once it is up.
DockerIsRetried == engine ~> (attached \/ ~engine)
=============================================================================
