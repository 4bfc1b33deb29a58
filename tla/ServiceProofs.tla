---------------------------- MODULE ServiceProofs ----------------------------
(***************************************************************************)
(* The two services that run beside the poll loop: Stop of the scheduler,  *)
(* for any jobs and intervals, and the types of the discovery, for any     *)
(* containers and bounds.  They share nothing; what both would call Init,  *)
(* Next, Spec or TypeOK has a name of its own in DockerDiscovery.          *)
(***************************************************************************)
EXTENDS Scheduler, DockerDiscovery, TLAPS

-----------------------------------------------------------------------------
(* Type correctness.                                                       *)

\* An age stays within the bound.
LEMMA OlderType ==
  ASSUME NEW a \in 0..MaxAge
  PROVE  Older(a) \in 0..MaxAge
BY SchedulerAssumption DEF Older

\* The flags are Booleans: only they go through the propositional connectives.
Flags == ticked \in BOOLEAN /\ cancelled \in BOOLEAN /\ stopped \in BOOLEAN

\* What TypeOK says of the other variables.
Rest ==
  /\ loop \in {"select", "tick", "job", "returned"}
  /\ todo \in SUBSET Jobs
  /\ running \in Jobs \cup {None}
  /\ age \in [Jobs -> 0..MaxAge]
  /\ fresh \in SUBSET Jobs
  /\ tickAge \in 0..MaxAge
  /\ phase \in 0..CheckInterval - 1

LEMMA TypeParts == TypeOK <=> Rest /\ Flags
BY Zenon DEF TypeOK, Rest, Flags

LEMMA FlagsKept == Flags /\ [Next]_vars => Flags'
<1> SUFFICES ASSUME Flags, [Next]_vars PROVE Flags'
  OBVIOUS
<1>1. CASE \E j \in Jobs : JobBegin(j)
  BY Zenon, <1>1 DEF JobBegin, Flags
<1>2. CASE TickBegin \/ JobEnd \/ TickEnd \/ Return \/ StopBegin \/ StopEnd
  BY Zenon, <1>2 DEF TickBegin, JobEnd, TickEnd, Return, StopBegin, StopEnd, Flags
<1>3. CASE Clock
  BY Zenon, <1>3 DEF Clock, Flags
<1>4. CASE UNCHANGED vars
  BY Zenon, <1>4 DEF vars, Flags
<1> QED BY Zenon, <1>1, <1>2, <1>3, <1>4 DEF Next, Loop

LEMMA RestKept ==
  ASSUME Rest, [Next]_vars, loop = "job" => running \in Jobs
  PROVE  Rest'
<1>1. CASE TickBegin
  BY <1>1, SchedulerAssumption DEF TickBegin, Rest
<1>2. CASE \E j \in Jobs : JobBegin(j)
  BY <1>2 DEF JobBegin, Rest
<1>3. CASE JobEnd
  BY <1>3 DEF JobEnd, Rest
<1>4. CASE TickEnd \/ Return \/ StopBegin \/ StopEnd
  BY <1>4 DEF TickEnd, Return, StopBegin, StopEnd, Rest
<1>5. CASE Clock
  <2>1. age' \in [Jobs -> 0..MaxAge] /\ tickAge' \in 0..MaxAge
    BY <1>5, OlderType DEF Clock, Rest
  <2>2. phase' \in 0..CheckInterval - 1
    BY <1>5, SchedulerAssumption DEF Clock, Rest
  <2> QED BY <1>5, <2>1, <2>2 DEF Clock, Rest
<1>6. CASE UNCHANGED vars
  BY <1>6 DEF vars, Rest
<1> QED BY <1>1, <1>2, <1>3, <1>4, <1>5, <1>6 DEF Next, Loop

-----------------------------------------------------------------------------
(* The goroutine, its job and Stop.                                        *)

\* A job runs exactly while the goroutine is in it, and Stop has returned
\* only after the goroutine has.
Joined ==
  /\ loop = "job" <=> running # None
  /\ stopped => loop = "returned"

LEMMA JoinedKept ==
  ASSUME Rest, Joined, [Next]_vars
  PROVE  Joined'
<1>1. CASE TickBegin
  BY <1>1 DEF TickBegin, Joined
<1>2. CASE \E j \in Jobs : JobBegin(j)
  BY <1>2, SchedulerAssumption DEF JobBegin, Joined
<1>3. CASE JobEnd
  BY <1>3 DEF JobEnd, Joined
<1>4. CASE TickEnd \/ Return
  BY <1>4 DEF TickEnd, Return, Joined
<1>5. CASE StopBegin \/ StopEnd
  BY <1>5 DEF StopBegin, StopEnd, Joined
<1>6. CASE Clock
  BY <1>6 DEF Clock, Joined
<1>7. CASE UNCHANGED vars
  BY <1>7 DEF vars, Joined
<1> QED BY <1>1, <1>2, <1>3, <1>4, <1>5, <1>6, <1>7 DEF Next, Loop

LEMMA JoinedAlways == Spec => [](Rest /\ Flags /\ Joined)
<1>1. Init => Rest /\ Joined
  BY SchedulerAssumption DEF Init, Rest, Joined
<1>2. Init => Flags
  BY Zenon DEF Init, Flags
<1>3. Rest /\ Flags /\ Joined /\ [Next]_vars => (Rest /\ Flags /\ Joined)'
  <2>1. Rest /\ Joined => (loop = "job" => running \in Jobs)
    BY DEF Rest, Joined
  <2> QED BY <2>1, RestKept, FlagsKept, JoinedKept
<1> QED BY <1>1, <1>2, <1>3, PTL DEF Spec

\* Every variable keeps its type, and no age exceeds the bound, for any jobs,
\* intervals and check interval.
THEOREM TypeCorrect == Spec => []TypeOK
<1>1. Rest /\ Flags /\ Joined => TypeOK
  BY TypeParts
<1> QED BY <1>1, JoinedAlways, PTL

\* When Stop has returned no job runs and none begins, for any jobs and
\* whatever ticks race the cancellation.
THEOREM Stopped == Spec => NoJobAfterStop
<1>1. Rest /\ Flags /\ Joined /\ (Rest /\ Flags /\ Joined)' /\ [Next]_vars
        => [stopped => running = None /\ running' = None]_vars
  <2> SUFFICES ASSUME Joined, Joined', [Next]_vars, stopped
               PROVE  running = None /\ running' = None
    OBVIOUS
  <2>1. loop = "returned" /\ running = None
    BY DEF Joined
  <2>2. loop' = "returned"
    BY <2>1 DEF Next, Loop, TickBegin, JobBegin, JobEnd, TickEnd, Return, StopBegin,
                StopEnd, Clock, vars
  <2>3. running' = None
    BY <2>2 DEF Joined
  <2> QED BY <2>1, <2>3
<1> QED BY <1>1, JoinedAlways, PTL DEF Spec, NoJobAfterStop

-----------------------------------------------------------------------------
(* The discovery.                                                          *)

\* No container was started more often than containers changed, and what the
\* watcher is about to write is there.
Consistent ==
  /\ \A c \in Containers : starts[c] <= changes
  /\ watcher = "writing" => inspected \in [id : Containers, object : Object]

\* The flags are Booleans: only they go through the propositional connectives.
DiscoveryFlags == engine \in BOOLEAN /\ attached \in BOOLEAN

\* What DiscoveryTypeOK says of docker.
World ==
  /\ restarts \in 0..MaxRestarts + 1
  /\ status \in [Containers -> {"new", "running", "paused", "exited", "gone"}]
  /\ starts \in [Containers -> 0..MaxChanges]
  /\ changes \in 0..MaxChanges

\* What it says of the watcher, of the scan and of the map.
Watcher ==
  /\ errors \in 0..MaxErrors
  /\ watcher \in {"off", "listening", "writing", "returned"}
  /\ events \in Seq(Event)
  /\ inspected \in [id : Containers, object : Object] \cup {Null}

Entries == [Containers -> Object \cup {Null}]

Maps ==
  /\ scan \in [on : BOOLEAN, todo : SUBSET Containers, found : Entries]
  /\ map \in Entries

DiscoveryInv == DiscoveryFlags /\ World /\ Watcher /\ Maps /\ Consistent

LEMMA DiscoveryTypeParts == DiscoveryFlags /\ World /\ Watcher /\ Maps => DiscoveryTypeOK
BY DEF DiscoveryTypeOK, DiscoveryFlags, World, Watcher, Maps, Entries

LEMMA DiscoveryInitInv == DiscoveryInit => DiscoveryInv
<1> SUFFICES ASSUME DiscoveryInit PROVE DiscoveryInv
  OBVIOUS
<1>1. DiscoveryFlags
  BY DEF DiscoveryInit, DiscoveryFlags
<1>2. World
  BY DiscoveryAssumption DEF DiscoveryInit, World
<1>3. Watcher
  BY DiscoveryAssumption DEF DiscoveryInit, Watcher
<1>4. Nothing \in Entries
  BY DEF Nothing, Entries
<1>5. Maps
  BY <1>4 DEF DiscoveryInit, Maps
<1>6. Consistent
  BY DEF DiscoveryInit, Consistent
<1> QED BY <1>1, <1>2, <1>3, <1>5, <1>6 DEF DiscoveryInv

-----------------------------------------------------------------------------
(* The steps.                                                              *)

\* What an inspect makes of a container is an object.
LEMMA InspectedType ==
  ASSUME World, NEW c \in Containers, NEW v \in HostVeths \cup {Null}
  PROVE  Inspected(c, v) \in Object
<1>1. StateOf(status[c]) \in {"running", "paused", "stopped"}
  BY DEF StateOf
<1>2. v \in Veths \cup {Null}
  BY DEF World, HostVeths, OwnVeth, Veths
<1> QED BY <1>1, <1>2 DEF Inspected, Object

\* An inspect, answered or failed, keeps to the bound on errors.
LEMMA ErrorsType ==
  ASSUME errors \in 0..MaxErrors, NEW c, NEW v, Answers(c, v) \/ Fails(c)
  PROVE  errors' \in 0..MaxErrors
BY DiscoveryAssumption DEF Answers, Detects, Fails, Works, Breaks

LEMMA DiscoveryFlagsKept ==
  ASSUME DiscoveryFlags, [DiscoveryNext]_discoveryVars
  PROVE  DiscoveryFlags'
<1>1. CASE Scan
  BY <1>1 DEF Scan, ScanBegin, ScanInspect, ScanCommit, DiscoveryFlags, world
<1>2. CASE Watch
  BY <1>2 DEF Watch, WatchBegin, HandleStart, WriteStart, HandleDie, HandleDestroy,
              WatchEnds, DiscoveryFlags, world
<1>3. CASE Docker
  BY <1>3 DEF Docker, DockerStart, DockerPause, DockerUnpause, DockerDie, DockerRemove,
              Change, EngineDown, EngineUp, DiscoveryFlags
<1>4. CASE UNCHANGED discoveryVars
  BY <1>4 DEF discoveryVars, world, DiscoveryFlags
<1> QED BY <1>1, <1>2, <1>3, <1>4 DEF DiscoveryNext

\* One change of a container.
LEMMA ChangeType ==
  ASSUME World, NEW c \in Containers,
         NEW from, NEW to \in {"new", "running", "paused", "exited", "gone"},
         Change(c, from, to)
  PROVE  /\ changes' \in 0..MaxChanges /\ changes' = changes + 1
         /\ status' \in [Containers -> {"new", "running", "paused", "exited", "gone"}]
         /\ restarts' \in 0..MaxRestarts + 1
BY DiscoveryAssumption DEF World, Change

LEMMA WorldKept ==
  ASSUME World, Consistent, [DiscoveryNext]_discoveryVars
  PROVE  World' /\ (\A c \in Containers : starts'[c] <= changes')
<1> DEFINE Goal == World' /\ (\A c \in Containers : starts'[c] <= changes')
<1>1. ASSUME UNCHANGED world PROVE Goal
  BY <1>1 DEF world, World, Consistent
<1>2. CASE Scan \/ Watch \/ UNCHANGED discoveryVars
  <2>1. UNCHANGED world
    BY <1>2 DEF Scan, ScanBegin, ScanInspect, ScanCommit, Watch, WatchBegin, HandleStart,
                WriteStart, HandleDie, HandleDestroy, WatchEnds, discoveryVars
  <2> QED BY <1>1, <2>1
<1>3. ASSUME NEW c \in Containers, DockerStart(c) PROVE Goal
  <2>1. Change(c, {"new", "exited"}, "running") /\ starts' = [starts EXCEPT ![c] = @ + 1]
    BY <1>3 DEF DockerStart
  <2>2. /\ changes' \in 0..MaxChanges /\ changes' = changes + 1
        /\ status' \in [Containers -> {"new", "running", "paused", "exited", "gone"}]
        /\ restarts' \in 0..MaxRestarts + 1
    BY <2>1, ChangeType
  <2>3. \A d \in Containers : starts[d] \in Nat /\ starts[d] <= changes
    BY DiscoveryAssumption DEF World, Consistent
  <2>4. \A d \in Containers : starts'[d] \in Nat /\ starts'[d] <= changes + 1
    BY <2>1, <2>3, DiscoveryAssumption DEF World
  <2>5. starts' \in [Containers -> 0..MaxChanges]
    BY <2>1, <2>2, <2>4, DiscoveryAssumption DEF World
  <2> QED BY <2>2, <2>4, <2>5 DEF World
<1>4. ASSUME NEW c \in Containers,
             DockerPause(c) \/ DockerUnpause(c) \/ DockerDie(c) \/ DockerRemove(c)
      PROVE  Goal
  <2>1. PICK from \in SUBSET {"running", "paused", "exited"},
             to \in {"running", "paused", "exited", "gone"} : Change(c, from, to)
    BY <1>4 DEF DockerPause, DockerUnpause, DockerDie, DockerRemove
  <2>2. UNCHANGED starts
    BY <1>4 DEF DockerPause, DockerUnpause, DockerDie, DockerRemove
  <2>3. /\ changes' \in 0..MaxChanges /\ changes' = changes + 1
        /\ status' \in [Containers -> {"new", "running", "paused", "exited", "gone"}]
        /\ restarts' \in 0..MaxRestarts + 1
    BY <2>1, ChangeType
  <2>4. \A d \in Containers : starts[d] \in Nat /\ starts[d] <= changes /\ changes \in Nat
    BY DiscoveryAssumption DEF World, Consistent
  <2> QED BY <2>2, <2>3, <2>4 DEF World
<1>5. CASE EngineDown \/ EngineUp
  BY <1>5, DiscoveryAssumption DEF EngineDown, EngineUp, World, Consistent
<1> QED BY <1>2, <1>3, <1>4, <1>5 DEF DiscoveryNext, Docker

\* Docker's events keep to their type.
LEMMA EmitType ==
  ASSUME events \in Seq(Event), NEW c \in Containers,
         NEW action \in {"start", "die", "destroy"}, Emit(c, action)
  PROVE  events' \in Seq(Event)
<1>1. [id |-> c, action |-> action] \in Event
  BY DEF Event
<1> QED BY <1>1 DEF Emit

\* What the watcher handles is an event, and the others stay.
LEMMA HandleType ==
  ASSUME events \in Seq(Event), NEW action, Handle(action)
  PROVE  Head(events).id \in Containers /\ events' \in Seq(Event)
<1>1. Head(events) \in Event /\ Tail(events) \in Seq(Event)
  BY DEF Handle
<1> QED BY <1>1 DEF Handle, Event

LEMMA WatcherKept ==
  ASSUME World, Watcher, Consistent, [DiscoveryNext]_discoveryVars
  PROVE  Watcher' /\ (watcher' = "writing" => inspected' \in [id : Containers, object : Object])
<1> DEFINE Goal ==
      Watcher' /\ (watcher' = "writing" => inspected' \in [id : Containers, object : Object])
<1>1. CASE ScanBegin \/ ScanCommit \/ UNCHANGED discoveryVars
  BY <1>1 DEF ScanBegin, ScanCommit, discoveryVars, Watcher, Consistent
<1>2. ASSUME NEW c \in Containers, ScanInspect(c) PROVE Goal
  <2>1. errors' \in 0..MaxErrors
    BY <1>2, ErrorsType DEF ScanInspect, Watcher
  <2> QED BY <1>2, <2>1 DEF ScanInspect, Watcher, Consistent
<1>3. CASE WatchBegin \/ WatchEnds
  BY <1>3 DEF WatchBegin, WatchEnds, Watcher
<1>4. CASE HandleStart
  <2> DEFINE c == Head(events).id
  <2>1. c \in Containers /\ events' \in Seq(Event) /\ watcher = "listening"
    BY <1>4, HandleType DEF HandleStart, Handle, Watcher
  <2>2. errors' \in 0..MaxErrors
    BY <1>4, ErrorsType DEF HandleStart, Watcher
  <2>3. CASE \E v \in HostVeths \cup {Null} :
               inspected' = [id |-> c, object |-> Inspected(c, v)] /\ watcher' = "writing"
    BY <2>1, <2>2, <2>3, InspectedType DEF Watcher
  <2>4. CASE UNCHANGED <<inspected, watcher>>
    BY <2>1, <2>2, <2>4 DEF Watcher
  <2> QED BY <1>4, <2>3, <2>4 DEF HandleStart
<1>5. CASE WriteStart
  BY <1>5 DEF WriteStart, Watcher
<1>6. CASE HandleDie \/ HandleDestroy
  <2>1. events' \in Seq(Event) /\ watcher = "listening"
    BY <1>6, HandleType DEF HandleDie, HandleDestroy, Handle, Watcher
  <2> QED BY <1>6, <2>1 DEF HandleDie, HandleDestroy, Watcher
<1>7. CASE Docker
  <2>1. events' \in Seq(Event)
    BY <1>7, EmitType DEF Docker, DockerStart, DockerPause, DockerUnpause, DockerDie,
                          DockerRemove, EngineDown, EngineUp, Watcher
  <2>2. UNCHANGED <<errors, watcher, inspected>>
    BY <1>7 DEF Docker, DockerStart, DockerPause, DockerUnpause, DockerDie, DockerRemove,
                Change, EngineDown, EngineUp
  <2> QED BY <2>1, <2>2 DEF Watcher, Consistent
<1> QED BY <1>1, <1>2, <1>3, <1>4, <1>5, <1>6, <1>7 DEF DiscoveryNext, Scan, Watch

LEMMA MapsKept ==
  ASSUME World, Watcher, Maps, Consistent, [DiscoveryNext]_discoveryVars
  PROVE  Maps'
<1>1. Nothing \in Entries
  BY DEF Nothing, Entries
<1>2. CASE ScanBegin
  BY <1>1, <1>2 DEF ScanBegin, Maps
<1>3. ASSUME NEW c \in Containers, ScanInspect(c) PROVE Maps'
  <2>1. \A v \in HostVeths \cup {Null} : [scan.found EXCEPT ![c] = Inspected(c, v)] \in Entries
    BY InspectedType DEF Maps, Entries
  <2> QED BY <1>3, <2>1 DEF ScanInspect, Maps
<1>4. CASE ScanCommit
  BY <1>1, <1>4 DEF ScanCommit, Maps
<1>5. CASE WriteStart
  BY <1>5 DEF WriteStart, Maps, Entries, Consistent
<1>6. CASE HandleDie
  <2> DEFINE c == Head(events).id
  <2>1. c \in Containers
    BY <1>6, HandleType DEF HandleDie, Watcher
  <2>2. CASE map[c] = Null
    BY <1>6, <2>2 DEF HandleDie, Maps
  <2>3. CASE map[c] # Null
    <3>1. map[c] \in Object
      BY <2>1, <2>3 DEF Maps, Entries
    <3>2. [map[c] EXCEPT !.state = "stopped"] \in Object
      BY <3>1 DEF Object
    <3>3. map' = [map EXCEPT ![c] = [map[c] EXCEPT !.state = "stopped"]]
      BY <1>6, <2>3 DEF HandleDie
    <3> QED BY <1>6, <2>1, <3>2, <3>3 DEF HandleDie, Maps, Entries
  <2> QED BY <2>2, <2>3
<1>7. CASE HandleDestroy
  BY <1>7 DEF HandleDestroy, Maps, Entries
<1>8. CASE WatchBegin \/ HandleStart \/ WatchEnds \/ Docker \/ UNCHANGED discoveryVars
  <2>1. UNCHANGED <<scan, map>>
    BY <1>8 DEF WatchBegin, HandleStart, WatchEnds, Docker, DockerStart, DockerPause,
                DockerUnpause, DockerDie, DockerRemove, Change, EngineDown, EngineUp, discoveryVars
  <2> QED BY <2>1 DEF Maps
<1> QED BY <1>2, <1>3, <1>4, <1>5, <1>6, <1>7, <1>8 DEF DiscoveryNext, Scan, Watch

-----------------------------------------------------------------------------

\* Docker's containers, the watcher with its pipe, the scan under way and the
\* map keep their types, for any containers and bounds; in particular the
\* watcher never writes an entry it has not inspected.
THEOREM DiscoveryTypeCorrect == DiscoverySpec => []DiscoveryTypeOK
<1>1. DiscoveryInit => DiscoveryInv
  BY DiscoveryInitInv
<1>2. DiscoveryInv /\ [DiscoveryNext]_discoveryVars => DiscoveryInv'
  BY DiscoveryFlagsKept, WorldKept, WatcherKept, MapsKept DEF DiscoveryInv, Consistent
<1>3. DiscoveryInv => DiscoveryTypeOK
  BY DiscoveryTypeParts DEF DiscoveryInv
<1> QED BY <1>1, <1>2, <1>3, PTL DEF DiscoverySpec
=============================================================================
