--------------------------- MODULE DatabaseProofs ---------------------------
(***************************************************************************)
(* The safety properties of the tables, for any containers, ages and       *)
(* retention times.                                                        *)
(***************************************************************************)
EXTENDS Database, TLAPS

-----------------------------------------------------------------------------
(* Type correctness.                                                       *)

Inserting == [at : {"insert"}, id : Containers, usage : Usage, current : BOOLEAN]
Updating == [at : {"update"}, id : Containers, usage : Usage]

\* What the stage of the poll loop says of what it holds.
LEMMA PollStages ==
  ASSUME TypeOK
  PROVE  /\ poll.at = "insert" => poll \in Inserting
         /\ poll.at = "update" => poll \in Updating
BY DEF TypeOK, Idle, Inserting, Updating

LEMMA OlderType ==
  ASSUME NEW age \in Ages
  PROVE  /\ Older(age) \in Ages
         /\ age <= KeepHours => Older(age) = age + 1
BY DatabaseAssumption DEF Older, Ages

LEMMA InspectedType ==
  ASSUME NEW c \in Containers
  PROVE  Inspected(c) \in States
BY DEF Inspected, States

LEMMA DiscoverType ==
  ASSUME TypeOK, Discover
  PROVE  /\ listed' \subseteq Containers
         /\ state' \in [Containers -> States]
         /\ today' \in [Containers -> Usage]
         /\ todo' \subseteq Containers
         /\ poll' \in {Idle} \cup Inserting \cup Updating
<1>1. /\ listed' \subseteq Containers /\ todo' \subseteq Containers
      /\ today' \in [Containers -> Usage] /\ state' \in [Containers -> States]
  BY DatabaseAssumption, InspectedType DEF Discover, TypeOK, memory, Usage
<1>2. CASE poll.at = "insert" /\ up # {}
  BY <1>1, <1>2, PollStages DEF Discover, Inserting
<1>3. CASE ~(poll.at = "insert" /\ up # {})
  BY <1>1, <1>3 DEF Discover, TypeOK, Inserting, Updating
<1> QED BY <1>1, <1>2, <1>3

\* Every variable keeps its type: what the rows hold are ages and units of
\* usage, and samples have ages of hours.
THEOREM TypeCorrect == Spec => []TypeOK
<1> USE DatabaseAssumption
<1>1. Init => TypeOK
  <2> SUFFICES ASSUME Init PROVE TypeOK
    OBVIOUS
  <2>1. /\ today \in [Containers -> Usage] /\ stored \in [Containers -> Usage]
        /\ seen \in [Containers -> Ages] /\ recorded \in [Containers -> Ages]
        /\ samples \in [Containers -> SUBSET Ages]
        /\ state \in [Containers -> States]
    BY DEF Init, Ages, Usage, States
  <2>2. poll \in {Idle} \cup Inserting \cup Updating
    BY DEF Init
  <2> QED BY <2>1, <2>2 DEF Init, TypeOK, Jobs, Inserting, Updating
<1>2. TypeOK /\ [Next]_vars => TypeOK'
  <2> SUFFICES ASSUME TypeOK, [Next]_vars PROVE TypeOK'
    OBVIOUS
  <2>2. CASE Boot
    <3>1. /\ listed' \subseteq Containers /\ todo' \subseteq Containers
          /\ state' \in [Containers -> States]
          /\ today' \in [Containers -> Usage]
          /\ poll' \in {Idle} \cup Inserting \cup Updating
      <4>1. CASE Discover
        BY <4>1, DiscoverType
      <4>2. CASE UNCHANGED <<memory, todo, poll>>
        BY <4>2 DEF TypeOK, memory, Inserting, Updating
      <4> QED BY <2>2, <4>1, <4>2 DEF Boot
    <3> QED BY <2>2, <3>1 DEF Boot, TypeOK, environment, tables, Jobs, Inserting, Updating
  <2>3. CASE Crash
    <3>1. today' \in [Containers -> Usage] /\ state' \in [Containers -> States]
      BY <2>3 DEF Crash, Usage, States
    <3>2. poll' \in {Idle} \cup Inserting \cup Updating
      BY <2>3 DEF Crash
    <3> QED BY <2>3, <3>1, <3>2
        DEF Crash, TypeOK, environment, tables, Jobs, Inserting, Updating
  <2>4. CASE DiscoveryJob
    BY <2>4, DiscoverType
    DEF DiscoveryJob, TypeOK, environment, tables, Jobs, Inserting, Updating
  <2>5. CASE ResetDaily
    <3>1. poll' \in {Idle} \cup Inserting \cup Updating
      BY <2>5, PollStages DEF ResetDaily, TypeOK, Inserting, Updating, Usage
    <3>2. today' \in [Containers -> Usage] /\ state' \in [Containers -> States]
      BY <2>5 DEF ResetDaily, TypeOK, Usage, States
    <3> QED BY <2>5, <3>1, <3>2
        DEF ResetDaily, TypeOK, environment, tables, Jobs, Inserting, Updating
  <2>6. CASE CleanupStaleContainers
    BY <2>6 DEF CleanupStaleContainers, CleanupBegins, TypeOK, environment, memory, Jobs, Usage, Ages
  <2>7. ASSUME NEW c \in Containers, UpsertContainer(c) PROVE TypeOK'
    BY <2>7 DEF UpsertContainer, TypeOK, environment, memory, Ages
  <2>8. CASE BootEnd \/ DiscoveryEnd
    BY <2>8 DEF BootEnd, DiscoveryEnd, TypeOK, environment, memory, tables, Jobs
  <2>9. CASE ResetDailyUsage
    BY <2>9 DEF ResetDailyUsage, TypeOK, environment, memory, Jobs, Usage
  <2>10. CASE CleanupOldUsage
    BY <2>10 DEF CleanupOldUsage, TypeOK, environment, memory, Jobs
  <2>11. ASSUME NEW c \in Containers, PollCollect(c) PROVE TypeOK'
    <3>1. PICK usage \in Usage :
                 /\ today' = [today EXCEPT ![c] = usage]
                 /\ poll' = [at |-> "insert", id |-> c, usage |-> usage, current |-> TRUE]
      BY <2>11 DEF PollCollect
    <3>2. today' \in [Containers -> Usage] /\ poll' \in Inserting
      BY <3>1 DEF TypeOK, Inserting
    <3>3. state' \in [Containers -> States]
      BY <2>11 DEF PollCollect, TypeOK, States
    <3> QED BY <2>11, <3>2, <3>3 DEF PollCollect, TypeOK, environment, tables, Inserting
  <2>12. CASE InsertUsage
    <3>1. poll \in Inserting
      BY <2>12, PollStages DEF InsertUsage
    <3>2. poll' \in Updating /\ samples' \in [Containers -> SUBSET Ages]
      BY <2>12, <3>1 DEF InsertUsage, TypeOK, Inserting, Updating, Ages
    <3> QED BY <2>12, <3>2 DEF InsertUsage, TypeOK, environment, memory, Updating
  <2>13. CASE UpdateContainerUsage
    <3>1. poll \in Updating
      BY <2>13, PollStages DEF UpdateContainerUsage
    <3> QED BY <2>13, <3>1
        DEF UpdateContainerUsage, TypeOK, environment, memory, Updating
  <2>14. ASSUME NEW c \in Containers,
                EventStop(c) \/ ContainerStarts(c) \/ ContainerStops(c) \/ ContainerPauses(c)
         PROVE  TypeOK'
    BY <2>14 DEF EventStop, ContainerStarts, ContainerStops, ContainerPauses, TypeOK,
                 States, environment, memory, tables
  <2>15. ASSUME NEW c \in Containers, EventStart(c) PROVE TypeOK'
    <3>1. poll' \in {Idle} \cup Inserting \cup Updating
      BY <2>15, PollStages DEF EventStart, TypeOK, Inserting, Updating
    <3>2. today' \in [Containers -> Usage] /\ state' \in [Containers -> States]
      BY <2>15, InspectedType DEF EventStart, TypeOK, Usage
    <3> QED BY <2>15, <3>1, <3>2
        DEF EventStart, TypeOK, environment, tables, Inserting, Updating
  <2>16. CASE Engine
    BY <2>16 DEF Engine, TypeOK, memory, tables
  <2>17. CASE Hour
    BY <2>17, OlderType DEF Hour, TypeOK, environment, memory, Ages
  <2>18. CASE UNCHANGED vars
    BY <2>18 DEF vars, TypeOK, environment, memory, tables
  <2> QED
    BY <2>2, <2>3, <2>4, <2>5, <2>6, <2>7, <2>8, <2>9, <2>10, <2>11, <2>12,
       <2>13, <2>14, <2>15, <2>16, <2>17, <2>18
    DEF Next, JobStep, Poll
<1> QED BY <1>1, <1>2, PTL DEF Spec

-----------------------------------------------------------------------------
(* Samples and rows.                                                       *)

\* Every sample belongs to a row: InsertUsage fails without one, and deleting
\* a row deletes its samples, as long as the pool has one connection.
THEOREM SamplesBelong == MaxConns = 1 /\ Spec => []SamplesHaveRows
<1> SUFFICES ASSUME MaxConns = 1 PROVE Spec => []SamplesHaveRows
  OBVIOUS
<1>1. Init => SamplesHaveRows
  BY DEF Init, SamplesHaveRows
<1>2. TypeOK /\ SamplesHaveRows /\ [Next]_vars => SamplesHaveRows'
  <2> SUFFICES ASSUME TypeOK, SamplesHaveRows, [Next]_vars PROVE SamplesHaveRows'
    OBVIOUS
  <2>1. ASSUME UNCHANGED <<rows, samples>> PROVE SamplesHaveRows'
    BY <2>1 DEF SamplesHaveRows
  <2>2. CASE InsertUsage
    <3>1. UNCHANGED rows /\ poll.id \in Containers
      BY <2>2, PollStages DEF InsertUsage, Inserting
    <3>2. poll.id \in rows \/ UNCHANGED samples
      BY <2>2 DEF InsertUsage, Enforcing
    <3>3. \A c \in Containers : c # poll.id => samples'[c] = samples[c]
      BY <2>2 DEF InsertUsage, TypeOK
    <3> QED BY <3>1, <3>2, <3>3 DEF SamplesHaveRows
  <2>3. CASE CleanupStaleContainers
    BY <2>3 DEF CleanupStaleContainers, Enforcing, SamplesHaveRows
  <2>4. ASSUME NEW c \in Containers, UpsertContainer(c) PROVE SamplesHaveRows'
    BY <2>4 DEF UpsertContainer, SamplesHaveRows
  <2>5. CASE CleanupOldUsage
    BY <2>5 DEF CleanupOldUsage, SamplesHaveRows
  <2>6. CASE Hour
    BY <2>6 DEF Hour, SamplesHaveRows
  <2>7. CASE \/ Boot \/ Crash \/ DiscoveryJob \/ ResetDaily
             \/ BootEnd \/ DiscoveryEnd \/ ResetDailyUsage \/ UpdateContainerUsage
             \/ Engine \/ UNCHANGED vars
    BY <2>7, <2>1 DEF Boot, Crash, DiscoveryJob, ResetDaily, BootEnd,
         DiscoveryEnd, ResetDailyUsage, UpdateContainerUsage, Engine, vars, tables
  <2>8. ASSUME NEW c \in Containers,
               \/ PollCollect(c) \/ EventStart(c) \/ EventStop(c)
               \/ ContainerStarts(c) \/ ContainerStops(c) \/ ContainerPauses(c)
        PROVE  SamplesHaveRows'
    BY <2>8, <2>1 DEF PollCollect, EventStart, EventStop,
         ContainerStarts, ContainerStops, ContainerPauses, tables
  <2> QED
    BY <2>2, <2>3, <2>4, <2>5, <2>6, <2>7, <2>8 DEF Next, JobStep, Poll
<1> QED BY <1>1, <1>2, TypeCorrect, PTL DEF Spec

\* A sample younger than KeepHours goes only with its row, for any number of
\* connections: CleanupOldUsage and CleanupStaleContainers are the only
\* statements that delete, and no upsert does.
THEOREM SamplesKept == Spec => SamplesAreKept
<1> DEFINE Kept == \A c \in Containers :
                     (\E age \in samples[c] : age <= KeepHours /\ age \notin samples'[c]
                                               /\ age + 1 \notin samples'[c])
                       => c \notin rows'
<1>1. TypeOK /\ [Next]_vars => [Kept]_vars
  <2> SUFFICES ASSUME TypeOK, Next PROVE Kept
    OBVIOUS
  <2>1. ASSUME \A c \in Containers : samples[c] \subseteq samples'[c] PROVE Kept
    BY <2>1
  <2>2. CASE CleanupStaleContainers
    BY <2>2 DEF CleanupStaleContainers
  <2>3. CASE CleanupOldUsage
    BY <2>3 DEF CleanupOldUsage
  <2>4. CASE Hour
    BY <2>4, OlderType DEF Hour, TypeOK
  <2>5. CASE InsertUsage
    <3>1. \A c \in Containers : samples[c] \subseteq samples'[c]
      BY <2>5 DEF InsertUsage, TypeOK
    <3> QED BY <2>1, <3>1
  <2>6. CASE \/ Boot \/ Crash \/ DiscoveryJob \/ ResetDaily
             \/ BootEnd \/ DiscoveryEnd \/ ResetDailyUsage \/ UpdateContainerUsage
             \/ Engine
    BY <2>6, <2>1 DEF Boot, Crash, DiscoveryJob, ResetDaily, BootEnd,
         DiscoveryEnd, ResetDailyUsage, UpdateContainerUsage, Engine, tables
  <2>7. ASSUME NEW c \in Containers,
               \/ UpsertContainer(c) \/ PollCollect(c)
               \/ EventStart(c) \/ EventStop(c)
               \/ ContainerStarts(c) \/ ContainerStops(c) \/ ContainerPauses(c)
        PROVE  Kept
    BY <2>7, <2>1 DEF UpsertContainer, PollCollect, EventStart, EventStop,
         ContainerStarts, ContainerStops, ContainerPauses, tables
  <2> QED
    BY <2>2, <2>3, <2>4, <2>5, <2>6, <2>7 DEF Next, JobStep, Poll
<1> QED BY <1>1, TypeCorrect, PTL DEF Spec, SamplesAreKept

-----------------------------------------------------------------------------
(* Rows.                                                                   *)

\* last_seen is the time of the last recorded discovery.
SeenIsRecorded == \A c \in rows : seen[c] = recorded[c]

\* A row goes only when its container was not recorded for StaleHours, when
\* the local time is UTC.
THEOREM StaleRows == Offset = 0 /\ Spec => OnlyStaleRowsGo
<1> SUFFICES ASSUME Offset = 0 PROVE Spec => OnlyStaleRowsGo
  OBVIOUS
<1>1. Init => SeenIsRecorded
  BY DEF Init, SeenIsRecorded
<1>2. TypeOK /\ SeenIsRecorded /\ [Next]_vars => SeenIsRecorded'
  <2> SUFFICES ASSUME TypeOK, SeenIsRecorded, [Next]_vars PROVE SeenIsRecorded'
    OBVIOUS
  <2>1. ASSUME UNCHANGED <<rows, seen, recorded>> PROVE SeenIsRecorded'
    BY <2>1 DEF SeenIsRecorded
  <2>2. CASE CleanupStaleContainers
    BY <2>2 DEF CleanupStaleContainers, SeenIsRecorded, TypeOK
  <2>3. ASSUME NEW c \in Containers, UpsertContainer(c) PROVE SeenIsRecorded'
    BY <2>3 DEF UpsertContainer, SeenIsRecorded, TypeOK
  <2>4. CASE Hour
    BY <2>4 DEF Hour, SeenIsRecorded, TypeOK
  <2>5. CASE \/ Boot \/ Crash \/ DiscoveryJob \/ ResetDaily
             \/ BootEnd \/ DiscoveryEnd \/ ResetDailyUsage \/ CleanupOldUsage
             \/ InsertUsage \/ UpdateContainerUsage \/ Engine \/ UNCHANGED vars
    BY <2>5, <2>1 DEF Boot, Crash, DiscoveryJob, ResetDaily, BootEnd,
         DiscoveryEnd, ResetDailyUsage, CleanupOldUsage, InsertUsage,
         UpdateContainerUsage, Engine, vars, tables
  <2>6. ASSUME NEW c \in Containers,
               \/ PollCollect(c) \/ EventStart(c) \/ EventStop(c)
               \/ ContainerStarts(c) \/ ContainerStops(c) \/ ContainerPauses(c)
        PROVE  SeenIsRecorded'
    BY <2>6, <2>1 DEF PollCollect, EventStart, EventStop,
         ContainerStarts, ContainerStops, ContainerPauses, tables
  <2> QED
    BY <2>2, <2>3, <2>4, <2>5, <2>6 DEF Next, JobStep, Poll
<1>3. SeenIsRecorded /\ [Next]_vars
        => [\A c \in rows \ rows' : recorded[c] > StaleHours]_vars
  <2> SUFFICES ASSUME SeenIsRecorded, Next, NEW c \in rows \ rows'
               PROVE  recorded[c] > StaleHours
    OBVIOUS
  <2>1. CASE CleanupStaleContainers
    BY <2>1 DEF CleanupStaleContainers, Stale, SeenIsRecorded
  <2>2. CASE \E d \in Containers : UpsertContainer(d)
    BY <2>2 DEF UpsertContainer
  <2>3. ASSUME UNCHANGED rows PROVE FALSE
    BY <2>3
  <2>4. CASE \/ Boot \/ Crash \/ DiscoveryJob \/ ResetDaily
             \/ BootEnd \/ DiscoveryEnd \/ ResetDailyUsage \/ CleanupOldUsage
             \/ InsertUsage \/ UpdateContainerUsage \/ Engine \/ Hour
    BY <2>4, <2>3 DEF Boot, Crash, DiscoveryJob, ResetDaily, BootEnd,
         DiscoveryEnd, ResetDailyUsage, CleanupOldUsage, InsertUsage,
         UpdateContainerUsage, Engine, Hour, tables
  <2>5. CASE \E d \in Containers :
              \/ PollCollect(d) \/ EventStart(d) \/ EventStop(d)
              \/ ContainerStarts(d) \/ ContainerStops(d) \/ ContainerPauses(d)
    BY <2>5, <2>3 DEF PollCollect, EventStart, EventStop,
         ContainerStarts, ContainerStops, ContainerPauses, tables
  <2> QED BY <2>1, <2>2, <2>4, <2>5 DEF Next, JobStep, Poll
<1> QED BY <1>1, <1>2, <1>3, TypeCorrect, PTL DEF Spec, OnlyStaleRowsGo
=============================================================================
