# Verification of bandwidthd

Bandwidth-flow-maintainer runs a daemon, `bandwidthd`, that finds the docker
containers of a host, limits the traffic of each with Linux `tc`, counts it
against a daily quota, throttles a container that is over its quota and tells
the world by webhooks. This directory holds TLA+ models of its core logic, the
TLC configurations that check them, and proofs checked by TLAPS.

`tlc -config X.cfg MCM.tla` checks one configuration, `tlapm MProofs.tla` the
proofs. `PROJECT.json` lists the runs, maps each definition to the lines it
models, and lists hazards, findings and theorems.

## The system

| Part | State it keeps | Operations | Talks to |
|---|---|---|---|
| `internal/daemon` | the subsystems, the socket listener | New, Start (boot, poll loop), Stop, socket commands | everything |
| `internal/docker` | map ID -> *pointer* to Container | Discover (scheduled), event watcher, ListContainers | the docker CLI |
| `internal/monitor` | counter snapshot per ID | Collect, which also adds to the container's usage | /sys/class/net |
| `internal/quota` | lastReset; sets state and usage in Containers | CheckQuota, ApplyExceededThrottle, ResetDaily, ShouldReset | Containers |
| `internal/tc` | rules by ID, owner by interface | ApplyLimit, RemoveLimit, RepairRules, RemoveAll, VerifyAll | the `tc` command |
| `internal/scheduler` | jobs with LastRun | Start, tick, Stop | discovery, reset, cleanup and health jobs |
| `internal/webhook` | bounded queue, workers, statistics | Send, deliver with retries, Stop | HTTP endpoints |
| `internal/database` | SQLite tables | upsert, usage, history, retention | SQLite |
| `internal/cleanup` | none | one retention cycle: rows, RepairRules, VACUUM | database, tc, docker |
| `internal/api`, `internal/metrics` | HTTP servers | read-only handlers, Shutdown / Close | docker, database, tc |
| `internal/health` | none | one report over the other parts | all |
| `internal/logger` | current file | log, rotate, Close | files |
| `internal/config`, `internal/cli`, `internal/tui` | files, terminal | load, validate, edit YAML; commands; dashboard | the socket |

What makes the daemon hard is that the Containers are shared by pointer and
without a common lock: the poll loop, the scheduler's jobs, the event watcher
and every socket handler read and write them, and the discovery job replaces
them under everybody's feet. Shutdown takes eleven subsystems down in a fixed
order while some goroutines are not waited for. Docker changes between any two
of the daemon's commands and may itself restart. Any `tc` command may fail,
also those that delete, whose errors nobody looks at.

What must hold: limits that the kernel enforces are never forgotten, unless
`tc` refuses to delete them; no traffic
is counted twice; throttling follows the quota and is lifted by the reset;
every accepted notification is tried, in order; jobs do not starve; the
known containers converge to docker's; nothing is used after it was closed; a
signal always ends the daemon; no log line is lost by a rotation or a restart;
the dashboard ends up showing what was asked for last.

## Modules

| Module | Models | State and actions |
|---|---|---|
| `TrafficControl` | `internal/tc` | `rules`, `ifaceMap` are the manager's maps, `qdisc` the kernel. Each exported method holds `Manager.mu` throughout and is one action; the ways its commands can end are its branches: where an addition fails (`Outcomes`), and which deletions do (`refused`). `kept` is not in the code: what `tc` refused to delete when the interface was last cleaned. |
| `QuotaEnforcement` | the shared Containers | `heap` holds every object ever allocated and `map` the current one of each ID. The poll loop, the scheduler's goroutine, a socket handler and the watcher are separate processes; each access to a shared field is a step, so `TodayRxGB +=` is a load and a store. Throttling takes the lock under which ResetDaily works. `failed` is not in the code: the containers whose last ApplyLimit failed. |
| `DockerDiscovery` | `internal/docker` | a scan is list, inspects, commit; the watcher takes events from its pipe and, for a start, inspects and then writes. Docker's containers and engine change in between, inspects may fail, and so may the `docker exec` that reads the index of a veth: always in a paused container and in one of `Bare`. Then the object has the first veth of the host, whosever it is. Inspect and exec are one step: a container that stops between them is one whose exec fails. |
| `Webhook` | `internal/webhook` | one action per channel operation and per HTTP attempt. |
| `Scheduler` | `internal/scheduler` | the goroutine's select, tick, jobs; the ticker with its one-place channel; times are ages, capped. |
| `DaemonLifecycle` | `Daemon.Start` to `Daemon.Stop` | one action per step of Stop; the other goroutines reduced to what they do to rules, webhook queue and database. |
| `Database` | `internal/database`, `internal/cleanup` | `rows`, `seen`, `stored` are the table `containers`, `samples` the table `usage`; `Enforcing` is what a pool of several connections does to the foreign keys. The poll loop passes over the containers that are disabled, paused, stopped or exceeded. One action per SQL statement; poll and jobs are between two statements when others run, and the process may die there. |
| `ConfigFile` | `internal/config`, `bandwidth configure`, `Daemon.New` | `file` is the document on disk, a sequence of lines. The daemon loads it (`Start`), may make a token and save (`New`, `Save`); the wizard reads it, edits `draft` answer by answer and writes it. A write is two steps, emptying and writing, and either process may die between them. `Load` is what the YAML parser makes of the nesting, `Hits` how the wizard finds a line. |
| `Shaper` | what `internal/tc` promises | each interface has a limit or none in either direction, and an owner or none; limits fade and never change without a call that succeeds; `TrafficControl` implements it: the limit is what the qdiscs of the interface enforce, the rate of the class and of the policer if it was installed, and the owner is what `ifaceMap` says. |
| `Logger` | `internal/logger` | the current file, the rotated ones by the second in their name, and `handle`, the process's open file. `log` with its rotation is one step, which a kill may cut; the rename and the reopening may fail. |
| `AppendLog` | what a reader of the logs may rely on | one sequence that only grows; `Logger` implements it with all its files read in order. |
| `Dashboard` | `bandwidth top` in `internal/tui` | the fields of `DashboardModel` that keys, clicks and results change. Update takes one message at a time; each refresh is a process of its own that captured mode and key when it was issued. Containers and interfaces come and go. |
| `TrafficControlProofs`, `QuotaProofs`, `WebhookProofs`, `DaemonLifecycleProofs`, `DatabaseProofs`, `DashboardProofs` | theorems about the module they are named after | |
| `ServiceProofs`, `FileProofs` | theorems about `Scheduler` and `DockerDiscovery`; about `ConfigFile` and `Logger` | The two of each pair share nothing. So that one module can extend both, what every other module calls `Init`, `Next`, `Spec`, `vars` and `TypeOK` has a prefix in `DockerDiscovery` and in `Logger`. |

How they fit: `QuotaEnforcement` reduces the manager of `TrafficControl` to the
speed it leaves on a veth, and takes a discovery as one step; `DockerDiscovery`
has its parts. `DaemonLifecycle` reduces the subsystems to their effects; that
workers leave and jobs end is the business of `Webhook` and `Scheduler`.

Definitions marked `Mutant:` are not part of the models. Each is a definition
with a plausible bug; put in the place of the original, TLC finds the property
named in `PROJECT.json` violated.

## Runs

| Run | What it shows | Bounds, and why they are enough |
|---|---|---|
| `traffic_control` | `EnforcedIsTracked`: whatever fails or moves, an enforced limit that is not on the books before shutdown is one `tc` refused to delete. `OwnerRateIsCurrent`: the kernel's rate is the owner's. `RepairLeavesOnlyListed`, with the same exception. `ImplementsShaper`: a limit comes only with its owner, what fails makes limits fade, and only on the interfaces the call is about. | 2 containers, 2 veths: sharing a veth, moving and coming back. 2 sets of speeds: configured, and all zero (also a zero exceeded speed). No bound on the length. Containers are symmetric, and so are veths: nothing tells them apart. The theorems lift the sizes. |
| `quota_safety` | `UsageIsReal`: no byte counted twice through new veths, replaced objects and resets. `OneNoticePerReset`: poll decides at most once, between two resets of an object, to tell of it; a notice under way when the reset comes may follow it. `ResetLiftsThrottles`: what ResetDaily hands over is not exceeded. `ShapingFollowsState`: the last ApplyLimit sees the last state, unless it failed. | One container (the properties speak of one), two objects (one replacement), two veths, two units of traffic with quota 1, two days: the first object exceeds its quota, is reset and exceeds it again; the second, which has no quota for want of a label, counts over several polls. `tc` may fail at any call, and leave the old limit or none. |
| `quota_liveness` | `OverQuotaIsThrottled`, `ResetHappens`, and `ShapingFollowsState` again. | The same with one veth, one unit, `tc` that works and a time zone that loads. |
| `webhook` | `OnePlace`, `StatsAreExact`, `FirstInFirstOut`, `AcceptedIsTried`, `StopReturns`. | 2 workers, queue of 2, 2 tries, enough tasks to fill queue and workers and to drop some. |
| `scheduler` | `NoJobAfterStop`, `JobsAreServed`, `StopReturns`. | 2 jobs with different intervals; ages are capped at the longest interval, so time itself has no bound. |
| `lifecycle` | `NothingUsedAfterClose`, `RulesStayRemoved`, `StopTerminates`. | One socket connection, one request, two workers: each is waited for, or not, on its own. |
| `discovery` | `MapSettles`: once docker settles with a container up, the map is accurate for good. | 2 containers, one of them with a veth that cannot be read; 3 changes, one engine restart, one failing inspect or exec: a change before, within and after a scan. An entry is accurate when its state is, and its veth if it can be read. |
| `database` | `SamplesHaveRows`, `OnlyStaleRowsGo`, `SamplesAreKept`, `OldSamplesGo`, `SamplingGoesOn`. | One container (no statement relates two; two with shorter retention also pass, in four minutes), rows stale after 1 hour and samples old after 2: both limits are crossed separately. One connection, UTC. The container is not disabled; the theorems have any `Disabled`. |
| `config_file` | `ShownIsInForce`: the wizard shows what the parser reads. `StartsAsMeant`: while writers do not overlap and no write is cut short, a start has the answers of all wizards and the saved token, and no other change. `ValidFileStarts`. | One token, one refused rate, one other zone; the file has an endpoint whose `enabled` is nested below another `enabled`, and the API on without a token. Keys that are handled alike are represented by one. |
| `dashboard` | `SelectionIsShown`: whatever comes before a shorter list, the selected row is on the screen. `ListSettles`: stale refreshes do not stay. | One container and two interfaces, in another order for each key; two refreshes at a time, which is what it takes for them to end in the wrong order; a terminal of two rows, so that the list scrolls. |
| `logger` | `ImplementsAppendLog`. | Files of 2 lines, 7 lines in 5 seconds: three rotations, with kills, failures and restarts between any two of them. A file is not filled twice within one second (`LoggerAssumption`), for then the second rotated file would replace the first, and writes succeed. |
| `usage_is_kept` | violated: discovery throws the day's usage away. | |

`CHECK_DEADLOCK FALSE` is set where the program ends (`webhook`, `scheduler`,
`lifecycle`, `dashboard`) and where a bounded environment may run out of moves
(`discovery`, `database`, `config_file`, `logger`).

Further counterexamples. These have a configuration of their own, named after
the property (module in parentheses): `MCUsageIsTodays`,
`MCExceededMeansOverQuota`, `MCExceededIsSlowed`, `MCThrottledIsTracked`,
`MCDisabledIsUntouched`, `MCDiscoveredIsLimited`, `MCResetRestores`,
`MCEveryDayIsReset` (MCQuotaEnforcement); `MCStopNeedsNoClient` (MCDaemonLifecycle);
`MCDockerIsRetried`, `MCGoneIsForgotten` (MCDockerDiscovery); `MCTokenSurvives`,
`MCSavedIsValid`, `MCUrlIsWritten` (`StartsAsMeant` when a URL is typed),
`MCWrittenByHand` (`StartsAsMeant` with a file that lacks keys) (MCConfigFile);
`MCWestOfUtc` (`OnlyStaleRowsGo` in a zone behind UTC), `MCTwoConnections`
(`SamplesHaveRows` with two connections) (MCDatabase).

The others need only the constants of a passing run: put the property into its
configuration, in the place of those that are there.

| Configuration | Properties it then violates |
|---|---|
| `MCTrafficControl.cfg` | `RemovalRemoves`, `RemoveAllRemoves`, `RepairRepairs`, `RatesArePositive` (PROPERTY), `VerifyAllIsSound` (INVARIANT) |
| `MCDaemonLifecycle.cfg` | `NoRulesLeft`, `NoBusyLoop` (INVARIANT) |
| `MCWebhook.cfg` | `StopDrains` (INVARIANT), `FailedIsRetried` (PROPERTY) |
| `MCDockerDiscovery.cfg` | `VethIsOwn` (INVARIANT) |
| `MCDatabase.cfg` | `RestartKeepsUsage` (PROPERTY) |
| `MCDashboard.cfg` | `ClickSelectsShown` (PROPERTY) |
| `Logger.cfg` | `RotationReopens` (PROPERTY) |

What each shows is in `PROJECT.json` under "findings".

## Fairness

Weak fairness stands for Go's scheduler: a goroutine that can go on does. It is
given to the daemon's own goroutines only, never to docker, to traffic, to the
clock's midnights, or to clients. Exceptions, each stated where it is used: the
docker engine comes back up (`DockerDiscovery`), API clients take their answers
(`ClientFairness`, without which `StopNeedsNoClient` fails). Strong fairness is
used where `select` has two ready cases: Go picks one at random, so
`ctx.Done` is not passed over for ever; and in `Database` for jobs that share
the scheduler's goroutine with others, which `JobsAreServed` justifies, and for
the turn of each container in the poll loop, and in `ConfigFile` because a
start is not interrupted every time. In `Database`, `Hour` waits for a scan
while docker answers: discovery runs every few seconds. That external commands and HTTP
requests end is part of weak fairness of the step that runs them: the HTTP
client has a timeout, `docker` and `tc` are assumed to return. In `Dashboard`
the timer fires, the commands of a refresh end (`docker stats` has a deadline)
and Update gets to each message; nothing is assumed of the user.

## Proofs

`TrafficControlProofs` proves for any containers, interfaces and speeds that
satisfy the assumptions of `TrafficControl`:

- `TypeCorrect`: `Spec => []TypeOK`, which is inductive by itself; it needs
  that a rule built from a profile is a `Rule` (`RuleForType`).
- `Tracked`: `EnforcedIsTracked` is inductive together with `TypeOK`: after an
  apply that fails, only what `tc` refused to delete is in force (`Failing`),
  and every action that takes an owner off the books tells `tc` to clean that
  interface (`Cleaning`), so what stays there is in `kept`.
- `OwnerRate`: `OwnerRateIsCurrent` is inductive with `TypeOK`: an apply writes
  kernel, rule and owner together, a removal clears the rule of the interface
  it cleans.
- `Implements`: `Spec => ImplementsShaper`. Each action maps to one of the
  Shaper's or to a stutter: a failing apply to `Lose` (`FailLoses`), a
  successful one to `Impose` (`SuccessImposes`), a removal and a repair to
  `Release`, and a link that goes down to `Lose`. Which deletions fail decides
  only what fades (`Fading`).
- `RepairListed`: the action property, from `Tracked`: a limited interface has
  an owner, unless `tc` refused before, and the repair cleans it unless that
  owner is listed with it.

`QuotaProofs` proves for any containers, veths, quotas and bounds, from
`ConstantsAssumption`, the invariant `IInv`. Its first five parts are `TypeOK`;
`Known` (every goroutine holds objects that were allocated, so an object replaced
under its feet is still one); `Booked` (usage, the store under way and the next
difference of the counters together are at most the traffic, which is what
makes `UsageIsReal` inductive across the load and the store of `+=`); `Lifted`
(what ResetDaily is done with is not exceeded: throttling waits for its lock);
`Noticed` (the notices of an object since its reset, and what may still lead to
one before the next, are at most one). From them follow `TypeCorrect`,
`UsageReal`, `ResetLifts` and `OneNotice`. The lemmas
are about allocation (`Numbered`, `Allocating`), about steps that write objects
in place (`TouchingInPlace`) and about which counters only grow (`Grows`).

`ShapingFollows` proves `ShapingFollowsState`, which is true only when nobody is
at work; the other parts of `IInv` say what holds meanwhile. `Kept` and
`Original`: an object that is still in the map from the start is the only one
its container ever had, and is the one that the goroutines hold. `Relisted`: a
list that was taken has it. `Right`: the limit on its veth is the one its state
calls for, or its last ApplyLimit failed; or else some goroutine has it ahead of it on its way to an ApplyLimit
(`Pursued`), and reads the state only then, so that the last one to do so sees
the last state. `Shaped` carries this through each step; `Applied` and
`RightStays` are the two kinds of step.

`ServiceProofs` proves for any jobs and intervals `TypeCorrect` and `Stopped`
(`NoJobAfterStop`) of `Scheduler`, from `Joined`: when Stop has returned, the
loop has. And for any containers and bounds `DiscoveryTypeCorrect`, with
`Consistent`: no container starts more often than containers change, and a
watcher about to write has inspected what it writes.

`FileProofs` proves of `ConfigFile`, for any values, rates, zones and tokens:

- `ConfigTypeCorrect`: `Spec => []TypeOK`, for any documents.
- `PromptsShowTheConfig`: `ShownIsInForce`, if `Straight`: the files of an
  installation are `Plain`, so that the line that the wizard finds for a
  setting is the one that YAML gives to it. `ShippedIsPlain` in `MCConfigFile`
  lets TLC evaluate that of the shipped file on every run; `MCWrittenByHand`
  shows what happens without it. The invariant is `Docs`: every copy of the
  file is plain or empty. It rests on two facts about the operators:
  `ReplacePlain`, an edit changes the setting it means and no other, since only
  a value changes and the nesting (`PathStays`) does not; and `MarshalPlain`,
  what Save writes is plain and `Load` returns what was saved, line by line
  (`MarshalLayout`, `LayoutPaths`).
- `NothingElseIsChanged`: `StartsAsMeant`, if also `Urls = {}`, for the wizard
  does not write the URL it asks for (`MCUrlIsWritten`). `Answers` says that the
  draft is what was read with the answers so far; `Ready` that between two
  writes the file has the settings it is meant to have, and that while one
  writer is at it nobody else is, unless `meant` is `Unknown`.

And of `Logger`, for any file size, rate and bounds:

- `FilesAreOneLog`: `LoggerSpec => ImplementsAppendLog`. `NoSecondRotation` is
  the invariant: no file has a stamp that is still to come, and once there is
  one with the stamp of this second, too few lines are left in the second to
  fill another (`FullIsUnrotated`, the only use of `PerSecond <= MaxSize`). Then
  a rotation puts its lines after all earlier ones (`FlattenGrows`) and `Log`
  is the abstract `Line`. What `FlattenSeq` computes is a recursion, which is
  shown to exist, and to do this, by looking at the first index for which it
  would not (`FlattensExists`, `NoFirst`).
- `LoggerTypeCorrect`.

`DaemonLifecycleProofs` proves for any connections, requests and workers
`TypeCorrect`, `NothingUsed` (`NothingUsedAfterClose`) and `StayRemoved`
(`RulesStayRemoved`), from `Ordered`: once Stop has passed the step that waits
for a goroutine, that goroutine is at its end. `Steps`, `BeforeListed` and
`PassedTc` say what the order of `StopSteps` means for `Passed`.

`DashboardProofs` proves for any names, loads, terminals and numbers of
refreshes `TypeCorrect` and `SelectionShown` (`SelectionIsShown`), which needs
that the selection is an index of the list whenever there is one.

`WebhookProofs` proves for any finite set of workers, any capacity, any number
of tries and tasks:

- `TypeCorrect`: `TypeOK`, of which the capacity of the queue is a part.
- `Placing`: `OnePlace` is inductive with `Numbered`: the queue and the workers
  hold only tasks that were offered, and later ones have no outcome
  (`PlacedAlways`). The lemmas say what each move of a task does to the places:
  `AcceptPlaces`, `DropPlaces`, `TakePlaces`, `FinishPlaces`.
- `Counting`: `StatsAreExact`, from `Placed`: a worker's task has no outcome
  yet, so one set grows by one task and the others stay (`FinishCounts`).
- `Ordering`: `FirstInFirstOut`, from `Placed`: what finishes was not dropped.

`DatabaseProofs` proves for any containers, ages and retention times:

- `TypeCorrect`; `SamplesBelong`: `SamplesHaveRows` for `MaxConns = 1`, when
  the foreign key is always enforced.
- `SamplesKept`: `SamplesAreKept`, for any number of connections.
- `StaleRows`: `OnlyStaleRowsGo` for `Offset = 0`, from `SeenIsRecorded`.
  With another offset, or a second connection, the last and the first do not
  hold: see the counterexamples.

Only model-checked: every liveness property (out of the prover's reach, with
ENABLED). Every safety invariant, action property and refinement that a passing
run checks is proved.

## Not modelled, and the plan

Not modelled, because there is no state to go wrong: `internal/health` (each
call asks the other parts and reports the worst; what its `VerifyAll` misses is
the finding `VerifyAllIsSound`), HTTP handlers beyond their lifetime, CLI
output, the drawing of the dashboard with its histories and the geometry of its
buttons. `Focus`, `Period` and `ShowHelp` only choose what is drawn.
`internal/service` writes a unit file and calls `systemctl`; what the unit says
of restarts is in `ConfigFile` and `Database`. `QuotaEnforcement` takes the veth
of a container for its own; what happens when it is not is the finding
`VethIsOwn`. The tables of the database that nobody writes are left out.

What is left of the plan: the safety half of what is now only liveness, as
invariants that TLC checks and TLAPS proves, first that of `MapSettles` in
`DockerDiscovery` (an entry that is not accurate is one that a scan, an
inspect or an event under way will still correct).
