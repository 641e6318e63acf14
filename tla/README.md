# The cluster process manager in TLA+

This directory models the core of the CS320 cluster process manager (Go, `src/`)
and says what is checked and what is proved about it. TLC checks the models on
small instances; TLAPS proves the theorems for every value of the constants.

    tlc -workers 2 -config Contention.cfg MCController     # any run of the table below
    tlapm ControllerSafety.tla                             # the proofs

## 1. The system

A simulated cluster of nodes runs simulated processes. Time is a tick counter;
one call of `Step` is one tick. The parts, from the bottom up:

| part | source | state | operations |
|---|---|---|---|
| domain records | `internal/domain` | `Node`, `Process`, `ClusterState`, scenario documents | `Allocate`, `Release`, `CanFit`, `Transition`, `CanRestart`, `Validate` |
| schedulers | `internal/scheduler` | the cursor of round robin | `OrderReady`, `SelectNode` of three algorithms |
| controller | `internal/cluster` | `ClusterState`, `pendingProcesses`, `scheduledFailures`, the scheduler, all behind one mutex | node, process and simulation commands, `LoadScenario`, `Step`, `Snapshot` |
| engine | `internal/engine` | `cancel`, `done` of the ticker goroutine, behind `mu` and `controlMu` | `Start`, `Pause`, `Close`, `RunSteps`, `LoadScenario`, `Reset`, `RunScenario` |
| metrics | `internal/metrics` | none | a report computed from a snapshot; JSON and CSV export |
| event log | in `internal/cluster` | `events` and their sequence number, cut back by a rollback; the counters of `Statistics` | `emitLocked`, `Events` |
| HTTP API | `internal/transport/http` | none | handlers that decode, call one method and encode |
| store | `internal/store` | a copy of the state behind a mutex; a JSON file | `Save`, `Load`; nothing in the program calls it |
| server program | `cmd/server` | whether it serves, drains or ends | serve, shut down with a time limit, close the engine |
| other programs | `cmd/simulator`, `cmd/clusterctl`, `internal/logging` | none | flags, wiring, HTTP client, log lines |

How they meet: handlers and the engine's goroutine call the controller
concurrently and are serialised by its mutex; `Snapshot` hands out a deep copy
taken under it. Within `Step` the controller calls the scheduler with copies of
the nodes, and applies the answer to the nodes themselves. A node lists its
processes and counts what they take; a process names its node: two structures
that every placement, release and failure must change together.

The engine's goroutine and the requests meet over four things: `controlMu`, which a call
holds from beginning to end, also while it waits for the goroutine; `mu`, which
guards `cancel` and `done`; the context, which is cancelled to stop the goroutine; and
the channel `done`, which it closes when it has gone. The server program closes the
engine in a deferred call once the HTTP server has been shut down, or has not been in time.

What is hard in it, and where a test would hardly look:

- a tick changes the state in five stages and may fail after the first of many
  changes; the rollback restores a copy, only a part of the controller's state is in
  it, and the event log is taken back in a different way;
- the copies of the nodes the scheduler sees go stale with every placement of the
  same tick;
- capacity is given back on eight paths: pause, wait, kill, fail, failure of the
  node, missed heartbeat, scheduled failure and termination, some of them with a
  restart. One path that forgets a counter leaves it off for ever, and one that forgets
  an event leaves the log telling of another cluster;
- clients may kill, remove or take the target of an event that a scenario has
  scheduled for later;
- the decision to finish must neither abandon work nor spin;
- the loop of the engine reads the status in a second critical section after `Step`, and
  leaves by itself, so that a start, a stop or a submission can come at any point
  of its way out;
- the waiting time in a report is put together from pieces that are counted
  when a process is placed;
- the cursor of round robin is an index into a list that changes between calls.

What makes each part correct: for the *records*, exact counters within capacity;
for the *schedulers*, that the answer is unique, fits, and gives every node its turn
or the least load; for
the *controller*, the invariants and step properties of `ControllerProperties`, and
that to its callers each call is one step; for the *event log*, that it tells what
happened and is never taken back once read; for the *runner*, that it ends
within its budget, loses nothing and starves nobody; for the *engine*, that at most one loop ticks, that a
stop is complete and that every call returns; for the *server*, that it ends and
leaves nothing ticking; for the *metrics*, that the waiting time is the number of
ticks spent READY.

## 2. The modules

| module | models | extends |
|---|---|---|
| `ClusterState` | records, validation, resource arithmetic, transitions, the consistency check | - |
| `Schedulers` | queue order and node selection, as relations | `ClusterState` |
| `Rotation` | the loops that select a node, and round robin over a sequence of calls | `Schedulers` |
| `Scenario` | validation of a scenario and what loading makes of it | `Schedulers` |
| `Controller` | every command and the tick | `Scenario` |
| `ControllerProperties` | what the controller promises, property by property | `Controller` |
| `Simulation` | the simulation status: what each call of the controller does to it | - |
| `ClusterPromise` | a controller of atomic calls: the abstract specification | `Simulation`, `ClusterState` |
| `ControllerPromise` | that `Controller` implements it: `INSTANCE ClusterPromise WITH` what `Snapshot` returns | `ControllerProperties` |
| `EventLog` | the events, their numbers and the counters, beside the controller | `ControllerProperties` |
| `Metrics` | the report, beside the controller and a record of the ticks waited | `ControllerProperties` |
| `Runner` | `Engine.RunScenario` around the controller | `ControllerProperties` |
| `Engine` | the real-time goroutine and the calls of the engine | `Simulation` |
| `Server` | the server program around the engine | `Engine` |
| `MCController`, `MCRunner`, `MCEventLog`, `MCMetrics`, `MCRotation` | values of the constants, selections of actions for TLC | the modules they are named for |
| `ClusterLemmas` | proofs: demand and other sums, the orders that schedulers choose by | `Schedulers`, `TLAPS` |
| `ControllerSafety` | proofs: `TypeOK`, bookkeeping, the check, the rollback; the life of a process, what a tick decides, when it stops | `ControllerProperties`, `ClusterLemmas` |
| `ControllerRefines` | proofs: the refinement of `ClusterPromise` | `ControllerPromise`, `ControllerSafety` |
| `RunnerSafety` | proofs: the scenario runner | `Runner`, `ControllerRefines` |
| `LogSafety` | proofs: the log, its numbers and its counters | `EventLog`, `ControllerSafety` |
| `MetricsSafety` | proofs: the report | `Metrics`, `ControllerSafety` |
| `RotationSafety` | proofs: turns, and the loops that select a node | `Rotation`, `ClusterLemmas` |
| `EngineSafety` | proofs: the engine and the server | `Server`, `TLAPS` |

`Simulation` is what the two halves have in common. The engine needs of the
controller no more than the status that each call leaves, so `Engine` uses
`Simulation` in its place; `ClusterPromise` uses the same operators for its status, and
`Controller` is shown to implement `ClusterPromise`. So whatever a call of the modelled
controller does to the status, `Engine` lets it do.

### State

The maps `state.Nodes` and `state.Processes` are the functions `nodes` and
`procs` on the IDs in use. An ID is a positive number that stands for its rank
in string order, which is the order the code sorts by; 0 is the empty ID.
`pendingProcesses` and `scheduledFailures` are the sets `pending` and
`failures`, where the position of a failure in its document is a field, because
the failures of one tick are applied in document order.

### Actions

A command takes the mutex, acts and returns, so it is one action, guarded by
`Free`. A call that returns an error changes nothing and is no step. `Step`
is cut into the actions of six phases that follow the calls of
`lifecycle.go:164-207`:

| phase | actions | code |
|---|---|---|
| `idle` to `apply` | `BeginStep` keeps the copy and counts the tick | `lifecycle.go:164-186` |
| `apply` | `ApplySubmission`, `ApplyFailure`, `RejectFailure` | `scenario.go:119-156` |
| `beat` | `DetectMissedHeartbeat` | `recovery.go:152-168` |
| `place` | `Place`, `Defer` | `lifecycle.go:228-280` |
| `run` | `Execute` | `lifecycle.go:282-306` |
| `close` to `idle` | `EndStep`, or `Rollback` | `lifecycle.go:194-207, 375-416` |

While the phase is not `idle` the mutex is held: no command is enabled, and a
caller of `Snapshot` gets what was there before the tick. `Seen` is that view,
and the properties of what clients can observe are stated over it. Invariants of
`nodes` and `procs` hold in the middle of a tick as well.

`Vacate`, `SubmitLocked`, `FailProcessLocked` and `FailNodeLocked` are the
functions with these names (or, for `Vacate`, the common body of pausing and
waiting) that commands and ticks share.

**Engine.** `status` is the state of the controller, one step per call. A client is a
goroutine with a request: `at` says where it is in the code, from `lock`
(waiting for `controlMu`) to its return. `loop` says where each run of the goroutine is, and
`current` which of them `cancel` and `done` belong to; a loop can be on its way out
while the next one is being made, so names of loops are used again once they are
gone. A section under `mu` is one action: it never waits in it.

| code | actions |
|---|---|
| `Start`, `engine.go:33-53` | `Lock`, then `StartRefused`, or `StartAccepted`, `StartController`, `Spawn` |
| `stopRealtime`, `engine.go:95-105` | `CopyCancel`, `Cancel`, `AwaitDone` |
| `Pause`, `Close`, `Reset`, `LoadScenario` | `Act` after these; `LoadRefused` before them |
| `RunSteps` and `Controller.Steps` | `StepsRefused`, or `StepOnce`, then `LookAfterStep` or `LookAfterError`, and again |
| `loop`, `engine.go:55-80` | `LoopTick`, `LoopLook`, `LoopCancelled`, and in the deferred function `LoopClear`, `LoopClose` |

**Server.** The handlers are all clients but `Main`, which calls `Close` in the end. `late`
records that the program went on without waiting for its handlers: after the time
limit of the shutdown, or when the listener failed (`main.go:85-94`).

**Event log.** Each action of `EventLog` is an action of `Controller` conjoined with the
events it reports, in order, and what it counts. `kept` is what the tick under
way would take them back to. **Metrics** adds no step of its own either: `waited` counts,
for each process, the ticks that began while it was READY, and `cutShort` collects the
processes that failed or were killed in the queue; a tick that fails takes both back.
The report is computed from `Seen`. **Rotation** offers processes to round robin
one at a time; between calls nodes empty, drain, join and leave, and the cursor stays.
`patience` counts down how often a node may still be passed over.

### What is abstracted

- Names, error texts and JSON. A definition is a record of the decoded fields and
  need not be valid: the models go through the code's validation.
- The list `RunningProcessIDs` is a set: nothing depends on its order.
- Floats are computed with their rounding (`Rounded`: the nearest multiple of the unit in
  the last place, of two the even one), so that loads that tie exactly may come out
  different and the other way round, as in `loadScore`. The format is given by three
  constants: `One`, `Steps` and `Ulps`. The format of `float64` has `Steps` = 2^52;
  TLC's integers are too small for it, so the runs use 256. The theorems
  hold for any. The halving of both quotients in `loadScore` is exact and changes no
  order, so it is left out.
- A failure in a document has a node and a process field, of which its type looks at one
  (`id`). The other is `stray`; only the search for duplicates reads it.
- The entries for one tick in `pendingProcesses` are removed one by one as they
  are applied, not together at the end. A tick that fails restores the set either
  way, and nobody sees it in between.
- The sums of the utilization samples, which are floats; that a sample is taken in each
  tick is not left out (`LogSample`). Averages and rates of the report are quotients
  of the sums and counts in `Report`. Severities and messages of events.
- In `Engine` a tick succeeds, fails or is refused, and what it completes is a
  choice; time is no more than the order of the steps, so that the ticker may fire at any moment.
  A panic is not modelled.
- Integers have no width. A tick counter and priorities of 64 bits do not
  overflow in a run anyone performs, but a document could contain such values. Nor is
  the conversion of an amount beyond 2^53 to `float64` rounded, only what is computed from it.
- In `Controller`, `Steps` is a sequence of ticks between which other calls may come,
  which `BeginStep` may be at any time. `Engine` has its loop.

Definitions that begin with the comment "Fault:" are deliberately wrong variants
of the definition that follows. No specification uses them. They are what the
properties are tested against: with the variant in place of the original, TLC
finds the property violated.

## 3. The runs

| run | what it explores | checks |
|---|---|---|
| `Commands` | all commands, valid or refused, in any order with ticks; one node, one process, heartbeat timeout 1 | `TypeOK`, `HostsAreUp`, `Timeline`, `HeartbeatFresh`, `SilentNodesFailInTime`, `ReasonIffCompleted`, `KeepsPromise` |
| `Contention` | two nodes, three processes that do not fit together, three algorithms, node 1 failing, draining and recovering, processes leaving the queue and dying | `LedgerExact`, `Hosting`, `WorkConserving`, `TickIsConsistent`, `ScheduleIsDetermined`, `StopsExactlyWhenStuck`, `KeepsPromise` |
| `Scheduled` | scenarios with later submissions and failures whose targets clients kill, take or remove | `FailedTickIsInvisible`, `TickEnds`, `KeepsPromise` |
| `EventLog` | any command while the log is short; then two processes, a node that fails, ticks that fail half way | `LogTellsTheState`, `StatisticsMatchTheLog`, `LogIsNumbered`, `LogAccountsForResources`, `LogOnlyGrows` |
| `Metrics` | reports at any time of a run with failures, pauses and kills | `WaitIsReported`, `TimesAgree`, `ReportIsCoherent` |
| `Rotation` | selections among up to three nodes of two sizes that change in between | `EveryoneInTurn`, `WalkFindsTheNext`, `ScanFindsTheLeast` |
| `Runner` | `RunScenario` on about 3600 documents, some invalid | `BudgetEndsTheRun`, `NothingIsLost`, `NobodyStarves`, `OnlyFailuresFail` |
| `Engine` | two clients and the loop, every interleaving | `StopReachesTheLoop`, `StopIsComplete`, `QuietWhenStopped`, `CancelIsNotLeftOver`, `FailureIsReported`, `CallsReturn` |
| `Server` | a handler, the loop and a shutdown at any moment | `CleanShutdown`, `ShutdownEnds` |
| `Lifecycle` | as `Commands` | `DocumentedLifecycle`, violated |
| `Blocked` | as `Commands` | `BlockedOnlyWhileBlocked`, violated |
| `Waiting` | as `Metrics`, all commands, one process | `WaitIncludesReadyTime`, violated |

**What they show.** `Commands`: no sequence of commands leaves a stale record
or a reason without completion. Nodes that are DRAINING, OFFLINE or FAILED are not watched;
whatever brings one back to ONLINE also counts as a sign of life, so a client never
sees an ONLINE node that is overdue, and a tick fails a node exactly one tick after its timeout,
never for a silence while it was not watched. `Contention`: the two-sided bookkeeping is exact in every state of a
tick; a tick leaves nothing waiting that some node could take, whichever
algorithm is used; its choices are unique; and the simulation ends when, and only when,
the budget is used up or nothing can move, with the reason that applies. `Scheduled`: a tick that fails leaves no trace, and every tick
ends. In all three, a caller cannot tell the controller from one whose calls are
atomic, that keeps no counters and whose ticks happen at once or not at all
(`KeepsPromise`). That one is `ClusterPromise`, which says in one place what holds between
any two calls: capacities, the limits of the registry and restart budgets are kept; a
process changes its state only along the transitions that the call in question may take, and what
is over stays over; a tick takes one unit of the work of those that run, and a failure
sends it back to the start for one restart.

`EventLog`: the log alone tells the state of every process, where it runs and
what every node has allocated; it agrees with the counters; and a reader of
`Controller.Events` never sees an event that is later taken back. `Metrics`: the waiting time in a report is the number
of ticks spent in the queue, unless the process failed or was killed there, however
often it left it for a node and came back; the numbers of a report fit each other.
`Rotation`: the loops of the code find the node that the relations of `Schedulers`
select, also when the cursor comes from a longer list and in whatever order the
nodes are listed, ties and roundings included, and what it finds is the least loaded but for
a rounding of 5 / `Steps`. A node that could take every process is passed over at most
once for each other node, and that often again for each change of the list.

`Runner`: a run ends with its budget at the latest, submits and applies everything, and with
enough ticks it ends with everything terminated under every algorithm. All work being finite,
this would hold without aging; what aging adds is no property here.

`Engine`: at most one loop ticks, and every stop reaches it; what follows a stop has the
simulation to itself until the call returns; a loop does not go on in a simulation that
has completed; nothing is left behind that would refuse a later start; a failed
tick is not reported as success; and every call returns. `Server`: whenever the
program is told to stop it ends, with no loop ticking if its handlers had returned.

**Bounds.** `TickBound` stops the beginning of ticks. Three ticks suffice in
`Commands` for: start, a missed heartbeat, a restart, a second
failure that exhausts the budget, and a finish by each reason; four in `Contention`
for two units of work, a failure, a restart of a process and the tick limit of
the scenario, with `AgingInterval` 1 so that aging reorders the queue within them. In
`Scheduled` the limit of two processes is met when a client takes a slot
before a submission that is due, and the IDs a client uses are those of the scenario.
Two nodes are enough for a choice, a full node beside a free one and a
round robin that wraps; a process that fits neither is deferred. More nodes are
covered by the theorems for the bookkeeping, and by `Rotation` (three) for the selection.
`Runner` uses budgets of three ticks (too short) and nine (ample).

`LogBound` stops commands, never ticks, once the log is long: 12 events hold the load of
a scenario, a placement, a failure with a restart, the next placement and a tick that fails
after a submission, a node failure and their events. Until the log has `ShortLog` events, 4,
any command may come, which is any command on the result of any other. `Loops` are two names: a loop that is closing `done` and
one that is being made are the most there are at a time. A model with fewer would not make the start that finds no free
name; the safety theorems hold for any `Loops`.
`MaxSteps` 2 has a tick after which steps are left and one after which none are;
0 stands for a count that is not positive. One handler suffices in `Server`, since two
clients compete in `Engine`.

In `Rotation` the capacities are (3, 3) and (5, 5) and the requests (1, 2) and (2, 1). A small node
with 1 and 2 allocated and a large one with 2 and 3 then tie exactly: 1/3 + 2/3 against
2/5 + 3/5. With `Steps` 256 the rounding decides some of these ties, as it does for others with
2^52. `MaxPatience` 3 lets the list of three nodes change between two turns; a change that would
raise some node's patience further does not happen. That is enough for a node to lose its
turn, and without the bound the patience has none.

**Deadlock** is checked in `Commands`, `Scheduled`, `Rotation`, `Engine` and `Runner`. In
`Runner` a run that has returned stays as it is (`RunToTheEnd`), so that a run that is stuck anywhere else
would be reported; each call of `Step` uses up an iteration, so one that is never stuck returns. In `Contention`,
`EventLog` and `Metrics` the environment has few commands, or a bounded number,
and may be left with none of them applicable; a `Server` behaviour ends.

**Fairness.** `Spec` assumes `WF_vars(InsideStep)`: the goroutine that is inside
`Step` holds the mutex and waits for nothing, so it runs on; nothing is assumed
about when a command or a tick begins. `TickEnds` needs no more.

`EngineSpec` assumes that goroutines that can run do: weak fairness of `Proceed` for
each client and of `LoopNext` for each loop (the ticker fires again and again).
Two assumptions are strong. `Lock`: `sync.Mutex` hands itself over to a goroutine that has
waited for a millisecond, so a waiting client gets it although others keep taking
it. `LoopCancelled`: a `select` of which several cases are ready chooses one
at random, so a cancelled context is not overlooked for ever while the ticker
is ready as well. `CallsReturn` needs all of them. Nothing is assumed about
requests, or about what a tick completes. `ServerSpec` assumes the same while the program lives, that
the time limit of `Shutdown` runs out (`TimedOut`), and that `main` goes on
(`DeferredClose`, `Exit`); `Drained` and the signal are not assumed. No other liveness is
claimed; in particular nothing says that a client ever recovers a node.

**Findings.** Three runs show that the code does something other than the documents,
or its own messages, say.

- `Lifecycle`: the diagram of `docs/architecture.md:66-88` gives `WAITING` a
  single edge, to `READY`. The transition table lets a waiting process fail or be
  killed, and both commands do so.
- `Blocked`: `docs/architecture.md:120` says `EXTERNALLY_BLOCKED` asks for a wake
  or a resume. After that command the controller still reports the reason and stays
  `COMPLETED`, so the next tick is refused although the process is READY; only
  `Start` or a submission takes the reason back.
- `Waiting`: `docs/experiments.md:41` says of work that never started that its waiting
  metric includes the observed ready time. A process that fails in the queue and may restart
  is queued with a new `LastReadyAtTick` (`recovery.go:143`); what it had waited is lost.

Two behaviours contradict no document but may surprise. One: `Start` answers "real-time engine is
already running" (`engine.go:42`) while `cancel` is set, and the loop clears it some time after
its last tick, so a start that comes then is refused although nothing ticks any more. In
`Engine` this is `StartRefused` between `LoopLook` and `LoopClear`.

So may another: round robin can skip a node when the list changes. Its cursor is a position and
is kept, modulo the new length (`round_robin.go:41`). Of the nodes 1, 2, 3 let 2 be selected, so that
the cursor is 2 and it is node 3's turn. Then node 1 leaves. The position is now 2 % 2 = 0, that of node 2,
which is selected again. If node 1 registers and leaves again at the right moments, node 3 is passed over
each time, without bound. `src/README.md:91` says "cycles through nodes in stable ID order and
skips unavailable/full nodes", of a list that changes it says nothing. `EveryoneInTurn` therefore
allows one round more for each change, and no more than that.

## 4. The theorems

| theorem | states | module |
|---|---|---|
| `TypeCorrect` | `Spec => []TypeOK` | `ControllerSafety` |
| `LedgerCorrect` | `Spec => []LedgerExact` | `ControllerSafety` |
| `HostingCorrect` | `Spec => []Hosting` | `ControllerSafety` |
| `HostsAreUpCorrect` | `Spec => []HostsAreUp` | `ControllerSafety` |
| `ChecksSucceed` | `Spec => []TickIsConsistent` | `ControllerSafety` |
| `FailureIsInvisible` | `Spec => FailedTickIsInvisible` | `ControllerSafety` |
| `TimelineCorrect` | `Spec => []Timeline` | `ControllerSafety` |
| `ReasonCorrect` | `Spec => []ReasonIffCompleted` | `ControllerSafety` |
| `HeartbeatsCorrect` | `Spec => []HeartbeatFresh` | `ControllerSafety` |
| `SilenceIsNoticed` | `Spec => SilentNodesFailInTime` | `ControllerSafety` |
| `NothingIsPassedOver` | `Spec => []WorkConserving` | `ControllerSafety` |
| `ScheduleDetermined` | `Spec => []ScheduleIsDetermined` | `ControllerSafety` |
| `StopsWhenStuck` | `Spec => StopsExactlyWhenStuck` | `ControllerSafety` |
| `PromiseKept` | `Spec => KeepsPromise` | `ControllerRefines` |
| `BudgetIsKept` | `RunnerSpec => []BudgetEndsTheRun` | `RunnerSafety` |
| `FailuresAlone` | `RunnerSpec => []OnlyFailuresFail` | `RunnerSafety` |
| `NothingLost` | `RunnerSpec => []NothingIsLost` | `RunnerSafety` |
| `NobodyIsStarved` | `RunnerSpec => []NobodyStarves`, if `HeartbeatTimeout = 0` | `RunnerSafety` |
| `NumbersCorrect` | `LogSpec => []LogIsNumbered` | `LogSafety` |
| `StatisticsCorrect` | `LogSpec => []StatisticsMatchTheLog` | `LogSafety` |
| `LogTells` | `LogSpec => []LogTellsTheState` | `LogSafety` |
| `LogAccounts` | `LogSpec => []LogAccountsForResources` | `LogSafety` |
| `LogGrows` | `LogSpec => LogOnlyGrows` | `LogSafety` |
| `WaitIsRight` | `MetricsSpec => []WaitIsReported` | `MetricsSafety` |
| `TimesFit` | `MetricsSpec => []TimesAgree` | `MetricsSafety` |
| `ReportCoheres` | `MetricsSpec => []ReportIsCoherent` | `MetricsSafety` |
| `EveryoneGetsATurn` | `RotationSpec => []EveryoneInTurn` | `RotationSafety` |
| `WalkIsRight` | `RotationSpec => []WalkFindsTheNext` | `RotationSafety` |
| `ScanIsRight` | `RotationSpec => []ScanFindsTheLeast` | `RotationSafety` |
| `StopReachesTheLoopCorrect` | `EngineSpec => []StopReachesTheLoop` | `EngineSafety` |
| `StopIsCompleteCorrect` | `EngineSpec => []StopIsComplete` | `EngineSafety` |
| `QuietWhenStoppedCorrect` | `EngineSpec => []QuietWhenStopped` | `EngineSafety` |
| `CancelIsNotLeftOverCorrect` | `EngineSpec => []CancelIsNotLeftOver` | `EngineSafety` |
| `FailureIsReportedCorrect` | `EngineSpec => []FailureIsReported` | `EngineSafety` |
| `CleanShutdownCorrect` | `ServerSpec => []CleanShutdown` | `EngineSafety` |

Those about the controller, its log, the runner and the report hold for all finite sets of IDs, all configurations, all
decoded inputs and any tick bound: the assumptions are `IdsAssumption` (IDs are
positive numbers, finitely many), `AgingAssumption`, `ConfigAssumption` and
`InputAssumption` (inputs have the types the decoder produces; they need not be
valid). Those about the engine hold for any set of clients, any set of loops and any
number of steps, from `EngineAssumption` and `MainAssumption` (the values that
stand for nobody are nobody's names); those about the rotation for any nodes and
processes, from `RotationAssumption` (requests and capacities are positive). What is said
of selection holds for any format of the floats, from `FloatAssumption` (1 has at least as many units
as there are steps between powers of two).
TLC evaluates all of them. One theorem has a hypothesis: `NobodyIsStarved` is about a
controller without a heartbeat timeout, which is how `cmd/simulator/main.go:43` makes
the one that runs scenarios. With a timeout the nodes of a document, which send no
heartbeats, would fail.

**The argument for the controller.** None of the invariants is inductive alone. The counters of a
node can be exact after a release only if the process that leaves is one the node
lists, so `LedgerExact` needs `Hosting`; a failure of a running process takes
the short way when its host is FAILED, so `Hosting` needs `HostsAreUp`, which says
this never happens. `Sound(ns, ps)` is the conjunction of the three, over any two
maps. A tick that fails returns to the copy, so the copy must be sound as well;
and a placement would list a process twice if the process had begun to run since
the phase began, so what is still to be visited must be as it was
(`TodoIsFresh`). Hence

    IInv == TypeOK /\ Sound(nodes, procs) /\ Sound(saved.nodes, saved.procs)
              /\ SavedIsWhole /\ TodoIsFresh

After the types, `ControllerSafety` is about two maps and one update of
both: staying, changing nodes, vacating, placing, emptying a node. Each keeps
`Sound`. Then there is a lemma per action that says which of these it is. The sum
in `CountersMatch` is the cardinality of a set of units (`Demand`), so that the laws
of finite sets give what joining and leaving do to it (`ClusterLemmas`);
a recursive sum would need an induction at every use.
`SoundIsConsistent` shows that `Sound` passes the code's own check at the end of a
tick. So the only rollbacks are those of the first phase, before the scheduler
has moved its cursor, which the rollback does not restore: this is
`FailureIsInvisible`.

**What time does.** The other properties of the controller rest on a second invariant:

    PInv == IInv /\ StatusRight /\ Lived(procs, tick) /\ Lived(saved.procs, saved.tick)
              /\ HeartbeatRight /\ SnapshotsCurrent /\ WorkConserving

`Evolves(old, new)` lists what one step may make of one process record; each action
is shown to evolve the processes it touches, and that this keeps what `Lived` says of a record
is proved once. A tick that fails goes back in time, so the record in
the copy must be right at the time of the copy. `HeartbeatRight` is `HeartbeatFresh` of the nodes as
they are and of the copy, with one tick more allowed from the beginning of a tick until its heartbeats
are looked at (`Patience`). It is kept because whatever makes a node ONLINE sets its heartbeat
(`HostsAge`), and it is why a node that is overdue in a tick was not so before
(`SilentNodesFailInTime`). `WorkConserving` needs that the snapshots are
those of the nodes as they are (`SnapshotsCurrent`), for the node that was selected
then takes the process, and that nothing is released while processes are placed, so one that was
deferred still fits nowhere. For `ScheduleIsDetermined`, the orders are strict and total and
every finite set has a least element (`LeastExists`); of round robin, that the offsets
of two nodes from the cursor differ (`OffsetOrder`).

**The refinement.** A command is one step of `ClusterPromise` and the steps inside a tick
are none, because what is seen is the copy. The last step of a tick shows all at once what the tick
has done, so the invariant relates every state in it to the copy:

    RInv == PInv /\ the limits of the registry, now and in the copy
              /\ (phase # "idle" => HostsKept /\ JobsUnderway)

`HostsKept`: a node is what it was, or FAILED. `JobsUnderway`: each process is what one tick can
make of what it was in the copy, or of what was submitted, as far as the phase has come
(`Underway`); `Feasible` follows from `Sound`. A scenario counts IDs
where the promise counts nodes and processes, which is the same since valid documents
do not use an ID twice.

**The runner.** Nobody else commands the controller, so what was loaded is there:
each process of the document is submitted or pending (`Accounted`), what is pending is due later
(`StillToCome`), and the ticks that are left and the ticks that went by make the budget;
all this of the copy as well. The first three theorems follow from this `RunnerInv`.
For `NobodyStarves` the work that is left is counted in units, a pair for each tick of
execution that a process needs. `Steady`: as long as work is left, each tick since the submission of
some process has done a unit of it (`OnSchedule`), which bounds the tick by that submission and all the work. A tick that begins with work
takes a unit at least: something runs, or is placed because it fits an empty node
(`WorkConserving`), or everything that is left is yet to be submitted, which
the budget allows for.

**The log.** What a log says of a cluster is put in three ways that a sequence can be
taken apart by: the last move of each process (`TellsOf`), the grants that nothing after
them takes back (`HoldingsOf`) and the number of events of each type (`CountsOf`). If a log was
right, it is right with what is appended (`ReportedIsRight`), provided that the new entries
describe what every process became (`Describes`), account for the runs that began and ended
(`Accounts`) and are counted (`Counts`). So the proof
has a lemma per action that says what its entries are, and never looks at the log
before. Loading and reset begin a log. A tick that fails cuts the log and returns to the copy, so

    LogInv == PInv /\ LogRight(events, stats, nodes, procs, tick) /\ ...
                /\ (phase # "idle" => LogRight(what is kept, kept.stats, saved...))

The entries of a node that fails are put together by `FlattenSeq` over a list in ID order, which
is recursive: `FlattenUnrolls` turns it into a function by a witness, and `MadeOf` says of
any such list that it is the reports of its members one after the other, so that what
is said of a process is what its own part says.

**The report.** The controller keeps no history; `MetricsSpec` counts tick by tick, and
`MInv` says what the record of a process makes of that count at any moment: what was added
at its placements, and what has passed since it was queued. It holds of the
copy and what the history was when the copy was made. For the sums of a report,
`SumOfPieces` puts sets of units together.

**The rotation.** The patience of a node is never less than the number of nodes that are before it
in turn: a selection takes one from the first and at least one from
the second (`OthersComeNearer`), and a change of the list adds to the first as much as the second can be
(`TurnsAfterChange`). The loops of the code are recursive functions,
`Walk` over offsets and `Scan` through a fold. Each is shown to exist by a witness, the function that
looks up the answer, and to compute it by a least counterexample: of the offsets at which the
loop would answer wrongly one is last, of the sets of positions one is smallest.
For the accuracy of the scores, `NearestIsNear` bounds one rounding by half a unit, a unit is at most
the `Steps`-th part of what is rounded (`RoundedIsNear`), and the three roundings of a score together
are within what `ScanFindsTheLeast` allows (`ScoreIsNear`, `BestIsLeastLoaded`).

**The argument for the engine.** The properties say what a client or a loop may rely on at
one point; the invariant says the same of every point before it:

    EInv == EngineTypeOK /\ Ownership /\ LoopIsNamed
              /\ MadeByStart /\ StopKnowsTheLoop /\ StatusFits /\ TicksLeft

`Ownership`: one client is past `Lock`, and it is the one that has `controlMu`. `LoopIsNamed`: `current`
names a loop exactly from the section in which it is made to the one in which it
is cleared; this gives `StopReachesTheLoop` and `CancelIsNotLeftOver`. `StopKnowsTheLoop`:
a client in `stopRealtime` waits for the only loop there can be, and past it there is
none, because no one else has `controlMu` to start one: `StopIsComplete`. `StatusFits`: a
status that somebody has read and acts on can since have changed only in
ways that do not matter, which is `QuietWhenStopped` for the loop and
`FailureIsReported` for `RunSteps`. `EngineSafety` has a lemma per action.
For the server, a step of the program is a step of the engine (`ServerStepIsEngineStep`), so
`EInv` holds there as well; `SInv` adds that `main` calls nothing but `Close`, and
that past a shutdown in time no handler is at work, so that after `Close` nobody starts a loop.

**Only model-checked.** Liveness (`TickEnds`, `CallsReturn`, `ShutdownEnds`), which is
beyond the prover, and that no run is stuck before it returns. Every invariant and step property that a passing run checks has
a theorem.

## 5. What is not modelled, and the plan

| part | why not |
|---|---|
| HTTP handlers of nodes, processes and reports | one decoded call each; the interleaving of their calls is `Command`. Routing, decoding, status codes and bodies are conversions of single values |
| averages, deviation, exports | arithmetic on floats, and output |
| store | no caller; a copy behind a mutex |
| `clusterctl`, logging | one request per invocation, output |
| reading scenario files, flags, environment | input before anything runs |

What is left to do is proof. Liveness is out of the prover's reach, but its safety half is not:
that every step inside a tick takes something off what the tick has still to do (the entries that
are due, the nodes and processes to visit, the phases), so that `TickEnds` rests on
fairness alone; the same for the ticks of a run.
