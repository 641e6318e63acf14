------------------------------- MODULE Controller -------------------------------
(***************************************************************************)
(* cluster.Controller: the cluster state behind one mutex, the commands    *)
(* that change it, and the tick.                                           *)
(*                                                                         *)
(* A command takes the mutex, changes the state and returns, so it is one  *)
(* action; a call that returns an error changes nothing and is no step.    *)
(* Step holds the mutex from beginning to end but is a long program with   *)
(* two error exits that restore a copy of the state, so it is cut into the *)
(* actions of the phases below.  While a phase other than "idle" is active *)
(* the mutex is held: no command is enabled, and a reader can see only     *)
(* what was there before the tick, which is what Seen is.                  *)
(*                                                                         *)
(*   apply  scheduled submissions, then scheduled failures, of this tick   *)
(*   beat   nodes whose heartbeat is overdue fail                          *)
(*   place  the ready processes, in order, are offered a node              *)
(*   run    each running process does a tick of work and may terminate     *)
(*   close  the finish decision and the consistency check                  *)
(***************************************************************************)
EXTENDS Scenario

CONSTANTS
  HeartbeatTimeout,   \* Config.HeartbeatTimeoutTicks, 0 turns detection off
  MaxNodes,           \* Config.MaxNodes
  MaxProcesses,       \* Config.MaxProcesses
  DefaultAlgorithm,   \* Config.Scheduler
  Capacities,         \* inputs: capacities a node is registered with
  Definitions,        \* inputs: process definitions that are submitted
  Scenarios,          \* inputs: scenario documents that are loaded
  TickBound           \* bound: no tick begins once CurrentTick reaches it

ASSUME ConfigAssumption ==
  /\ HeartbeatTimeout \in Nat
  /\ MaxNodes \in Nat \ {0} /\ MaxProcesses \in Nat \ {0}
  /\ DefaultAlgorithm \in Algorithms
  /\ TickBound \in Nat

\* The inputs have the types the decoders produce, and need not be valid.
ASSUME InputAssumption ==
  /\ Capacities \subseteq [Resources -> Int]
  /\ Definitions \subseteq ProcessDefinition
  /\ \A s \in Scenarios :
       /\ s.maxTicks \in Int
       /\ s.nodes \subseteq [id : NodeIds, capacity : [Resources -> Int]]
       /\ s.processes \subseteq Submission
       /\ s.failures \in Seq([at : Int, type : FailureTypes, id : NodeIds \cup ProcIds,
                              stray : NodeIds \cup ProcIds \cup {0}])

VARIABLES
  nodes,      \* state.Nodes, a function on the registered IDs
  procs,      \* state.Processes, a function on the submitted IDs
  tick,       \* state.CurrentTick
  status,     \* state.SimulationStatus
  reason,     \* state.FinishReason
  maxTicks,   \* state.MaxTicks, 0 without a scenario
  algorithm,  \* the selected scheduler
  cursor,     \* RoundRobin.cursor
  pending,    \* pendingProcesses, a set of [id, at, def]
  failures,   \* scheduledFailures, a set of [at, pos, type, id]
  phase,      \* what Step is doing, "idle" when the mutex is free
  todo,       \* the processes the current phase has still to visit
  snaps,      \* the node snapshots that scheduleReadyLocked works on
  saved       \* the copy of the state that a failed tick returns to

clusterVars  == <<nodes, procs, tick, status, reason>>
scheduleVars == <<pending, failures>>
schedulerVars == <<algorithm, cursor>>
stepVars == <<phase, todo, snaps, saved>>
vars == <<clusterVars, maxTicks, scheduleVars, schedulerVars, stepVars>>

-----------------------------------------------------------------------------

NoNodes == [n \in {} |-> 0]
NoProcs == [p \in {} |-> 0]

Current == [nodes |-> nodes, procs |-> procs, tick |-> tick,
            status |-> status, reason |-> reason,
            pending |-> pending, failures |-> failures]

NothingSaved == [nodes |-> NoNodes, procs |-> NoProcs, tick |-> 0,
                 status |-> "IDLE", reason |-> "",
                 pending |-> {}, failures |-> {}]

\* The state a caller of Snapshot can read.
Seen == IF phase = "idle" THEN Current ELSE saved

Reasons == {"", "ALL_TERMINAL", "MAX_TICKS", "NO_ONLINE_CAPACITY",
            "EXTERNALLY_BLOCKED"}

Init ==
  /\ nodes = NoNodes /\ procs = NoProcs
  /\ tick = 0 /\ status = "IDLE" /\ reason = "" /\ maxTicks = 0
  /\ pending = {} /\ failures = {}
  /\ algorithm = DefaultAlgorithm /\ cursor = 0
  /\ phase = "idle" /\ todo = {} /\ snaps = NoNodes /\ saved = NothingSaved

Free == phase = "idle" /\ UNCHANGED stepVars

-----------------------------------------------------------------------------
(* Parts shared by several commands; each is called with the mutex held *)

\* A kill or a failure is refused when the process is over.
Alive(p) == procs[p].state \notin Terminal

\* Fault: pending definitions count against the limit they are submitted under.
CanSubmitWithPending(p, def) ==
  /\ Cardinality(DOMAIN procs) + Cardinality(pending) < MaxProcesses
  /\ ValidDefinition(def)
  /\ p \notin DOMAIN procs

\* submitProcessLocked
CanSubmit(p, def) ==
  /\ Cardinality(DOMAIN procs) < MaxProcesses
  /\ ValidDefinition(def)
  /\ p \notin DOMAIN procs

\* Fault: a reopened simulation still shows why it was completed.
SubmitWithOldReason(p, def) ==
  /\ CanSubmit(p, def)
  /\ procs' = [q \in DOMAIN procs \cup {p} |->
                 IF q = p THEN [NewProcess(def, tick) EXCEPT !.state = "READY"]
                          ELSE procs[q]]
  /\ status' = IF status = "COMPLETED" THEN "IDLE" ELSE status
  /\ UNCHANGED reason

SubmitLocked(p, def) ==
  /\ CanSubmit(p, def)
  /\ procs' = [q \in DOMAIN procs \cup {p} |->
                 IF q = p THEN [NewProcess(def, tick) EXCEPT !.state = "READY"]
                          ELSE procs[q]]
  /\ status' = IF status = "COMPLETED" THEN "IDLE" ELSE status
  /\ reason' = IF status = "COMPLETED" THEN "" ELSE reason

\* releaseLocked succeeds for process p.
CanRelease(p) ==
  /\ procs[p].node \in DOMAIN nodes
  /\ Releasable(nodes[procs[p].node], p, procs[p])

AfterRelease(p) ==
  [nodes EXCEPT ![procs[p].node] = Released(@, p, procs[p])]

\* A running process gives up its node and goes to state s.
Vacate(p, s) ==
  /\ procs[p].state = "RUNNING"
  /\ CanRelease(p)
  /\ nodes' = AfterRelease(p)
  /\ procs' = [procs EXCEPT ![p] = [Unplaced(@) EXCEPT !.state = s]]

\* A process outside the cluster is put in the ready queue.
Requeue(p, s) ==
  /\ procs[p].state = s
  /\ procs' = [procs EXCEPT ![p].state = "READY", ![p].lastReady = tick]
  /\ UNCHANGED nodes

\* failProcessLocked.  A process whose host is FAILED or gone only forgets it.
OnLiveHost(p) ==
  /\ procs[p].state = "RUNNING"
  /\ procs[p].node \in DOMAIN nodes
  /\ nodes[procs[p].node].status # "FAILED"

CanFailProcess(p) ==
  /\ p \in DOMAIN procs
  /\ Alive(p)
  /\ OnLiveHost(p) => CanRelease(p)

FailProcessLocked(p) ==
  /\ CanFailProcess(p)
  /\ nodes' = IF OnLiveHost(p) THEN AfterRelease(p) ELSE nodes
  /\ procs' = [procs EXCEPT ![p] =
       AfterFailure(IF @.state = "RUNNING" THEN Unplaced(@) ELSE @, tick)]

\* failNodeLocked.  It would stop half way at a listed process that is not
\* there or is terminal; Hosting in ControllerProperties says none is.
CanFailNode(n) == n \in DOMAIN nodes /\ nodes[n].status # "FAILED"

FailNodeLocked(n) ==
  /\ CanFailNode(n)
  /\ nodes' = [nodes EXCEPT ![n] = Emptied(@)]
  /\ procs' = [p \in DOMAIN procs |->
                 IF p \in nodes[n].running
                   THEN AfterFailure(Unplaced(procs[p]), tick)
                   ELSE procs[p]]

-----------------------------------------------------------------------------
(* Commands on nodes *)

RegisterNode(n, capacity) ==
  /\ Free
  /\ Cardinality(DOMAIN nodes) < MaxNodes
  /\ ValidCapacity(capacity)
  /\ n \notin DOMAIN nodes
  /\ nodes' = [m \in DOMAIN nodes \cup {n} |->
                 IF m = n THEN NewNode(capacity, tick) ELSE nodes[m]]
  /\ UNCHANGED <<procs, tick, status, reason, maxTicks, scheduleVars, schedulerVars>>

RemoveNode(n) ==
  /\ Free
  /\ n \in DOMAIN nodes
  /\ nodes[n].running = {} /\ nodes[n].allocated = Nothing
  /\ nodes' = [m \in DOMAIN nodes \ {n} |-> nodes[m]]
  /\ UNCHANGED <<procs, tick, status, reason, maxTicks, scheduleVars, schedulerVars>>

FailNode(n) ==
  /\ Free
  /\ FailNodeLocked(n)
  /\ UNCHANGED <<tick, status, reason, maxTicks, scheduleVars, schedulerVars>>

NodeTransitions ==
  {<<s, s>> : s \in NodeStatuses}
    \cup {<<"ONLINE", "DRAINING">>, <<"ONLINE", "OFFLINE">>,
          <<"DRAINING", "ONLINE">>, <<"DRAINING", "OFFLINE">>,
          <<"OFFLINE", "ONLINE">>, <<"OFFLINE", "RECOVERING">>,
          <<"RECOVERING", "ONLINE">>}

\* Fault: a node with running processes may be taken OFFLINE.
ChangeBusyNodeStatus(n, s) ==
  /\ Free
  /\ n \in DOMAIN nodes
  /\ s # "FAILED"
  /\ <<nodes[n].status, s>> \in NodeTransitions
  /\ nodes' = [nodes EXCEPT ![n].status = s,
                            ![n].heartbeat = IF s = "ONLINE" THEN tick ELSE @]
  /\ UNCHANGED <<procs, tick, status, reason, maxTicks, scheduleVars, schedulerVars>>

\* Fault: a node that goes back ONLINE is as silent as it was.
ChangeOnlyStatus(n, s) ==
  /\ Free
  /\ n \in DOMAIN nodes
  /\ s # "FAILED"
  /\ <<nodes[n].status, s>> \in NodeTransitions
  /\ s = "OFFLINE" => nodes[n].running = {}
  /\ nodes' = [nodes EXCEPT ![n].status = s]
  /\ UNCHANGED <<procs, tick, status, reason, maxTicks, scheduleVars, schedulerVars>>

\* ChangeNodeStatus to FAILED is FailNode.
ChangeNodeStatus(n, s) ==
  /\ Free
  /\ n \in DOMAIN nodes
  /\ s # "FAILED"
  /\ <<nodes[n].status, s>> \in NodeTransitions
  /\ s = "OFFLINE" => nodes[n].running = {}
  /\ nodes' = [nodes EXCEPT ![n].status = s,
                            ![n].heartbeat = IF s = "ONLINE" THEN tick ELSE @]
  /\ UNCHANGED <<procs, tick, status, reason, maxTicks, scheduleVars, schedulerVars>>

RecoverNode(n) ==
  /\ Free
  /\ n \in DOMAIN nodes
  /\ nodes[n].status \in {"FAILED", "OFFLINE"}
  /\ nodes' = [nodes EXCEPT ![n].status = "ONLINE", ![n].heartbeat = tick]
  /\ UNCHANGED <<procs, tick, status, reason, maxTicks, scheduleVars, schedulerVars>>

Heartbeat(n) ==
  /\ Free
  /\ n \in DOMAIN nodes
  /\ nodes[n].status \in {"ONLINE", "DRAINING"}
  /\ nodes' = [nodes EXCEPT ![n].heartbeat = tick]
  /\ UNCHANGED <<procs, tick, status, reason, maxTicks, scheduleVars, schedulerVars>>

-----------------------------------------------------------------------------
(* Commands on processes *)

SubmitProcess(p, def) ==
  /\ Free
  /\ SubmitLocked(p, def)
  /\ UNCHANGED <<nodes, tick, maxTicks, scheduleVars, schedulerVars>>

PauseProcess(p) ==
  /\ Free
  /\ p \in DOMAIN procs
  /\ Vacate(p, "PAUSED")
  /\ UNCHANGED <<tick, status, reason, maxTicks, scheduleVars, schedulerVars>>

WaitProcess(p) ==
  /\ Free
  /\ p \in DOMAIN procs
  /\ Vacate(p, "WAITING")
  /\ UNCHANGED <<tick, status, reason, maxTicks, scheduleVars, schedulerVars>>

ResumeProcess(p) ==
  /\ Free
  /\ p \in DOMAIN procs
  /\ Requeue(p, "PAUSED")
  /\ UNCHANGED <<tick, status, reason, maxTicks, scheduleVars, schedulerVars>>

WakeProcess(p) ==
  /\ Free
  /\ p \in DOMAIN procs
  /\ Requeue(p, "WAITING")
  /\ UNCHANGED <<tick, status, reason, maxTicks, scheduleVars, schedulerVars>>

KillProcess(p) ==
  /\ Free
  /\ p \in DOMAIN procs
  /\ Alive(p)
  /\ IF procs[p].state = "RUNNING"
       THEN /\ CanRelease(p)
            /\ nodes' = AfterRelease(p)
            /\ procs' = [procs EXCEPT ![p] =
                 [Unplaced(@) EXCEPT !.state = "KILLED", !.finished = tick]]
       ELSE /\ procs' = [procs EXCEPT ![p].state = "KILLED", ![p].finished = tick]
            /\ UNCHANGED nodes
  /\ UNCHANGED <<tick, status, reason, maxTicks, scheduleVars, schedulerVars>>

FailProcess(p) ==
  /\ Free
  /\ FailProcessLocked(p)
  /\ UNCHANGED <<tick, status, reason, maxTicks, scheduleVars, schedulerVars>>
-----------------------------------------------------------------------------
(* Commands on the simulation *)

SetScheduler(a) ==
  /\ Free
  /\ algorithm' = a /\ cursor' = 0
  /\ UNCHANGED <<clusterVars, maxTicks, scheduleVars>>

Start ==
  /\ Free
  /\ status # "RUNNING"
  /\ status' = "RUNNING" /\ reason' = ""
  /\ UNCHANGED <<nodes, procs, tick, maxTicks, scheduleVars, schedulerVars>>

PauseSimulation ==
  /\ Free
  /\ status = "RUNNING"
  /\ status' = "PAUSED"
  /\ UNCHANGED <<nodes, procs, tick, reason, maxTicks, scheduleVars, schedulerVars>>

\* The scheduler object, and with it the cursor, survives a reset.
Reset ==
  /\ Free
  /\ nodes' = NoNodes /\ procs' = NoProcs
  /\ tick' = 0 /\ status' = "IDLE" /\ reason' = "" /\ maxTicks' = 0
  /\ pending' = {} /\ failures' = {}
  /\ UNCHANGED schedulerVars

\* Finish; its one caller passes the reason of an exhausted tick budget.
Finish ==
  /\ Free
  /\ status # "COMPLETED"
  /\ status' = "COMPLETED" /\ reason' = "MAX_TICKS"
  /\ UNCHANGED <<nodes, procs, tick, maxTicks, scheduleVars, schedulerVars>>

WithinLimits(s) ==
  Cardinality(s.nodes) <= MaxNodes /\ Cardinality(s.processes) <= MaxProcesses

LoadScenario(s) ==
  /\ Free
  /\ ValidScenario(s) /\ WithinLimits(s)
  /\ nodes' = LoadedNodes(s) /\ procs' = LoadedProcesses(s)
  /\ tick' = 0 /\ status' = "IDLE" /\ reason' = "" /\ maxTicks' = s.maxTicks
  /\ pending' = LoadedPending(s) /\ failures' = LoadedFailures(s)
  /\ algorithm' = s.scheduler /\ cursor' = 0

-----------------------------------------------------------------------------
(* Step *)

BeginStep ==
  /\ phase = "idle"
  /\ status # "COMPLETED"
  /\ tick < TickBound
  /\ saved' = Current
  /\ status' = "RUNNING" /\ tick' = tick + 1
  /\ phase' = "apply"
  /\ UNCHANGED <<nodes, procs, reason, maxTicks, scheduleVars, schedulerVars, todo, snaps>>

\* Fault: the scheduled submissions and failures are not restored.
RollbackStateOnly ==
  /\ nodes' = saved.nodes /\ procs' = saved.procs /\ tick' = saved.tick
  /\ status' = saved.status /\ reason' = saved.reason
  /\ phase' = "idle" /\ todo' = {} /\ snaps' = NoNodes /\ saved' = NothingSaved
  /\ UNCHANGED <<maxTicks, scheduleVars, schedulerVars>>

\* Fault: the error returns without a rollback.
ReturnHalfDone ==
  /\ phase' = "idle" /\ todo' = {} /\ snaps' = NoNodes /\ saved' = NothingSaved
  /\ UNCHANGED <<clusterVars, maxTicks, scheduleVars, schedulerVars>>

\* The rollback closure.  It does not reach the scheduler's cursor.
Rollback ==
  /\ nodes' = saved.nodes /\ procs' = saved.procs /\ tick' = saved.tick
  /\ status' = saved.status /\ reason' = saved.reason
  /\ pending' = saved.pending /\ failures' = saved.failures
  /\ phase' = "idle" /\ todo' = {} /\ snaps' = NoNodes /\ saved' = NothingSaved
  /\ UNCHANGED <<maxTicks, schedulerVars>>

Due(S) == {e \in S : e.at = tick}

\* The submission of this tick that comes next: the least ID.
NextSubmission(d) == d \in Due(pending) /\ \A e \in Due(pending) : d.id <= e.id

ApplySubmission(d) ==
  /\ phase = "apply"
  /\ NextSubmission(d)
  /\ IF CanSubmit(d.id, d.def)
       THEN /\ SubmitLocked(d.id, d.def)
            /\ pending' = pending \ {d}
            /\ UNCHANGED <<nodes, tick, maxTicks, failures, schedulerVars, stepVars>>
       ELSE Rollback

\* The failure of this tick that comes next, once its submissions are done.
NextFailure(f) ==
  /\ Due(pending) = {}
  /\ f \in Due(failures) /\ \A g \in Due(failures) : f.pos <= g.pos

ApplyFailure(f) ==
  /\ phase = "apply"
  /\ NextFailure(f)
  /\ IF f.type = "NODE" THEN CanFailNode(f.id) ELSE CanFailProcess(f.id)
  /\ IF f.type = "NODE" THEN FailNodeLocked(f.id) ELSE FailProcessLocked(f.id)
  /\ failures' = failures \ {f}
  /\ UNCHANGED <<tick, status, reason, maxTicks, pending, schedulerVars, stepVars>>

\* The target of the failure is unknown, failed already or terminal.
RejectFailure(f) ==
  /\ phase = "apply"
  /\ NextFailure(f)
  /\ ~ IF f.type = "NODE" THEN CanFailNode(f.id) ELSE CanFailProcess(f.id)
  /\ Rollback

EndApply ==
  /\ phase = "apply"
  /\ Due(pending) = {} /\ Due(failures) = {}
  /\ phase' = "beat"
  /\ UNCHANGED <<clusterVars, maxTicks, scheduleVars, schedulerVars, todo, snaps, saved>>

\* Fault: the node is given one tick more than the timeout.
OverdueByTwo == {n \in DOMAIN nodes : /\ HeartbeatTimeout > 0
                                      /\ nodes[n].status = "ONLINE"
                                      /\ tick - nodes[n].heartbeat > HeartbeatTimeout + 1}

\* detectMissedHeartbeatsLocked.  Failing one node leaves the others overdue.
Overdue == {n \in DOMAIN nodes : /\ HeartbeatTimeout > 0
                                 /\ nodes[n].status = "ONLINE"
                                 /\ tick - nodes[n].heartbeat > HeartbeatTimeout}

DetectMissedHeartbeat(n) ==
  /\ phase = "beat"
  /\ n \in Overdue /\ \A m \in Overdue : n <= m
  /\ FailNodeLocked(n)
  /\ UNCHANGED <<tick, status, reason, maxTicks, scheduleVars, schedulerVars, stepVars>>

InState(s) == {p \in DOMAIN procs : procs[p].state = s}

EndBeat ==
  /\ phase = "beat"
  /\ Overdue = {}
  /\ phase' = "place" /\ todo' = InState("READY")
  /\ snaps' = [n \in DOMAIN nodes |-> Snapshot(nodes[n])]
  /\ UNCHANGED <<clusterVars, maxTicks, scheduleVars, schedulerVars, saved>>

\* scheduleReadyLocked, one process of the ready list at a time.
NextReady(p) ==
  p \in todo /\ \A q \in todo \ {p} : Before(algorithm, procs, tick, p, q)

\* Fault: each start adds the time since submission.
StartedSinceSubmission(proc, n) ==
  [proc EXCEPT !.state = "RUNNING", !.node = n,
               !.waiting = @ + tick - proc.submitted,
               !.started = IF @ = NoTick THEN tick ELSE @]

Started(proc, n) ==
  [proc EXCEPT !.state = "RUNNING", !.node = n,
               !.waiting = @ + tick - proc.lastReady,
               !.started = IF @ = NoTick THEN tick ELSE @]

\* Fault: the snapshot of the chosen node is not refreshed.
PlaceOnStale(p, n) ==
  /\ Selects(algorithm, snaps, cursor, procs[p], n)
  /\ cursor' = NextCursor(algorithm, snaps, cursor, n)
  /\ IF Fits(nodes[n], procs[p]) /\ p \notin nodes[n].running
       THEN /\ nodes' = [nodes EXCEPT ![n] = Allocated(@, p, procs[p])]
            /\ procs' = [procs EXCEPT ![p] = Started(@, n)]
            /\ UNCHANGED snaps
       ELSE UNCHANGED <<nodes, procs, snaps>>

\* Allocate looks at the node itself, SelectNode looked at its snapshot.
PlaceOn(p, n) ==
  /\ Selects(algorithm, snaps, cursor, procs[p], n)
  /\ cursor' = NextCursor(algorithm, snaps, cursor, n)
  /\ IF Fits(nodes[n], procs[p]) /\ p \notin nodes[n].running
       THEN /\ nodes' = [nodes EXCEPT ![n] = Allocated(@, p, procs[p])]
            /\ procs' = [procs EXCEPT ![p] = Started(@, n)]
            /\ snaps' = [snaps EXCEPT ![n] = Snapshot(nodes'[n])]
       ELSE UNCHANGED <<nodes, procs, snaps>>

Place(p) ==
  /\ phase = "place"
  /\ NextReady(p)
  /\ \E n \in DOMAIN snaps : PlaceOn(p, n)
  /\ todo' = todo \ {p}
  /\ UNCHANGED <<tick, status, reason, maxTicks, scheduleVars, algorithm, phase, saved>>

Defer(p) ==
  /\ phase = "place"
  /\ NextReady(p)
  /\ Fitting(snaps, procs[p]) = {}
  /\ todo' = todo \ {p}
  /\ UNCHANGED <<clusterVars, maxTicks, scheduleVars, schedulerVars, phase, snaps, saved>>

EndPlace ==
  /\ phase = "place"
  /\ todo = {}
  /\ phase' = "run" /\ todo' = InState("RUNNING") /\ snaps' = NoNodes
  /\ UNCHANGED <<clusterVars, maxTicks, scheduleVars, schedulerVars, saved>>

\* executeRunningLocked, one running process at a time.
Worked(proc) == [proc EXCEPT !.remaining = @ - 1]

Execute(p) ==
  /\ phase = "run"
  /\ p \in todo /\ \A q \in todo : p <= q
  /\ IF Worked(procs[p]).remaining <= 0 /\ CanRelease(p)
       THEN /\ nodes' = AfterRelease(p)
            /\ procs' = [procs EXCEPT ![p] =
                 [Unplaced(Worked(@)) EXCEPT !.state = "TERMINATED", !.finished = tick]]
       ELSE /\ procs' = [procs EXCEPT ![p] = Worked(@)]
            /\ UNCHANGED nodes
  /\ todo' = todo \ {p}
  /\ UNCHANGED <<tick, status, reason, maxTicks, scheduleVars, schedulerVars, phase, snaps, saved>>

EndRun ==
  /\ phase = "run"
  /\ todo = {}
  /\ phase' = "close"
  /\ UNCHANGED <<clusterVars, maxTicks, scheduleVars, schedulerVars, todo, snaps, saved>>

\* Fault: submissions still to come are forgotten.
AllPresentTerminal ==
  /\ DOMAIN procs # {}
  /\ \A p \in DOMAIN procs : procs[p].state \in Terminal

\* allProcessesTerminalLocked, and at least one process was submitted
AllTerminal ==
  /\ DOMAIN procs # {}
  /\ pending = {}
  /\ \A p \in DOMAIN procs : procs[p].state \in Terminal

\* Fault: one tick more than the budget.
OutOfTicksLate == maxTicks > 0 /\ tick > maxTicks

OutOfTicks == maxTicks > 0 /\ tick >= maxTicks

\* progressBlockReasonLocked
ProgressBlockReason ==
  IF \/ pending # {} \/ failures # {}
     \/ InState("RUNNING") # {}
     \/ \E p \in InState("READY"), n \in DOMAIN nodes : Fits(nodes[n], procs[p])
    THEN ""
  ELSE IF InState("READY") # {} THEN "NO_ONLINE_CAPACITY"
  ELSE IF InState("WAITING") \cup InState("PAUSED") # {} THEN "EXTERNALLY_BLOCKED"
  ELSE ""

FinishReason ==
  IF AllTerminal THEN "ALL_TERMINAL"
  ELSE IF OutOfTicks THEN "MAX_TICKS"
  ELSE ProgressBlockReason

EndStep ==
  /\ phase = "close"
  /\ IF Consistent(nodes, procs)
       THEN /\ status' = IF FinishReason = "" THEN status ELSE "COMPLETED"
            /\ reason' = IF FinishReason = "" THEN reason ELSE FinishReason
            /\ phase' = "idle" /\ saved' = NothingSaved
            /\ UNCHANGED <<nodes, procs, tick, maxTicks, scheduleVars, schedulerVars, todo, snaps>>
       ELSE Rollback

-----------------------------------------------------------------------------

NodeCommand(n) ==
  \/ RemoveNode(n) \/ FailNode(n) \/ RecoverNode(n) \/ Heartbeat(n)
  \/ \E s \in NodeStatuses : ChangeNodeStatus(n, s)

ProcessCommand(p) ==
  \/ PauseProcess(p) \/ ResumeProcess(p) \/ WaitProcess(p)
  \/ WakeProcess(p) \/ KillProcess(p) \/ FailProcess(p)

Command ==
  \/ \E n \in NodeIds, c \in Capacities : RegisterNode(n, c)
  \/ \E n \in NodeIds : NodeCommand(n)
  \/ \E p \in ProcIds, def \in Definitions : SubmitProcess(p, def)
  \/ \E p \in ProcIds : ProcessCommand(p)
  \/ \E a \in Algorithms : SetScheduler(a)
  \/ \E s \in Scenarios : LoadScenario(s)
  \/ Start \/ PauseSimulation \/ Reset \/ Finish

\* What Step does after BeginStep; the goroutine that is in it runs on.
InsideStep ==
  \/ \E d \in pending : ApplySubmission(d)
  \/ \E f \in failures : ApplyFailure(f) \/ RejectFailure(f)
  \/ \E n \in NodeIds : DetectMissedHeartbeat(n)
  \/ \E p \in ProcIds : Place(p) \/ Defer(p) \/ Execute(p)
  \/ EndApply \/ EndBeat \/ EndPlace \/ EndRun \/ EndStep

Next == Command \/ BeginStep \/ InsideStep

\* Commands come when they come; a tick that has begun is carried through.
Spec == Init /\ [][Next]_vars /\ WF_vars(InsideStep)
=============================================================================
