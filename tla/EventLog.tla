-------------------------------- MODULE EventLog --------------------------------
(***************************************************************************)
(* The event log and the counters of the controller.  Every change of the  *)
(* controller appends what it did to events and may count it in            *)
(* state.Statistics; both are done with the mutex held, so they are part   *)
(* of the action of Controller that they are conjoined to here.            *)
(*                                                                         *)
(* A tick that fails takes back both, each in its own way: the counters    *)
(* return with the copy of the state, the log is cut to the length it had, *)
(* and the number of the last event is kept beside it.                     *)
(***************************************************************************)
EXTENDS ControllerProperties, SequencesExt

CONSTANT LogBound   \* bound: no command once the log has that many events

ASSUME LogAssumption == LogBound \in Nat

VARIABLES
  events,    \* Controller.events
  sequence,  \* Controller.eventSequence
  stats,     \* state.Statistics without the sums of the utilization samples
  kept       \* what a failed tick returns events, sequence and stats to

logVars == <<events, sequence, stats, kept>>

NoStats == [deferred |-> 0, nodeFailures |-> 0, reschedulings |-> 0, samples |-> 0]

NothingKept == [count |-> 0, sequence |-> 0, stats |-> NoStats]

NoProc == 0     \* Event.ProcessID = ""

Entry(type, p, n) == [type |-> type, process |-> p, node |-> n]

NodeEntry(type, n) == Entry(type, NoProc, n)
ProcEntry(type, p) == Entry(type, p, NoNode)
SimEntry(type)     == Entry(type, NoProc, NoNode)

\* emitLocked, for each of the entries: number i from the last one, at tick t.
Stamped(entries, last, t) ==
  [i \in DOMAIN entries |->
     [id |-> last + i, tick |-> t, type |-> entries[i].type,
      process |-> entries[i].process, node |-> entries[i].node]]

Emit(entries) ==
  /\ events' = events \o Stamped(entries, sequence, tick)
  /\ sequence' = sequence + Len(entries)

Count(counter) == stats' = [stats EXCEPT ![counter] = @ + 1]

\* Fault: the numbers go on from those of the log that was cleared.
RestartedWithoutReset(entries) ==
  /\ events' = Stamped(entries, sequence, 0) /\ sequence' = sequence + Len(entries)
  /\ stats' = NoStats /\ UNCHANGED kept

\* A log that begins again, for another cluster.
Restarted(entries) ==
  /\ events' = Stamped(entries, 0, 0) /\ sequence' = Len(entries)
  /\ stats' = NoStats /\ UNCHANGED kept

\* Fault: the number of the last event is not restored.
TruncateOnly ==
  /\ events' = SubSeq(events, 1, kept.count)
  /\ stats' = kept.stats /\ kept' = NothingKept
  /\ UNCHANGED sequence

\* Fault: the counters keep what the failed tick counted.
TruncateButCount ==
  /\ events' = SubSeq(events, 1, kept.count) /\ sequence' = kept.sequence
  /\ kept' = NothingKept
  /\ UNCHANGED stats

\* Fault: one event of before the tick goes as well.
TruncateTooMuch ==
  /\ events' = SubSeq(events, 1, kept.count - 1) /\ sequence' = kept.sequence
  /\ stats' = kept.stats /\ kept' = NothingKept

Truncate ==
  /\ events' = SubSeq(events, 1, kept.count) /\ sequence' = kept.sequence
  /\ stats' = kept.stats /\ kept' = NothingKept

LogInit ==
  /\ Init
  /\ events = <<>> /\ sequence = 0 /\ stats = NoStats /\ kept = NothingKept

-----------------------------------------------------------------------------
(* What each part of the controller reports *)

\* The entries of every one, one after the other in the order of the IDs.
ForEach(entries) ==
  LET ids == InOrder(DOMAIN entries) IN FlattenSeq([i \in DOMAIN ids |-> entries[ids[i]]])

\* releaseLocked
ReleaseEntries(p) ==
  IF procs[p].state = "RUNNING" THEN <<Entry("RESOURCE_RELEASED", p, procs[p].node)>> ELSE <<>>

\* Fault: the restart is not reported.
FailureEntriesOnly(p, n) == <<Entry("PROCESS_FAILED", p, n)>>

\* failProcessLocked, but for the release
FailureEntries(p, n) ==
  <<Entry("PROCESS_FAILED", p, n)>>
    \o (IF CanRestart(procs[p]) THEN <<ProcEntry("PROCESS_RESTARTED", p)>> ELSE <<>>)

ProcessFailureEntries(p) ==
  (IF OnLiveHost(p) THEN ReleaseEntries(p) ELSE <<>>) \o FailureEntries(p, procs[p].node)

\* failNodeLocked; the resources of the processes go without an event.
NodeFailureEntries(n) ==
  <<NodeEntry("NODE_FAILED", n)>>
    \o ForEach([p \in nodes[n].running |-> FailureEntries(p, NoNode)])

LoadEntries(s) ==
  ForEach([n \in IdsOf(s.nodes) |-> <<NodeEntry("NODE_REGISTERED", n)>>])
    \o ForEach([p \in IdsOf(PresentAtStart(s)) |-> <<ProcEntry("PROCESS_SUBMITTED", p)>>])
    \o <<SimEntry("SCENARIO_LOADED")>>

-----------------------------------------------------------------------------
(* Commands *)

\* A command with the events it reports and nothing that it counts.
Reports(A, entries) == A /\ Emit(entries) /\ UNCHANGED <<stats, kept>>

LogFailNode(n) ==
  /\ FailNode(n)
  /\ Emit(NodeFailureEntries(n)) /\ Count("nodeFailures") /\ UNCHANGED kept

RecoverEntries(n) == <<NodeEntry("NODE_STATUS_CHANGED", n), NodeEntry("NODE_RECOVERED", n)>>

LogNodeCommand(n) ==
  \/ \E c \in Capacities :
       Reports(RegisterNode(n, c), <<NodeEntry("NODE_REGISTERED", n)>>)
  \/ Reports(RemoveNode(n), <<NodeEntry("NODE_REMOVED", n)>>)
  \/ LogFailNode(n)
  \/ Reports(RecoverNode(n), RecoverEntries(n))
  \/ Reports(Heartbeat(n), <<>>)
  \/ \E s \in NodeStatuses :
       Reports(ChangeNodeStatus(n, s), <<NodeEntry("NODE_STATUS_CHANGED", n)>>)

\* Fault: a process that was running is killed without giving up its node.
KillEntriesOnly(p) == <<ProcEntry("PROCESS_KILLED", p)>>

KillEntries(p) == ReleaseEntries(p) \o <<ProcEntry("PROCESS_KILLED", p)>>

LogProcessCommand(p) ==
  \/ \E def \in Definitions :
       Reports(SubmitProcess(p, def), <<ProcEntry("PROCESS_SUBMITTED", p)>>)
  \/ Reports(PauseProcess(p), ReleaseEntries(p) \o <<ProcEntry("PROCESS_PAUSED", p)>>)
  \/ Reports(WaitProcess(p), ReleaseEntries(p) \o <<ProcEntry("PROCESS_WAITING", p)>>)
  \/ Reports(ResumeProcess(p), <<ProcEntry("PROCESS_RESUMED", p)>>)
  \/ Reports(WakeProcess(p), <<ProcEntry("PROCESS_IO_COMPLETED", p)>>)
  \/ Reports(KillProcess(p), KillEntries(p))
  \/ Reports(FailProcess(p), ProcessFailureEntries(p))

LogLoad(s) == LoadScenario(s) /\ Restarted(LoadEntries(s))

LogSimulationCommand ==
  \/ \E a \in Algorithms : Reports(SetScheduler(a), <<SimEntry("SCHEDULER_CHANGED")>>)
  \/ Reports(Start, <<SimEntry("SIMULATION_STARTED")>>)
  \/ Reports(PauseSimulation, <<SimEntry("SIMULATION_PAUSED")>>)
  \/ Reports(Finish, <<SimEntry("SIMULATION_FINISHED")>>)
  \/ Reset /\ Restarted(<<SimEntry("SIMULATION_RESET")>>)
  \/ \E s \in Scenarios : LogLoad(s)

-----------------------------------------------------------------------------
(* Step *)

LogBegin ==
  /\ BeginStep
  /\ kept' = [count |-> Len(events), sequence |-> sequence, stats |-> stats]
  /\ Emit(IF status = "RUNNING" THEN <<>> ELSE <<SimEntry("SIMULATION_STARTED")>>)
  /\ UNCHANGED stats

LogApplySubmission(d) ==
  /\ ApplySubmission(d)
  /\ IF CanSubmit(d.id, d.def)
       THEN Emit(<<ProcEntry("PROCESS_SUBMITTED", d.id)>>) /\ UNCHANGED <<stats, kept>>
       ELSE Truncate

LogApplyFailure(f) ==
  /\ ApplyFailure(f)
  /\ IF f.type = "NODE"
       THEN Emit(NodeFailureEntries(f.id)) /\ Count("nodeFailures")
       ELSE Emit(ProcessFailureEntries(f.id)) /\ UNCHANGED stats
  /\ UNCHANGED kept

LogRejectFailure(f) == RejectFailure(f) /\ Truncate

LogMissedHeartbeat(n) ==
  /\ DetectMissedHeartbeat(n)
  /\ Emit(<<NodeEntry("NODE_HEARTBEAT_MISSED", n)>> \o NodeFailureEntries(n))
  /\ Count("nodeFailures") /\ UNCHANGED kept

\* A process is offered the node that was selected, which takes it or does not.
LogPlace(p) ==
  LET n == CHOOSE m \in DOMAIN snaps : Selects(algorithm, snaps, cursor, procs[p], m)
      placed == <<Entry("PROCESS_SCHEDULED", p, n), Entry("RESOURCE_ALLOCATED", p, n)>>
  IN /\ Place(p)
     /\ IF procs'[p].state # "RUNNING"
          THEN Emit(<<Entry("SCHEDULING_DEFERRED", p, n)>>) /\ Count("deferred")
        ELSE IF procs[p].started = NoTick
          THEN Emit(<<Entry("PROCESS_STARTED", p, n)>> \o placed) /\ UNCHANGED stats
          ELSE Emit(placed) /\ Count("reschedulings")
     /\ UNCHANGED kept

LogDefer(p) ==
  /\ Defer(p)
  /\ Emit(<<ProcEntry("SCHEDULING_DEFERRED", p)>>) /\ Count("deferred") /\ UNCHANGED kept

\* The utilization is sampled once the processes are placed; the sums are left out.
LogSample == EndPlace /\ Emit(<<>>) /\ Count("samples") /\ UNCHANGED kept

LogExecute(p) ==
  Reports(Execute(p), IF procs'[p].state = "TERMINATED"
                        THEN ReleaseEntries(p) \o <<ProcEntry("PROCESS_COMPLETED", p)>>
                        ELSE <<>>)

LogEnd ==
  /\ EndStep
  /\ IF Consistent(nodes, procs)
       THEN /\ Emit(IF FinishReason = "" THEN <<>> ELSE <<SimEntry("SIMULATION_FINISHED")>>)
            /\ kept' = NothingKept /\ UNCHANGED stats
       ELSE Truncate

LogInsideStep ==
  \/ \E d \in pending : LogApplySubmission(d)
  \/ \E f \in failures : LogApplyFailure(f) \/ LogRejectFailure(f)
  \/ \E n \in NodeIds : LogMissedHeartbeat(n)
  \/ \E p \in ProcIds : LogPlace(p) \/ LogDefer(p) \/ LogExecute(p)
  \/ Reports(EndApply \/ EndBeat \/ EndRun, <<>>)
  \/ LogSample \/ LogEnd

LogCommand ==
  \/ \E n \in NodeIds : LogNodeCommand(n)
  \/ \E p \in ProcIds : LogProcessCommand(p)
  \/ LogSimulationCommand

LogNext == (Len(events) < LogBound /\ LogCommand) \/ LogBegin \/ LogInsideStep

LogSpec == LogInit /\ [][LogNext]_<<vars, logVars>>

-----------------------------------------------------------------------------
(* What the log promises *)

\* The state that each kind of event leaves its process in.
StateAfter ==
  [PROCESS_SUBMITTED |-> "READY", PROCESS_SCHEDULED |-> "RUNNING",
   PROCESS_PAUSED |-> "PAUSED", PROCESS_RESUMED |-> "READY",
   PROCESS_WAITING |-> "WAITING", PROCESS_IO_COMPLETED |-> "READY",
   PROCESS_COMPLETED |-> "TERMINATED", PROCESS_FAILED |-> "FAILED",
   PROCESS_RESTARTED |-> "READY", PROCESS_KILLED |-> "KILLED"]

LastMove(p) ==
  SelectLastInSeq(events, LAMBDA e : e.process = p /\ e.type \in DOMAIN StateAfter)

\* Who has nothing but the log knows every process: which there are, the state each is
\* in and, while it runs, its node.  The log is written on every path on which a
\* process changes, and cut exactly where the state is restored (controller.go:201).
LogTellsTheState ==
  /\ \A p \in ProcIds : p \in DOMAIN procs <=> LastMove(p) # 0
  /\ \A p \in DOMAIN procs : LET e == events[LastMove(p)] IN
       /\ procs[p].state = StateAfter[e.type]
       /\ procs[p].state = "RUNNING" => procs[p].node = e.node

Logged(type) == Cardinality({i \in DOMAIN events : events[i].type = type})

\* The counters and the log tell the same story, and there is one sample of the
\* utilization for each tick, though a failed tick takes counters and log back in
\* different ways (lifecycle.go:171-181, 193).
StatisticsMatchTheLog ==
  /\ stats.nodeFailures = Logged("NODE_FAILED")
  /\ stats.deferred = Logged("SCHEDULING_DEFERRED")
  /\ stats.reschedulings = Logged("PROCESS_SCHEDULED") - Logged("PROCESS_STARTED")
  /\ stats.samples = IF phase \in {"apply", "beat", "place"} THEN tick - 1 ELSE tick

\* Event numbers have neither gaps nor repetitions and ticks do not go back, also
\* after a failed tick gave its numbers to the next one (controller.go:201-205).
LogIsNumbered ==
  /\ sequence = Len(events)
  /\ \A i \in DOMAIN events : events[i].id = i
  /\ \A i, j \in DOMAIN events : i < j => events[i].tick <= events[j].tick

\* What p has on node n is no longer there.
Frees(e, p, n) ==
  \/ e.type = "RESOURCE_RELEASED" /\ e.process = p
  \/ e.type = "NODE_FAILED" /\ e.node = n

\* What the log says was allocated on a node and neither released nor lost with the
\* node is what the node has allocated: a release is reported on every path but
\* the failure of the node (lifecycle.go:308-320, recovery.go:101-107).
LogAccountsForResources ==
  \A n \in DOMAIN nodes, r \in Resources :
    LET held == {p \in DOMAIN procs :
                   \E i \in DOMAIN events :
                     /\ events[i].type = "RESOURCE_ALLOCATED"
                     /\ events[i].process = p /\ events[i].node = n
                     /\ \A j \in i + 1 .. Len(events) : ~ Frees(events[j], p, n)}
    IN nodes[n].allocated[r] = Demand(procs, held, r)

\* The log a caller of Events reads.
SeenEvents == IF phase = "idle" THEN events ELSE SubSeq(events, 1, kept.count)

\* What a reader has seen in the log stays there until the cluster is replaced:
\* the events of a tick that fails were never to be seen
\* (docs/architecture.md:62, lifecycle.go:177).
LogOnlyGrows ==
  [][~ Replace => IsPrefix(SeenEvents, SeenEvents')]_<<vars, logVars>>
=============================================================================
