-------------------------- MODULE ControllerProperties --------------------------
(***************************************************************************)
(* What the controller promises: invariants of every state inside and      *)
(* outside a tick, and properties of its steps.  A property of what a      *)
(* caller can observe is stated over Seen, which does not change while a   *)
(* tick is under way.                                                      *)
(***************************************************************************)
EXTENDS Controller

NodesOK(ns) == DOMAIN ns \subseteq NodeIds /\ \A n \in DOMAIN ns : ns[n] \in Node
ProcsOK(ps) == DOMAIN ps \subseteq ProcIds /\ \A p \in DOMAIN ps : ps[p] \in Process

StatusOK(s, why) ==
  s \in {"IDLE", "RUNNING", "PAUSED", "COMPLETED"} /\ why \in Reasons

\* Every variable has its type.  What a snapshot holds is said by SnapshotsCurrent.
TypeOK ==
  /\ NodesOK(nodes) /\ ProcsOK(procs) /\ tick \in Nat /\ StatusOK(status, reason)
  /\ pending \subseteq Submission /\ failures \subseteq Failure
  /\ maxTicks \in Nat
  /\ algorithm \in Algorithms /\ cursor \in Nat
  /\ phase \in {"idle", "apply", "beat", "place", "run", "close"}
  /\ todo \subseteq (IF phase \in {"place", "run"} THEN DOMAIN procs ELSE {})
  /\ DOMAIN snaps = (IF phase = "place" THEN DOMAIN nodes ELSE {})
  /\ NodesOK(saved.nodes) /\ ProcsOK(saved.procs) /\ saved.tick \in Nat
  /\ StatusOK(saved.status, saved.reason)
  /\ saved.pending \subseteq Submission /\ saved.failures \subseteq Failure

-----------------------------------------------------------------------------
(* Invariants *)

LedgerIn(ns, ps) ==
  \A n \in DOMAIN ns : WithinCapacity(ns[n]) /\ CountersMatch(ns, ps, n)

\* The counters of a node are exactly what the processes it lists ask for, and
\* never exceed its capacity: Allocate, Release and the reset of a failed node
\* keep two integers and a list in step (domain/node.go:94-122,
\* cluster/recovery.go:101-104).
LedgerExact == LedgerIn(nodes, procs)

HostingIn(ns, ps) ==
  /\ \A n \in DOMAIN ns : ListsOnlyItsOwn(ns, ps, n)
  /\ \A p \in DOMAIN ps :
       IF ps[p].state = "RUNNING"
         THEN /\ ps[p].node \in DOMAIN ns
              /\ p \in ns[ps[p].node].running
         ELSE ps[p].node = NoNode

\* A process is listed by a node exactly when it is running and says it runs
\* there, so by one node at most; every other process names no node.  Two
\* structures are updated by every placement, release and failure.
Hosting == HostingIn(nodes, procs)

HostsUpIn(ns) ==
  \A n \in DOMAIN ns : ns[n].running # {} => ns[n].status \in {"ONLINE", "DRAINING"}

\* Work runs on ONLINE and DRAINING nodes only: going OFFLINE is refused while
\* a process runs, and failing or removing a node leaves none on it
\* (recovery.go:26, 95-115, controller.go:131).
HostsAreUp == HostsUpIn(nodes)

\* The dates and the amount of work noted in a process at tick now.
Timed(proc, now) ==
  /\ proc.submitted <= proc.lastReady /\ proc.lastReady <= now
  /\ proc.started # NoTick => proc.started \in proc.submitted .. now
  /\ proc.state \in {"RUNNING", "WAITING", "PAUSED", "TERMINATED"}
       => proc.started # NoTick
  /\ IF proc.state \in Terminal THEN proc.finished \in proc.lastReady .. now
                                ELSE proc.finished = NoTick
  /\ proc.remaining \in 0 .. proc.total
  /\ proc.remaining = 0 <=> proc.state = "TERMINATED"
  /\ proc.waiting \in 0 .. (proc.lastReady - proc.submitted) +
                           (IF proc.state = "READY" THEN 0 ELSE now - proc.lastReady)

\* The ticks noted in a process are in order, its finish is noted exactly when
\* it is over, and its work is used up exactly when it terminated.  A restart
\* has to undo half of this (recovery.go:137-143).
Timeline == \A p \in DOMAIN procs : Timed(procs[p], tick)

\* The snapshots the scheduler looks at are those of the nodes as they are now,
\* also after earlier placements of the same tick (lifecycle.go:273-278).
SnapshotsCurrent ==
  phase = "place" => snaps = [n \in DOMAIN nodes |-> Snapshot(nodes[n])]

\* A tick leaves no process in the ready queue that some node could take: the
\* scheduler never settles on a node that Allocate then refuses, and one that
\* was deferred still fits nowhere after the others have been placed
\* (lifecycle.go:245-278).
WorkConserving ==
  phase = "place" =>
    \A p \in InState("READY") \ todo, n \in DOMAIN nodes : ~ Fits(nodes[n], procs[p])

\* The check at the end of a tick never fails, so no tick is undone after a
\* process was placed, or the round robin cursor moved (lifecycle.go:202-205).
TickIsConsistent == phase = "close" => Consistent(nodes, procs)

\* Whoever looks sees no ONLINE node that has been silent for longer than the timeout.
\* DRAINING, OFFLINE and FAILED nodes are not watched and may be silent for ever, so that
\* each way back to ONLINE has to count as a sign of life (recovery.go:30, 63, 158).
HeartbeatFresh ==
  HeartbeatTimeout > 0 =>
    \A n \in DOMAIN Seen.nodes :
      Seen.nodes[n].status = "ONLINE" => Seen.tick - Seen.nodes[n].heartbeat <= HeartbeatTimeout

\* A tick never has a choice: one process is next in line, and the algorithm
\* selects one node for it.  Replaying a scenario gives the same placements
\* (docs/architecture.md:60).
ScheduleIsDetermined ==
  phase = "place" =>
    /\ Cardinality({p \in todo : NextReady(p)}) = (IF todo = {} THEN 0 ELSE 1)
    /\ \A p \in todo : LET fits == Fitting(snaps, procs[p]) IN
         Cardinality({n \in fits : Selects(algorithm, snaps, cursor, procs[p], n)})
           = (IF fits = {} THEN 0 ELSE 1)

\* A reason is shown exactly while the simulation is COMPLETED: Start, a
\* submission, a reset and a scenario all take it back (controller.go:164-198,
\* lifecycle.go:35-38).
ReasonIffCompleted == status = "COMPLETED" <=> reason # ""

-----------------------------------------------------------------------------
(* Properties of steps *)

\* The two commands that replace the whole cluster.
Replace == Reset \/ \E s \in Scenarios : LoadScenario(s)

\* Something could still happen without a command from outside.
CanProgress ==
  \/ pending # {}
  \/ InState("RUNNING") # {}
  \/ \E p \in InState("READY"), n \in DOMAIN nodes : Fits(nodes[n], procs[p])
  \/ failures # {} /\ \E p \in DOMAIN procs : procs[p].state \notin Terminal

\* Nothing that was submitted can ever move again.
Stuck == DOMAIN procs # {} /\ ~ CanProgress

\* Everything that was submitted, or will be, is over.
Over == DOMAIN procs # {} /\ pending = {} /\ \A p \in DOMAIN procs : procs[p].state \in Terminal

\* The reason that is shown is the right one.
Explains(why) ==
  /\ why = "ALL_TERMINAL" <=> Over
  /\ why = "MAX_TICKS" => OutOfTicks
  /\ why = "NO_ONLINE_CAPACITY" => Stuck /\ InState("READY") # {}
  /\ why = "EXTERNALLY_BLOCKED" => /\ Stuck /\ InState("READY") = {}
                                  /\ InState("WAITING") \cup InState("PAUSED") # {}

\* A tick completes the simulation exactly when the tick budget is used up or
\* nothing that was submitted can ever move again: it neither abandons work nor
\* spins.  The reason tells which of the two it is and what is left of the work
\* (lifecycle.go:195-201, 375-416).
StopsExactlyWhenStuck ==
  [][(phase = "close" /\ phase' = "idle" /\ tick' = tick) =>
       /\ status' = "COMPLETED" <=> OutOfTicks \/ Stuck
       /\ status' = "COMPLETED" => reason' # "" /\ Explains(reason')]_vars

\* A node is failed for its silence in the first tick that is beyond the timeout, never
\* sooner and never later, also after it was drained or brought back
\* (recovery.go:153-168).
SilentNodesFailInTime ==
  [][phase = "beat" =>
       \A n \in DOMAIN nodes : nodes'[n].status # nodes[n].status =>
         tick - nodes[n].heartbeat = HeartbeatTimeout + 1]_vars

\* A tick that fails leaves nothing behind, the round robin cursor included,
\* which the rollback does not restore (lifecycle.go:175-181).
FailedTickIsInvisible ==
  [][(phase # "idle" /\ phase' = "idle" /\ tick' < tick) =>
       Seen' = Seen /\ phase = "apply"]_vars

-----------------------------------------------------------------------------
(* Liveness *)

\* A tick that has begun gives the mutex back, whatever it finds: until it does,
\* every other command waits.
TickEnds == phase # "idle" ~> phase = "idle"

-----------------------------------------------------------------------------
(* What the documents say and the code does not do *)

\* The edges of the diagram in docs/architecture.md:66-84, and the pairs of
\* edges a failure with a restart takes at once.
DocumentedEdges ==
  {<<"READY", "RUNNING">>, <<"RUNNING", "READY">>, <<"RUNNING", "WAITING">>,
   <<"WAITING", "READY">>, <<"RUNNING", "PAUSED">>, <<"PAUSED", "READY">>,
   <<"RUNNING", "TERMINATED">>, <<"READY", "FAILED">>, <<"RUNNING", "FAILED">>,
   <<"PAUSED", "FAILED">>, <<"FAILED", "READY">>, <<"READY", "KILLED">>,
   <<"RUNNING", "KILLED">>, <<"PAUSED", "KILLED">>}

\* A command changes the state of a process along an edge of the diagram.
DocumentedLifecycle ==
  [][(phase = "idle" /\ phase' = "idle" /\ ~ Replace) =>
       \A p \in DOMAIN procs \cap DOMAIN procs' :
         \/ procs'[p].state = procs[p].state
         \/ <<procs[p].state, procs'[p].state>> \in DocumentedEdges]_vars

\* EXTERNALLY_BLOCKED is reported while only WAITING or PAUSED work remains
\* (docs/architecture.md:120): the wake or resume it asks for ends it.
BlockedOnlyWhileBlocked ==
  (phase = "idle" /\ reason = "EXTERNALLY_BLOCKED") => InState("READY") = {}
=============================================================================
