------------------------------ MODULE ClusterState ------------------------------
(***************************************************************************)
(* The records of package internal/domain and the pure functions over      *)
(* them: what a node and a process are, when a process fits a node, what   *)
(* Allocate and Release do to the resource counters of a node, which       *)
(* process transitions the code allows, what a failure makes of a process, *)
(* and the consistency check of internal/cluster/invariants.go.            *)
(*                                                                         *)
(* An ID is a positive number, its rank in the string order that the code  *)
(* sorts by and breaks ties with; 0 is the empty ID.  Names, error texts   *)
(* and the statistics counters are left out.                               *)
(***************************************************************************)
EXTENDS Integers, FiniteSets

CONSTANTS
  NodeIds,   \* the IDs a node may be registered under
  ProcIds    \* the IDs a process may be submitted under

ASSUME IdsAssumption ==
  /\ NodeIds \subseteq Nat \ {0} /\ IsFiniteSet(NodeIds)
  /\ ProcIds \subseteq Nat \ {0} /\ IsFiniteSet(ProcIds)

NoNode == 0     \* Process.NodeID = ""
NoTick == -1    \* a nil *int64
Ticks  == Nat \cup {NoTick}

\* A set of IDs as a sorted list.
InOrder(S) ==
  CHOOSE ordered \in [1 .. Cardinality(S) -> S] :
    \A i, j \in 1 .. Cardinality(S) : i < j => ordered[i] < ordered[j]

Resources == {"cpu", "memory"}

NodeStatuses == {"ONLINE", "DRAINING", "OFFLINE", "FAILED", "RECOVERING"}
ProcStates   == {"NEW", "READY", "RUNNING", "WAITING", "PAUSED",
                 "TERMINATED", "FAILED", "KILLED"}
Terminal     == {"TERMINATED", "FAILED", "KILLED"}
Policies     == {"NEVER", "ON_FAILURE"}

\* domain.Node; "running" is RunningProcessIDs, whose order nothing depends on.
Node == [status : NodeStatuses, capacity : [Resources -> Nat \ {0}],
         allocated : [Resources -> Int], running : SUBSET ProcIds,
         heartbeat : Nat]

\* domain.ProcessDefinition, as decoded: nothing but the types is certain.
ProcessDefinition ==
  [priority : Int, request : [Resources -> Int], total : Int,
   policy : Policies \cup {""}, maxRestarts : Int]

\* domain.Process
Process == [priority : Int, request : [Resources -> Nat \ {0}],
            total : Nat \ {0}, policy : Policies, maxRestarts : Nat,
            state : ProcStates, remaining : Int, node : NodeIds \cup {NoNode},
            restarts : Nat, submitted : Nat, started : Ticks,
            finished : Ticks, lastReady : Nat, waiting : Int]

-----------------------------------------------------------------------------
(* Construction *)

Nothing == [r \in Resources |-> 0]

\* Fault: the memory of a node is not checked.
ValidCpuOnly(capacity) == capacity["cpu"] > 0

ValidCapacity(capacity) == \A r \in Resources : capacity[r] > 0

NewNode(capacity, now) ==
  [status |-> "ONLINE", capacity |-> capacity, allocated |-> Nothing,
   running |-> {}, heartbeat |-> now]

\* An empty policy of a definition means NEVER.
PolicyOf(def) == IF def.policy = "" THEN "NEVER" ELSE def.policy

ValidDefinition(def) ==
  /\ \A r \in Resources : def.request[r] > 0
  /\ def.total > 0
  /\ def.maxRestarts >= 0
  /\ PolicyOf(def) \in Policies

NewProcess(def, now) ==
  [priority |-> def.priority, request |-> def.request, total |-> def.total,
   policy |-> PolicyOf(def), maxRestarts |-> def.maxRestarts,
   state |-> "NEW", remaining |-> def.total, node |-> NoNode, restarts |-> 0,
   submitted |-> now, started |-> NoTick, finished |-> NoTick,
   lastReady |-> now, waiting |-> 0]

-----------------------------------------------------------------------------
(* Resource accounting of one node.  A node snapshot has the same status, *)
(* capacity and allocated fields, so Fits takes either.                   *)

\* Fault: a process that would fill the node is turned away.
FitsWithRoom(node, proc) ==
  /\ node.status = "ONLINE"
  /\ \A r \in Resources : node.capacity[r] - node.allocated[r] > proc.request[r]

Fits(node, proc) ==
  /\ node.status = "ONLINE"
  /\ \A r \in Resources : node.capacity[r] - node.allocated[r] >= proc.request[r]

Allocated(node, p, proc) ==
  [node EXCEPT !.allocated = [r \in Resources |-> @[r] + proc.request[r]],
               !.running   = @ \cup {p}]

Releasable(node, p, proc) ==
  /\ p \in node.running
  /\ \A r \in Resources : node.allocated[r] >= proc.request[r]

\* Fault: the memory of the process stays allocated.
ReleasedCpuOnly(node, p, proc) ==
  [node EXCEPT !.allocated["cpu"] = @ - proc.request["cpu"],
               !.running = @ \ {p}]

Released(node, p, proc) ==
  [node EXCEPT !.allocated = [r \in Resources |-> @[r] - proc.request[r]],
               !.running   = @ \ {p}]

\* Fault: the counters of a failed node are not reset.
EmptiedListOnly(node) == [node EXCEPT !.status = "FAILED", !.running = {}]

\* What failNodeLocked leaves of a node before it fails the processes on it.
Emptied(node) ==
  [node EXCEPT !.status = "FAILED", !.allocated = Nothing, !.running = {}]

Snapshot(node) ==
  [status |-> node.status, capacity |-> node.capacity,
   allocated |-> node.allocated]

-----------------------------------------------------------------------------
(* The life of one process *)

\* processTransitions: the pairs of states Transition accepts.
Transitions ==
  { <<"NEW", "READY">>, <<"FAILED", "READY">> }
    \cup ({"READY"} \X {"RUNNING", "FAILED", "KILLED"})
    \cup ({"RUNNING"} \X {"READY", "WAITING", "PAUSED", "TERMINATED",
                          "FAILED", "KILLED"})
    \cup ({"WAITING", "PAUSED"} \X {"READY", "FAILED", "KILLED"})

\* Fault: one restart more than the budget.
CanRestartOnceMore(proc) ==
  proc.policy = "ON_FAILURE" /\ proc.restarts <= proc.maxRestarts

CanRestart(proc) ==
  proc.policy = "ON_FAILURE" /\ proc.restarts < proc.maxRestarts

\* Fault: the process keeps the name of the node it left.
StillPlaced(proc) == proc

Unplaced(proc) == [proc EXCEPT !.node = NoNode]

\* Fault: a restart is not charged.
AfterFreeRestart(proc, now) ==
  IF CanRestart(proc)
    THEN [proc EXCEPT !.state = "READY", !.remaining = proc.total,
                      !.finished = NoTick, !.lastReady = now]
    ELSE [proc EXCEPT !.state = "FAILED", !.finished = now]

\* A failure ends the process or, through FAILED, queues it again.
AfterFailure(proc, now) ==
  IF CanRestart(proc)
    THEN [proc EXCEPT !.state = "READY", !.restarts = @ + 1,
                      !.remaining = proc.total, !.finished = NoTick,
                      !.lastReady = now]
    ELSE [proc EXCEPT !.state = "FAILED", !.finished = now]

-----------------------------------------------------------------------------
(* validateInvariantsLocked.  The demand of a set S of processes for a     *)
(* resource is the sum of their requests, written as the number of units   *)
(* they ask for so that the laws of Cardinality apply to it.               *)

Units(ps, p, r) == {p} \X (1 .. ps[p].request[r])

Demand(ps, S, r) == Cardinality(UNION {Units(ps, p, r) : p \in S})

WithinCapacity(node) ==
  \A r \in Resources : node.allocated[r] \in 0 .. node.capacity[r]

ListsOnlyItsOwn(ns, ps, n) ==
  \A p \in ns[n].running :
    p \in DOMAIN ps /\ ps[p].state = "RUNNING" /\ ps[p].node = n

CountersMatch(ns, ps, n) ==
  \A r \in Resources : ns[n].allocated[r] = Demand(ps, ns[n].running, r)

Consistent(ns, ps) ==
  /\ \A n \in DOMAIN ns : /\ WithinCapacity(ns[n])
                          /\ ListsOnlyItsOwn(ns, ps, n)
                          /\ CountersMatch(ns, ps, n)
  /\ \A p \in DOMAIN ps :
       IF ps[p].state = "RUNNING"
         THEN /\ ps[p].node # NoNode
              /\ Cardinality({n \in DOMAIN ns : p \in ns[n].running}) = 1
         ELSE ps[p].node = NoNode
=============================================================================
