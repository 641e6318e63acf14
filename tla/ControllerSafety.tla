----------------------------- MODULE ControllerSafety -----------------------------
(***************************************************************************)
(* Type correctness of the controller, and that its bookkeeping is right   *)
(* in every state: a process is listed by a node exactly when it runs      *)
(* there, the counters of a node are the sum of the requests it lists, and *)
(* only live nodes have work.  From it follows that the consistency check  *)
(* at the end of a tick succeeds and that a tick which fails is not        *)
(* noticed.                                                                *)
(*                                                                         *)
(* On top of that, what time does: how a process record changes over its   *)
(* life, what a tick decides, and when it stops.                           *)
(*                                                                         *)
(* Each part has the lemmas about single records and single updates        *)
(* first, then those about what commands and ticks share, then one step    *)
(* per action.                                                             *)
(***************************************************************************)
EXTENDS ControllerProperties, ClusterLemmas

-----------------------------------------------------------------------------
(* Types: records *)

\* A node made from a capacity that passes validation is well formed.
LEMMA NewNodeType ==
  ASSUME NEW capacity \in [Resources -> Int], ValidCapacity(capacity),
         NEW now \in Nat
  PROVE  NewNode(capacity, now) \in Node
<1>1. capacity \in [Resources -> Nat \ {0}]
  BY DEF ValidCapacity
<1>2. Nothing \in [Resources -> Int]
  BY DEF Nothing
<1>3. QED
  BY <1>1, <1>2 DEF NewNode, Node, NodeStatuses

\* A process made from a definition that passes validation is well formed.
LEMMA NewProcessType ==
  ASSUME NEW def \in ProcessDefinition, ValidDefinition(def), NEW now \in Nat
  PROVE  [NewProcess(def, now) EXCEPT !.state = "READY"] \in Process
<1>1. def.request \in [Resources -> Nat \ {0}]
  <2>1. def.request \in [Resources -> Int]
    BY DEF ProcessDefinition
  <2>2. \A r \in Resources : def.request[r] > 0
    BY DEF ValidDefinition
  <2>3. QED
    BY <2>1, <2>2
<1>2. def.total \in Nat \ {0} /\ def.maxRestarts \in Nat
  <2>1. def.total \in Int /\ def.maxRestarts \in Int
    BY DEF ProcessDefinition
  <2>2. def.total > 0 /\ def.maxRestarts >= 0
    BY DEF ValidDefinition
  <2>3. QED
    BY <2>1, <2>2
<1>3. PolicyOf(def) \in Policies /\ def.priority \in Int
  <2>1. def.priority \in Int
    BY DEF ProcessDefinition
  <2>2. QED
    BY <2>1 DEF ValidDefinition
<1>4. QED
  BY <1>1, <1>2, <1>3 DEF NewProcess, Process, ProcStates, Ticks, NoTick, NoNode

\* Allocating, releasing and failing keep a node well formed.
LEMMA NodeUpdateType ==
  ASSUME NEW node \in Node, NEW p \in ProcIds, NEW proc \in Process
  PROVE  /\ Allocated(node, p, proc) \in Node
         /\ Released(node, p, proc) \in Node
         /\ Emptied(node) \in Node
<1>1. [r \in Resources |-> node.allocated[r] + proc.request[r]] \in [Resources -> Int]
  BY DEF Node, Process
<1>2. [r \in Resources |-> node.allocated[r] - proc.request[r]] \in [Resources -> Int]
  BY DEF Node, Process
<1>3. Allocated(node, p, proc) \in Node
  BY <1>1 DEF Allocated, Node
<1>4. Released(node, p, proc) \in Node
  BY <1>2 DEF Released, Node
<1>5. Emptied(node) \in Node
  <2>1. Nothing \in [Resources -> Int]
    BY DEF Nothing
  <2>2. QED
    BY <2>1 DEF Emptied, Node, NodeStatuses
<1>6. QED
  BY <1>3, <1>4, <1>5

\* The updates of one process keep it well formed.
LEMMA ProcessUpdateType ==
  ASSUME NEW proc \in Process, NEW now \in Nat
  PROVE  /\ Unplaced(proc) \in Process
         /\ AfterFailure(proc, now) \in Process
         /\ AfterFailure(Unplaced(proc), now) \in Process
         /\ Worked(proc) \in Process
         /\ \A s \in ProcStates : [proc EXCEPT !.state = s] \in Process
         /\ [proc EXCEPT !.finished = now] \in Process
         /\ [proc EXCEPT !.lastReady = now] \in Process
<1>1. ASSUME NEW q \in Process
      PROVE  AfterFailure(q, now) \in Process
  <2>1. q.restarts + 1 \in Nat /\ q.total \in Int
    BY DEF Process
  <2>2. now \in Ticks /\ NoTick \in Ticks
    BY DEF Ticks
  <2>3. CASE CanRestart(q)
    BY <2>1, <2>2, <2>3 DEF AfterFailure, Process, ProcStates
  <2>4. CASE ~ CanRestart(q)
    BY <2>2, <2>4 DEF AfterFailure, Process, ProcStates
  <2>5. QED
    BY <2>3, <2>4
<1>2. Unplaced(proc) \in Process
  BY DEF Unplaced, Process
<1>3. Worked(proc) \in Process
  BY DEF Worked, Process
<1>4. \A s \in ProcStates : [proc EXCEPT !.state = s] \in Process
  BY DEF Process
<1>5. [proc EXCEPT !.finished = now] \in Process
  BY DEF Process, Ticks
<1>6. [proc EXCEPT !.lastReady = now] \in Process
  BY DEF Process
<1>7. QED
  BY <1>1, <1>2, <1>3, <1>4, <1>5, <1>6

\* Replacing, adding and dropping entries of the two maps.
LEMMA MapUpdateType ==
  /\ \A ns, n, v : NodesOK(ns) /\ n \in DOMAIN ns /\ v \in Node
                     => NodesOK([ns EXCEPT ![n] = v])
  /\ \A ps, p, v : ProcsOK(ps) /\ p \in DOMAIN ps /\ v \in Process
                     => ProcsOK([ps EXCEPT ![p] = v])
  BY DEF NodesOK, ProcsOK

-----------------------------------------------------------------------------
(* Types: parts shared by commands and ticks *)

LEMMA SubmitLockedType ==
  ASSUME TypeOK, NEW p \in ProcIds, NEW def \in ProcessDefinition,
         SubmitLocked(p, def)
  PROVE  ProcsOK(procs)' /\ StatusOK(status, reason)'
<1>1. [NewProcess(def, tick) EXCEPT !.state = "READY"] \in Process
  BY NewProcessType DEF SubmitLocked, CanSubmit, TypeOK
<1>2. ProcsOK(procs)'
  BY <1>1 DEF SubmitLocked, TypeOK, ProcsOK
<1>3. StatusOK(status, reason)'
  BY DEF SubmitLocked, TypeOK, StatusOK, Reasons
<1>4. QED
  BY <1>2, <1>3

LEMMA ReleaseType ==
  ASSUME TypeOK, NEW p \in DOMAIN procs, CanRelease(p)
  PROVE  NodesOK(AfterRelease(p))
<1>1. procs[p] \in Process /\ p \in ProcIds
  BY DEF TypeOK, ProcsOK
<1>2. procs[p].node \in DOMAIN nodes /\ nodes[procs[p].node] \in Node
  BY DEF CanRelease, TypeOK, NodesOK
<1>3. Released(nodes[procs[p].node], p, procs[p]) \in Node
  BY <1>1, <1>2, NodeUpdateType
<1>4. QED
  BY <1>2, <1>3 DEF AfterRelease, TypeOK, NodesOK

LEMMA VacateType ==
  ASSUME TypeOK, NEW p \in DOMAIN procs, NEW s \in ProcStates, Vacate(p, s)
  PROVE  NodesOK(nodes)' /\ ProcsOK(procs)'
<1>1. NodesOK(nodes)'
  BY ReleaseType DEF Vacate
<1>2. procs[p] \in Process /\ tick \in Nat
  BY DEF TypeOK, ProcsOK
<1>3. [Unplaced(procs[p]) EXCEPT !.state = s] \in Process
  BY <1>2, ProcessUpdateType
<1>4. ProcsOK(procs)'
  BY <1>3 DEF Vacate, TypeOK, ProcsOK
<1>5. QED
  BY <1>1, <1>4

LEMMA RequeueType ==
  ASSUME TypeOK, NEW p \in DOMAIN procs, NEW s, Requeue(p, s)
  PROVE  NodesOK(nodes)' /\ ProcsOK(procs)'
<1>1. procs[p] \in Process /\ tick \in Nat
  BY DEF TypeOK, ProcsOK
<1>2. [procs[p] EXCEPT !.state = "READY", !.lastReady = tick] \in Process
  BY <1>1 DEF Process, ProcStates
<1>3. QED
  BY <1>2 DEF Requeue, TypeOK, ProcsOK

LEMMA FailProcessLockedType ==
  ASSUME TypeOK, NEW p, FailProcessLocked(p)
  PROVE  NodesOK(nodes)' /\ ProcsOK(procs)'
<1>1. p \in DOMAIN procs /\ procs[p] \in Process /\ tick \in Nat
  BY DEF FailProcessLocked, CanFailProcess, TypeOK, ProcsOK
<1>2. NodesOK(nodes)'
  <2>1. CASE OnLiveHost(p)
    BY <1>1, <2>1, ReleaseType DEF FailProcessLocked, CanFailProcess
  <2>2. CASE ~ OnLiveHost(p)
    BY <2>2 DEF FailProcessLocked, TypeOK
  <2> QED BY <2>1, <2>2
<1>3. AfterFailure(IF procs[p].state = "RUNNING" THEN Unplaced(procs[p]) ELSE procs[p],
                   tick) \in Process
  BY <1>1, ProcessUpdateType
<1>4. ProcsOK(procs)'
  BY <1>1, <1>3 DEF FailProcessLocked, TypeOK, ProcsOK
<1>5. QED
  BY <1>2, <1>4

LEMMA FailNodeLockedType ==
  ASSUME TypeOK, NEW n, FailNodeLocked(n)
  PROVE  NodesOK(nodes)' /\ ProcsOK(procs)'
<1>1. n \in DOMAIN nodes /\ nodes[n] \in Node /\ tick \in Nat
  BY DEF FailNodeLocked, CanFailNode, TypeOK, NodesOK
<1>2. Emptied(nodes[n]) \in Node
  <2>1. Nothing \in [Resources -> Int]
    BY DEF Nothing
  <2>2. QED
    BY <1>1, <2>1 DEF Emptied, Node, NodeStatuses
<1>3. NodesOK(nodes)'
  BY <1>1, <1>2 DEF FailNodeLocked, TypeOK, NodesOK
<1>4. \A p \in DOMAIN procs : AfterFailure(Unplaced(procs[p]), tick) \in Process
  BY <1>1, ProcessUpdateType DEF TypeOK, ProcsOK
<1>5. ProcsOK(procs)'
  BY <1>4 DEF FailNodeLocked, TypeOK, ProcsOK
<1>6. QED
  BY <1>3, <1>5

\* The empty cluster, and the empty copy of it.
LEMMA NothingType ==
  /\ NodesOK(NoNodes) /\ ProcsOK(NoProcs)
  /\ DOMAIN NoNodes = {} /\ DOMAIN NoProcs = {}
  /\ NodesOK(NothingSaved.nodes) /\ ProcsOK(NothingSaved.procs)
  /\ NothingSaved.tick \in Nat /\ StatusOK(NothingSaved.status, NothingSaved.reason)
  /\ NothingSaved.pending = {} /\ NothingSaved.failures = {}
<1>1. NodesOK(NoNodes) /\ ProcsOK(NoProcs) /\ DOMAIN NoNodes = {} /\ DOMAIN NoProcs = {}
  BY DEF NodesOK, ProcsOK, NoNodes, NoProcs
<1>2. QED
  BY <1>1 DEF NothingSaved, StatusOK, Reasons

LEMMA RollbackType ==
  ASSUME TypeOK, Rollback
  PROVE  TypeOK'
  BY NothingType DEF Rollback, TypeOK, schedulerVars

\* What all commands but three have in common, and the early part of a tick.
LEMMA FrameType ==
  ASSUME TypeOK, phase \in {"idle", "apply", "beat"},
         NodesOK(nodes)', ProcsOK(procs)', StatusOK(status, reason)',
         pending' \subseteq pending, failures' \subseteq failures,
         UNCHANGED <<tick, maxTicks, schedulerVars, stepVars>>
  PROVE  TypeOK'
  BY DEF TypeOK, schedulerVars, stepVars

LEMMA NodeCommandType ==
  ASSUME TypeOK, NEW n \in NodeIds, NodeCommand(n)
  PROVE  TypeOK'
<1> USE DEF Free, scheduleVars
<1>1. CASE RemoveNode(n)
  <2>1. NodesOK(nodes)'
    BY <1>1 DEF RemoveNode, TypeOK, NodesOK
  <2>2. QED
    BY <1>1, <2>1, FrameType DEF RemoveNode, TypeOK
<1>2. CASE FailNode(n)
  BY <1>2, FailNodeLockedType, FrameType DEF FailNode, TypeOK
<1>3. ASSUME NEW s \in NodeStatuses, NEW h \in Nat, n \in DOMAIN nodes
      PROVE  NodesOK([nodes EXCEPT ![n] = [@ EXCEPT !.status = s, !.heartbeat = h]])
  <2>1. nodes[n] \in Node
    BY <1>3 DEF TypeOK, NodesOK
  <2>2. [nodes[n] EXCEPT !.status = s, !.heartbeat = h] \in Node
    BY <2>1 DEF Node
  <2>3. QED
    BY <1>3, <2>2 DEF TypeOK, NodesOK
<1>4. CASE RecoverNode(n)
  <2>1. NodesOK(nodes)'
    BY <1>3, <1>4 DEF RecoverNode, TypeOK, NodeStatuses
  <2>2. QED
    BY <1>4, <2>1, FrameType DEF RecoverNode, TypeOK
<1>5. CASE Heartbeat(n)
  <2>1. nodes[n] \in Node
    BY <1>5 DEF Heartbeat, TypeOK, NodesOK
  <2>2. [nodes[n] EXCEPT !.heartbeat = tick] \in Node
    BY <2>1 DEF Node, TypeOK
  <2>3. NodesOK(nodes)'
    BY <1>5, <2>2 DEF Heartbeat, TypeOK, NodesOK
  <2>4. QED
    BY <1>5, <2>3, FrameType DEF Heartbeat, TypeOK
<1>6. ASSUME NEW s \in NodeStatuses, ChangeNodeStatus(n, s)
      PROVE  TypeOK'
  <2>1. n \in DOMAIN nodes /\ nodes[n] \in Node /\ tick \in Nat
    BY <1>6 DEF ChangeNodeStatus, TypeOK, NodesOK
  <2>2. [nodes[n] EXCEPT !.status = s,
                         !.heartbeat = IF s = "ONLINE" THEN tick ELSE @] \in Node
    BY <2>1 DEF Node
  <2>3. NodesOK(nodes)'
    BY <1>6, <2>1, <2>2 DEF ChangeNodeStatus, TypeOK, NodesOK
  <2>4. QED
    BY <1>6, <2>3, FrameType DEF ChangeNodeStatus, TypeOK
<1>7. QED
  BY <1>1, <1>2, <1>4, <1>5, <1>6 DEF NodeCommand

LEMMA ProcessCommandType ==
  ASSUME TypeOK, NEW p \in ProcIds, ProcessCommand(p)
  PROVE  TypeOK'
<1> USE DEF Free, scheduleVars
<1>1. CASE PauseProcess(p)
  BY <1>1, VacateType, FrameType DEF PauseProcess, ProcStates, TypeOK
<1>2. CASE WaitProcess(p)
  BY <1>2, VacateType, FrameType DEF WaitProcess, ProcStates, TypeOK
<1>3. CASE ResumeProcess(p)
  BY <1>3, RequeueType, FrameType DEF ResumeProcess, TypeOK
<1>4. CASE WakeProcess(p)
  BY <1>4, RequeueType, FrameType DEF WakeProcess, TypeOK
<1>5. CASE FailProcess(p)
  BY <1>5, FailProcessLockedType, FrameType DEF FailProcess, TypeOK
<1>6. CASE KillProcess(p)
  <2>1. procs[p] \in Process /\ tick \in Nat /\ p \in DOMAIN procs
    BY <1>6 DEF KillProcess, TypeOK, ProcsOK
  <2>2. NodesOK(nodes)'
    BY <1>6, <2>1, ReleaseType DEF KillProcess, TypeOK
  <2>3. [procs[p] EXCEPT !.state = "KILLED", !.finished = tick] \in Process
    BY <2>1 DEF Process, ProcStates, Ticks
  <2>4. [Unplaced(procs[p]) EXCEPT !.state = "KILLED", !.finished = tick] \in Process
    BY <2>1 DEF Process, ProcStates, Ticks, Unplaced
  <2>5. ProcsOK(procs)'
    BY <1>6, <2>3, <2>4 DEF KillProcess, TypeOK, ProcsOK
  <2>6. QED
    BY <1>6, <2>2, <2>5, FrameType DEF KillProcess, TypeOK
<1>7. QED
  BY <1>1, <1>2, <1>3, <1>4, <1>5, <1>6 DEF ProcessCommand

LEMMA RegisterNodeType ==
  ASSUME TypeOK, NEW n \in NodeIds, NEW c \in Capacities, RegisterNode(n, c)
  PROVE  TypeOK'
<1>1. NewNode(c, tick) \in Node
  BY InputAssumption, NewNodeType DEF RegisterNode, TypeOK
<1>2. NodesOK(nodes)'
  BY <1>1 DEF RegisterNode, TypeOK, NodesOK
<1>3. QED
  BY <1>2, FrameType DEF RegisterNode, Free, TypeOK, scheduleVars

\* Two entries with one id are one entry, so the id determines it.
LEMMA DefinitionOfId ==
  ASSUME NEW S, NEW i \in IdsOf(S)
  PROVE  DefinitionOf(S, i) \in S /\ DefinitionOf(S, i).id = i
  BY DEF IdsOf, DefinitionOf

\* A valid scenario is loaded into a well-formed cluster and schedule.
LEMMA LoadScenarioType ==
  ASSUME TypeOK, NEW s \in Scenarios, LoadScenario(s)
  PROVE  TypeOK'
<1> DEFINE N == [id : NodeIds, capacity : [Resources -> Int]]
           F == [at : Int, type : FailureTypes, id : NodeIds \cup ProcIds,
                 stray : NodeIds \cup ProcIds \cup {0}]
<1>1. /\ s.maxTicks \in Int /\ s.nodes \subseteq N
      /\ s.processes \subseteq Submission /\ s.failures \in Seq(F)
  BY InputAssumption
<1>2. ValidScenario(s)
  BY DEF LoadScenario
<1>3. NodesOK(nodes)'
  <2>1. ASSUME NEW n \in IdsOf(s.nodes)
        PROVE  NewNode(DefinitionOf(s.nodes, n).capacity, 0) \in Node /\ n \in NodeIds
    <3>1. DefinitionOf(s.nodes, n) \in s.nodes /\ DefinitionOf(s.nodes, n).id = n
      BY DefinitionOfId
    <3>2. DefinitionOf(s.nodes, n) \in N
      BY <1>1, <3>1
    <3>3. /\ DefinitionOf(s.nodes, n).capacity \in [Resources -> Int]
          /\ n \in NodeIds
      BY <3>1, <3>2
    <3>4. ValidCapacity(DefinitionOf(s.nodes, n).capacity)
      BY <1>2, <3>1 DEF ValidScenario
    <3>5. QED
      BY <3>3, <3>4, NewNodeType
  <2>2. QED
    BY <2>1 DEF LoadScenario, LoadedNodes, NodesOK
<1>4. ProcsOK(procs)'
  <2>1. ASSUME NEW p \in IdsOf(PresentAtStart(s))
        PROVE  /\ [NewProcess(DefinitionOf(s.processes, p).def, 0)
                      EXCEPT !.state = "READY"] \in Process
               /\ p \in ProcIds
    <3>1. p \in IdsOf(s.processes)
      BY DEF IdsOf, PresentAtStart
    <3>2. /\ DefinitionOf(s.processes, p) \in s.processes
          /\ DefinitionOf(s.processes, p).id = p
      BY <3>1, DefinitionOfId
    <3>3. DefinitionOf(s.processes, p) \in Submission
      BY <1>1, <3>2
    <3>4. DefinitionOf(s.processes, p).def \in ProcessDefinition /\ p \in ProcIds
      BY <3>2, <3>3 DEF Submission
    <3>5. ValidDefinition(DefinitionOf(s.processes, p).def)
      BY <1>2, <3>2 DEF ValidScenario
    <3>6. QED
      BY <3>4, <3>5, NewProcessType
  <2>2. QED
    BY <2>1 DEF LoadScenario, LoadedProcesses, ProcsOK
<1>5. pending' \subseteq Submission
  BY <1>1 DEF LoadScenario, LoadedPending
<1>6. failures' \subseteq Failure
  <2>1. ASSUME NEW i \in DOMAIN s.failures
        PROVE  [at |-> s.failures[i].at, pos |-> i, type |-> s.failures[i].type,
                id |-> s.failures[i].id] \in Failure
    <3>1. i \in Nat /\ s.failures[i] \in F
      <4> DEFINE q == s.failures
      <4>1. q \in Seq(F) /\ i \in DOMAIN q
        BY <1>1
      <4> HIDE DEF q, F
      <4>2. i \in Nat /\ q[i] \in F
        BY <4>1
      <4>3. QED
        BY <4>2 DEF q
    <3>2. QED
      BY <3>1 DEF Failure
  <2>2. QED
    BY <2>1 DEF LoadScenario, LoadedFailures
<1>7. maxTicks' \in Nat /\ algorithm' \in Algorithms /\ cursor' \in Nat
  <2>1. s.scheduler \in Algorithms /\ s.maxTicks > 0
    BY <1>2 DEF ValidScenario
  <2>2. s.maxTicks \in Nat
    BY <1>1, <2>1
  <2>3. QED
    BY <2>1, <2>2 DEF LoadScenario
<1>8. StatusOK(status, reason)' /\ tick' \in Nat
  BY DEF LoadScenario, StatusOK, Reasons
<1>9. QED
  BY <1>3, <1>4, <1>5, <1>6, <1>7, <1>8 DEF LoadScenario, Free, stepVars, TypeOK

LEMMA CommandType ==
  ASSUME TypeOK, Command
  PROVE  TypeOK'
<1> USE DEF Free, scheduleVars
<1>1. ASSUME NEW n \in NodeIds, NEW c \in Capacities, RegisterNode(n, c)
      PROVE  TypeOK'
  BY <1>1, RegisterNodeType
<1>2. ASSUME NEW n \in NodeIds, NodeCommand(n)
      PROVE  TypeOK'
  BY <1>2, NodeCommandType
<1>3. ASSUME NEW p \in ProcIds, NEW def \in Definitions, SubmitProcess(p, def)
      PROVE  TypeOK'
  <2>1. def \in ProcessDefinition
    BY InputAssumption
  <2>2. QED
    BY <1>3, <2>1, SubmitLockedType, FrameType DEF SubmitProcess, TypeOK
<1>4. ASSUME NEW p \in ProcIds, ProcessCommand(p)
      PROVE  TypeOK'
  BY <1>4, ProcessCommandType
<1>5. ASSUME NEW a \in Algorithms, SetScheduler(a)
      PROVE  TypeOK'
  BY <1>5 DEF SetScheduler, clusterVars, stepVars, TypeOK
<1>6. ASSUME NEW s \in Scenarios, LoadScenario(s)
      PROVE  TypeOK'
  BY <1>6, LoadScenarioType
<1>7. CASE Start
  BY <1>7, FrameType DEF Start, TypeOK, StatusOK, Reasons
<1>8. CASE PauseSimulation
  BY <1>8, FrameType DEF PauseSimulation, TypeOK, StatusOK, Reasons
<1>9. CASE Finish
  BY <1>9, FrameType DEF Finish, TypeOK, StatusOK, Reasons
<1>10. CASE Reset
  BY <1>10 DEF Reset, schedulerVars, stepVars, TypeOK, NodesOK, ProcsOK,
               NoNodes, NoProcs, StatusOK, Reasons
<1>11. QED
  BY <1>1, <1>2, <1>3, <1>4, <1>5, <1>6, <1>7, <1>8, <1>9, <1>10 DEF Command

-----------------------------------------------------------------------------
(* Types: the tick *)

\* Node IDs are finitely many, so the cursor of round robin is a position.
LEMMA NextCursorType ==
  ASSUME TypeOK, NEW n \in DOMAIN snaps
  PROVE  NextCursor(algorithm, snaps, cursor, n) \in Nat
<1> DEFINE D == DOMAIN snaps
           B == {m \in D : m < n}
<1>1. IsFiniteSet(D)
  <2>1. D \subseteq NodeIds
    BY DEF TypeOK, NodesOK
  <2>2. QED
    BY <2>1, IdsAssumption, FS_Subset
<1>2. Cardinality(D) \in Nat \ {0}
  <2>1. D # {}
    OBVIOUS
  <2> HIDE DEF D
  <2>2. Cardinality(D) \in Nat
    BY <1>1, FS_CardinalityType
  <2>3. Cardinality(D) # 0
    BY <1>1, <2>1, FS_EmptySet
  <2>4. QED
    BY <2>2, <2>3
<1>3. Cardinality(B) \in Nat
  <2>1. B \subseteq D
    OBVIOUS
  <2> HIDE DEF B, D
  <2>2. IsFiniteSet(B)
    BY <1>1, <2>1, FS_Subset
  <2>3. QED
    BY <2>2, FS_CardinalityType
<1>4. (Cardinality(B) + 1) % Cardinality(D) \in Nat
  <2> HIDE DEF B, D
  <2>1. QED
    BY <1>2, <1>3
<1>5. QED
  BY <1>4 DEF NextCursor, Index, TypeOK

LEMMA PlaceType ==
  ASSUME TypeOK, NEW p \in ProcIds, Place(p)
  PROVE  TypeOK'
<1>1. p \in DOMAIN procs /\ procs[p] \in Process /\ tick \in Nat
  BY DEF Place, NextReady, TypeOK, ProcsOK
<1>2. PICK n \in DOMAIN snaps : PlaceOn(p, n)
  BY DEF Place
<1>3. n \in DOMAIN nodes /\ nodes[n] \in Node /\ n \in NodeIds
  BY DEF Place, TypeOK, NodesOK
<1>4. Allocated(nodes[n], p, procs[p]) \in Node
  BY <1>1, <1>3, NodeUpdateType
<1>5. Started(procs[p], n) \in Process
  <2>1. procs[p].waiting + tick - procs[p].lastReady \in Int /\ tick \in Ticks
    BY <1>1 DEF Process, Ticks
  <2>2. QED
    BY <1>1, <1>3, <2>1 DEF Started, Process, ProcStates
<1>6. NodesOK(nodes)' /\ DOMAIN nodes' = DOMAIN nodes
  BY <1>2, <1>3, <1>4 DEF PlaceOn, TypeOK, NodesOK
<1>7. ProcsOK(procs)' /\ DOMAIN procs' = DOMAIN procs
  BY <1>1, <1>2, <1>5 DEF PlaceOn, TypeOK, ProcsOK
<1>8. cursor' \in Nat
  BY <1>2, NextCursorType DEF PlaceOn
<1>9. DOMAIN snaps' = DOMAIN snaps
  BY <1>2 DEF PlaceOn
<1>10. QED
  BY <1>6, <1>7, <1>8, <1>9 DEF Place, scheduleVars, TypeOK

LEMMA ExecuteType ==
  ASSUME TypeOK, NEW p \in ProcIds, Execute(p)
  PROVE  TypeOK'
<1>1. p \in DOMAIN procs /\ procs[p] \in Process /\ tick \in Nat
  BY DEF Execute, TypeOK, ProcsOK
<1>2. Worked(procs[p]) \in Process
  BY <1>1, ProcessUpdateType
<1>3. [Unplaced(Worked(procs[p])) EXCEPT !.state = "TERMINATED", !.finished = tick]
        \in Process
  BY <1>1, <1>2 DEF Unplaced, Process, ProcStates, Ticks
<1>4. NodesOK(nodes)' /\ DOMAIN nodes' = DOMAIN nodes
  BY <1>1, ReleaseType DEF Execute, AfterRelease, TypeOK
<1>5. ProcsOK(procs)' /\ DOMAIN procs' = DOMAIN procs
  BY <1>1, <1>2, <1>3 DEF Execute, TypeOK, ProcsOK
<1>6. QED
  BY <1>4, <1>5 DEF Execute, scheduleVars, schedulerVars, TypeOK

LEMMA InsideStepType ==
  ASSUME TypeOK, InsideStep
  PROVE  TypeOK'
<1> USE DEF scheduleVars
<1>1. ASSUME NEW d \in pending, ApplySubmission(d)
      PROVE  TypeOK'
  <2>1. d.id \in ProcIds /\ d.def \in ProcessDefinition
    BY DEF TypeOK, Submission
  <2>2. CASE CanSubmit(d.id, d.def)
    BY <1>1, <2>1, <2>2, SubmitLockedType, FrameType DEF ApplySubmission, TypeOK
  <2>3. CASE ~ CanSubmit(d.id, d.def)
    BY <1>1, <2>3, RollbackType DEF ApplySubmission
  <2>4. QED
    BY <2>2, <2>3
<1>2. ASSUME NEW f \in failures, ApplyFailure(f)
      PROVE  TypeOK'
  <2>1. NodesOK(nodes)' /\ ProcsOK(procs)'
    BY <1>2, FailNodeLockedType, FailProcessLockedType DEF ApplyFailure
  <2>2. QED
    BY <1>2, <2>1, FrameType DEF ApplyFailure, TypeOK
<1>3. ASSUME NEW f \in failures, RejectFailure(f)
      PROVE  TypeOK'
  BY <1>3, RollbackType DEF RejectFailure
<1>4. ASSUME NEW n \in NodeIds, DetectMissedHeartbeat(n)
      PROVE  TypeOK'
  BY <1>4, FailNodeLockedType, FrameType DEF DetectMissedHeartbeat, TypeOK
<1>5. ASSUME NEW p \in ProcIds, Place(p)
      PROVE  TypeOK'
  BY <1>5, PlaceType
<1>6. ASSUME NEW p \in ProcIds, Defer(p)
      PROVE  TypeOK'
  BY <1>6 DEF Defer, clusterVars, schedulerVars, TypeOK
<1>7. ASSUME NEW p \in ProcIds, Execute(p)
      PROVE  TypeOK'
  BY <1>7, ExecuteType
<1>8. CASE EndApply
  BY <1>8 DEF EndApply, clusterVars, schedulerVars, TypeOK
<1>9. CASE EndBeat
  BY <1>9 DEF EndBeat, clusterVars, schedulerVars, InState, TypeOK
<1>10. CASE EndPlace
  BY <1>10 DEF EndPlace, clusterVars, schedulerVars, InState, NoNodes, TypeOK
<1>11. CASE EndRun
  BY <1>11 DEF EndRun, clusterVars, schedulerVars, TypeOK
<1>12. CASE EndStep
  <2>1. CASE Consistent(nodes, procs)
    <3>1. FinishReason \in Reasons
      BY DEF FinishReason, ProgressBlockReason, Reasons
    <3>2. StatusOK(status, reason)'
      BY <1>12, <2>1, <3>1 DEF EndStep, TypeOK, StatusOK
    <3>3. QED
      BY <1>12, <2>1, <3>2, NothingType DEF EndStep, schedulerVars, TypeOK
  <2>2. CASE ~ Consistent(nodes, procs)
    BY <1>12, <2>2, RollbackType DEF EndStep
  <2>3. QED
    BY <2>1, <2>2
<1>13. QED
  BY <1>1, <1>2, <1>3, <1>4, <1>5, <1>6, <1>7, <1>8, <1>9, <1>10, <1>11, <1>12
  DEF InsideStep

LEMMA NextType ==
  ASSUME TypeOK, [Next]_vars
  PROVE  TypeOK'
<1>1. CASE Command
  BY <1>1, CommandType
<1>2. CASE BeginStep
  BY <1>2 DEF BeginStep, Current, scheduleVars, schedulerVars, TypeOK, StatusOK
<1>3. CASE InsideStep
  BY <1>3, InsideStepType
<1>4. CASE UNCHANGED vars
  BY <1>4 DEF vars, clusterVars, scheduleVars, schedulerVars, stepVars, TypeOK
<1>5. QED
  BY <1>1, <1>2, <1>3, <1>4 DEF Next

LEMMA InitType == Init => TypeOK
<1> SUFFICES ASSUME Init
             PROVE  TypeOK
  OBVIOUS
<1>1. StatusOK(status, reason)
  BY DEF Init, StatusOK, Reasons
<1>2. algorithm \in Algorithms
  BY ConfigAssumption DEF Init
<1>3. QED
  BY <1>1, <1>2, NothingType DEF Init, TypeOK

\* Every variable of the controller keeps its type whatever is commanded and
\* however a tick goes, with any configuration and any decoded input.
THEOREM TypeCorrect == Spec => []TypeOK
  BY InitType, NextType, PTL DEF Spec

-----------------------------------------------------------------------------
(* Bookkeeping *)

Sound(ns, ps) == HostingIn(ns, ps) /\ LedgerIn(ns, ps) /\ HostsUpIn(ns)

-----------------------------------------------------------------------------
(* Bookkeeping: updates of the two maps *)

\* What a node lists is finite and asks for natural numbers.
LEMMA ListedType ==
  ASSUME NEW ns, NEW ps, NodesOK(ns), ProcsOK(ps), HostingIn(ns, ps),
         NEW n \in DOMAIN ns
  PROVE  /\ IsFiniteSet(ns[n].running)
         /\ \A p \in ns[n].running, r \in Resources :
              p \in DOMAIN ps /\ ps[p].request[r] \in Nat
<1>1. ns[n] \in Node
  BY DEF NodesOK
<1>2. ns[n].running \subseteq ProcIds
  BY <1>1 DEF Node
<1>3. IsFiniteSet(ns[n].running)
  BY <1>2, IdsAssumption, FS_Subset
<1>4. \A p \in ns[n].running : p \in DOMAIN ps /\ ps[p] \in Process
  BY DEF HostingIn, ListsOnlyItsOwn, ProcsOK
<1>5. QED
  BY <1>3, <1>4 DEF Process

\* Idle nodes and unplaced processes are consistent.
LEMMA FreshIsSound ==
  ASSUME NEW ns, NEW ps, NodesOK(ns),
         \A n \in DOMAIN ns : ns[n].running = {} /\ ns[n].allocated = Nothing,
         \A p \in DOMAIN ps : ps[p].state # "RUNNING" /\ ps[p].node = NoNode
  PROVE  Sound(ns, ps)
<1>1. HostingIn(ns, ps)
  BY DEF HostingIn, ListsOnlyItsOwn
<1>2. ASSUME NEW n \in DOMAIN ns
      PROVE  WithinCapacity(ns[n]) /\ CountersMatch(ns, ps, n)
  <2>1. \A r \in Resources : ns[n].allocated[r] = 0 /\ ns[n].capacity[r] \in Nat
    BY DEF NodesOK, Node, Nothing
  <2>2. \A r \in Resources : Demand(ps, ns[n].running, r) = 0
    BY DemandOfNobody
  <2>3. QED
    BY <2>1, <2>2 DEF WithinCapacity, CountersMatch
<1>3. QED
  BY <1>1, <1>2 DEF Sound, LedgerIn, HostsUpIn

\* Processes may change, and appear, as long as none starts, stops or moves.
LEMMA StayingIsSound ==
  ASSUME NEW ns, NEW ps, NEW qs, Sound(ns, ps), DOMAIN ps \subseteq DOMAIN qs,
         \A p \in DOMAIN ps : /\ qs[p].request = ps[p].request
                              /\ qs[p].node = ps[p].node
                              /\ qs[p].state = "RUNNING" <=> ps[p].state = "RUNNING",
         \A p \in DOMAIN qs \ DOMAIN ps :
            qs[p].state # "RUNNING" /\ qs[p].node = NoNode
  PROVE  Sound(ns, qs)
<1>1. HostingIn(ns, qs)
  BY DEF Sound, HostingIn, ListsOnlyItsOwn
<1>2. ASSUME NEW n \in DOMAIN ns
      PROVE  WithinCapacity(ns[n]) /\ CountersMatch(ns, qs, n)
  <2>1. \A p \in ns[n].running : qs[p].request = ps[p].request
    BY DEF Sound, HostingIn, ListsOnlyItsOwn
  <2>2. \A r \in Resources :
          Demand(qs, ns[n].running, r) = Demand(ps, ns[n].running, r)
    BY <2>1, DemandCongruence
  <2>3. QED
    BY <2>2 DEF Sound, LedgerIn, CountersMatch
<1>3. QED
  BY <1>1, <1>2 DEF Sound, LedgerIn

\* Nodes may change as long as they keep their work and are up if they have any,
\* idle nodes may come and go.
LEMMA NodesChangeSoundly ==
  ASSUME NEW ns, NEW ms, NEW ps, NodesOK(ms), Sound(ns, ps),
         \A n \in DOMAIN ms :
           \/ ms[n].running = {} /\ ms[n].allocated = Nothing
           \/ /\ n \in DOMAIN ns
              /\ ms[n].running = ns[n].running /\ ms[n].allocated = ns[n].allocated
              /\ ms[n].capacity = ns[n].capacity
              /\ ms[n].running # {} => ms[n].status \in {"ONLINE", "DRAINING"},
         \A n \in DOMAIN ns :
           \/ ns[n].running = {}
           \/ n \in DOMAIN ms /\ ms[n].running = ns[n].running
  PROVE  Sound(ms, ps)
<1>1. HostingIn(ms, ps)
  BY DEF Sound, HostingIn, ListsOnlyItsOwn
<1>2. ASSUME NEW n \in DOMAIN ms
      PROVE  WithinCapacity(ms[n]) /\ CountersMatch(ms, ps, n)
  <2>1. CASE ms[n].running = {} /\ ms[n].allocated = Nothing
    <3>1. \A r \in Resources : ms[n].allocated[r] = 0 /\ ms[n].capacity[r] \in Nat
      BY <2>1 DEF NodesOK, Node, Nothing
    <3>2. \A r \in Resources : Demand(ps, ms[n].running, r) = 0
      BY <2>1, DemandOfNobody
    <3>3. QED
      BY <3>1, <3>2 DEF WithinCapacity, CountersMatch
  <2>2. CASE ~ (ms[n].running = {} /\ ms[n].allocated = Nothing)
    <3>1. /\ n \in DOMAIN ns
          /\ ms[n].running = ns[n].running /\ ms[n].allocated = ns[n].allocated
          /\ ms[n].capacity = ns[n].capacity
      BY <2>2
    <3>2. QED
      BY <3>1 DEF Sound, LedgerIn, WithinCapacity, CountersMatch
  <2>3. QED
    BY <2>1, <2>2
<1>3. HostsUpIn(ms)
  BY DEF HostsUpIn
<1>4. QED
  BY <1>1, <1>2, <1>3 DEF Sound, LedgerIn

\* A running process gives its node back what it holds.
LEMMA VacatingIsSound ==
  ASSUME NEW ns, NEW ps, NodesOK(ns), ProcsOK(ps), Sound(ns, ps),
         NEW p \in DOMAIN ps, ps[p].state = "RUNNING",
         NEW v, v.state # "RUNNING", v.node = NoNode
  PROVE  Sound([ns EXCEPT ![ps[p].node] = Released(@, p, ps[p])],
               [ps EXCEPT ![p] = v])
<1> DEFINE h  == ps[p].node
           ms == [ns EXCEPT ![h] = Released(@, p, ps[p])]
           qs == [ps EXCEPT ![p] = v]
<1>1. h \in DOMAIN ns /\ p \in ns[h].running
  BY DEF Sound, HostingIn
<1>2. \A n \in DOMAIN ns : n # h => p \notin ns[n].running
  BY DEF Sound, HostingIn, ListsOnlyItsOwn
<1>3. ns[h] \in Node /\ ps[p] \in Process
  BY <1>1 DEF NodesOK, ProcsOK
<1>4. /\ DOMAIN ms = DOMAIN ns
      /\ \A n \in DOMAIN ns : n # h => ms[n] = ns[n]
      /\ ms[h].running = ns[h].running \ {p}
      /\ ms[h].status = ns[h].status /\ ms[h].capacity = ns[h].capacity
      /\ \A r \in Resources :
           ms[h].allocated[r] = ns[h].allocated[r] - ps[p].request[r]
  BY <1>1, <1>3 DEF Released, Node
<1>5. /\ DOMAIN qs = DOMAIN ps
      /\ \A q \in DOMAIN ps : q # p => qs[q] = ps[q]
      /\ qs[p] = v
  OBVIOUS
<1> HIDE DEF ms, qs, h
<1>6. HostingIn(ms, qs)
  <2>1. ASSUME NEW n \in DOMAIN ms
        PROVE  ListsOnlyItsOwn(ms, qs, n)
    <3>1. \A q \in ms[n].running : q # p /\ q \in ns[n].running
      BY <1>2, <1>4
    <3>2. QED
      BY <1>4, <1>5, <3>1 DEF Sound, HostingIn, ListsOnlyItsOwn
  <2>2. ASSUME NEW q \in DOMAIN qs
        PROVE  IF qs[q].state = "RUNNING"
                 THEN qs[q].node \in DOMAIN ms /\ q \in ms[qs[q].node].running
                 ELSE qs[q].node = NoNode
    <3>1. CASE q = p
      BY <1>5, <3>1
    <3>2. CASE q # p
      BY <1>4, <1>5, <3>2 DEF Sound, HostingIn
    <3>3. QED
      BY <3>1, <3>2
  <2>3. QED
    BY <2>1, <2>2 DEF HostingIn
<1>7. LedgerIn(ms, qs)
  <2>1. ASSUME NEW n \in DOMAIN ms, NEW r \in Resources
        PROVE  /\ ms[n].allocated[r] \in 0 .. ms[n].capacity[r]
               /\ ms[n].allocated[r] = Demand(qs, ms[n].running, r)
    <3>1. /\ n \in DOMAIN ns /\ ns[n] \in Node
          /\ ns[n].allocated[r] \in 0 .. ns[n].capacity[r]
          /\ ns[n].allocated[r] = Demand(ps, ns[n].running, r)
      BY <1>4 DEF Sound, LedgerIn, WithinCapacity, CountersMatch, NodesOK
    <3>2. ms[n].running \subseteq ns[n].running \ {p}
      BY <1>2, <1>4, <3>1
    <3>3. Demand(qs, ms[n].running, r) = Demand(ps, ms[n].running, r)
      <4>1. \A q \in ms[n].running : qs[q].request = ps[q].request
        BY <1>5, <3>1, <3>2 DEF Sound, HostingIn, ListsOnlyItsOwn
      <4>2. QED
        BY <4>1, DemandCongruence
    <3>4. CASE n # h
      BY <1>4, <3>1, <3>3, <3>4
    <3>5. CASE n = h
      <4>1. /\ IsFiniteSet(ns[h].running)
            /\ \A q \in ns[h].running : ps[q].request[r] \in Nat
        BY <1>1, ListedType DEF Sound
      <4>2. /\ Demand(ps, ns[h].running \ {p}, r)
                 = Demand(ps, ns[h].running, r) - ps[p].request[r]
            /\ Demand(ps, ns[h].running \ {p}, r) \in Nat
        BY <1>1, <4>1, DemandLeaves
      <4>3. ps[p].request[r] \in Nat /\ ns[h].capacity[r] \in Nat
        BY <1>3 DEF Node, Process
      <4>4. ms[h].allocated[r] = Demand(ps, ns[h].running \ {p}, r)
        BY <1>4, <3>1, <3>5, <4>2
      <4>5. Demand(ps, ns[h].running \ {p}, r) \in 0 .. ns[h].capacity[r]
        <5> DEFINE old == Demand(ps, ns[h].running, r)
                   new == Demand(ps, ns[h].running \ {p}, r)
                   req == ps[p].request[r]
                   cap == ns[h].capacity[r]
        <5>1. new = old - req /\ new \in Nat /\ req \in Nat /\ cap \in Nat
          BY <4>2, <4>3
        <5>2. old \in 0 .. cap
          BY <3>1, <3>5
        <5> HIDE DEF old, new, req, cap
        <5>3. new \in 0 .. cap
          BY <5>1, <5>2
        <5>4. QED
          BY <5>3 DEF new, cap
      <4>6. QED
        BY <1>4, <3>3, <3>5, <4>4, <4>5
    <3>6. QED
      BY <3>4, <3>5
  <2>2. QED
    BY <2>1 DEF LedgerIn, WithinCapacity, CountersMatch
<1>8. HostsUpIn(ms)
  BY <1>1, <1>4 DEF Sound, HostsUpIn
<1>9. QED
  BY <1>6, <1>7, <1>8 DEF Sound, ms, qs, h

\* A process that fits a node and runs nowhere is placed there.
LEMMA PlacingIsSound ==
  ASSUME NEW ns, NEW ps, NodesOK(ns), ProcsOK(ps), Sound(ns, ps),
         NEW p \in DOMAIN ps, ps[p].state # "RUNNING",
         NEW h \in DOMAIN ns, Fits(ns[h], ps[p]),
         NEW v, v.state = "RUNNING", v.node = h, v.request = ps[p].request
  PROVE  Sound([ns EXCEPT ![h] = Allocated(@, p, ps[p])],
               [ps EXCEPT ![p] = v])
<1> DEFINE ms == [ns EXCEPT ![h] = Allocated(@, p, ps[p])]
           qs == [ps EXCEPT ![p] = v]
<1>1. \A n \in DOMAIN ns : p \notin ns[n].running
  BY DEF Sound, HostingIn, ListsOnlyItsOwn
<1>2. ns[h] \in Node /\ ps[p] \in Process
  BY DEF NodesOK, ProcsOK
<1>3. /\ DOMAIN ms = DOMAIN ns
      /\ \A n \in DOMAIN ns : n # h => ms[n] = ns[n]
      /\ ms[h].running = ns[h].running \cup {p}
      /\ ms[h].status = ns[h].status /\ ms[h].capacity = ns[h].capacity
      /\ \A r \in Resources :
           ms[h].allocated[r] = ns[h].allocated[r] + ps[p].request[r]
  BY <1>2 DEF Allocated, Node
<1>4. /\ DOMAIN qs = DOMAIN ps
      /\ \A q \in DOMAIN ps : q # p => qs[q] = ps[q]
      /\ qs[p] = v
  OBVIOUS
<1> HIDE DEF ms, qs
<1>5. HostingIn(ms, qs)
  <2>1. ASSUME NEW n \in DOMAIN ms
        PROVE  ListsOnlyItsOwn(ms, qs, n)
    <3>1. CASE n = h
      BY <1>1, <1>3, <1>4, <3>1 DEF Sound, HostingIn, ListsOnlyItsOwn
    <3>2. CASE n # h
      BY <1>1, <1>3, <1>4, <3>2 DEF Sound, HostingIn, ListsOnlyItsOwn
    <3>3. QED
      BY <3>1, <3>2
  <2>2. ASSUME NEW q \in DOMAIN qs
        PROVE  IF qs[q].state = "RUNNING"
                 THEN qs[q].node \in DOMAIN ms /\ q \in ms[qs[q].node].running
                 ELSE qs[q].node = NoNode
    <3>1. CASE q = p
      BY <1>3, <1>4, <3>1
    <3>2. CASE q # p
      BY <1>3, <1>4, <3>2 DEF Sound, HostingIn
    <3>3. QED
      BY <3>1, <3>2
  <2>3. QED
    BY <2>1, <2>2 DEF HostingIn
<1>6. LedgerIn(ms, qs)
  <2>1. ASSUME NEW n \in DOMAIN ms, NEW r \in Resources
        PROVE  /\ ms[n].allocated[r] \in 0 .. ms[n].capacity[r]
               /\ ms[n].allocated[r] = Demand(qs, ms[n].running, r)
    <3>1. /\ n \in DOMAIN ns /\ ns[n] \in Node
          /\ ns[n].allocated[r] \in 0 .. ns[n].capacity[r]
          /\ ns[n].allocated[r] = Demand(ps, ns[n].running, r)
      BY <1>3 DEF Sound, LedgerIn, WithinCapacity, CountersMatch, NodesOK
    <3>2. Demand(qs, ms[n].running, r) = Demand(ps, ms[n].running, r)
      <4>1. \A q \in ms[n].running : qs[q].request = ps[q].request
        <5>1. ms[n].running \subseteq ns[n].running \cup {p}
          BY <1>3, <3>1
        <5>2. QED
          BY <1>4, <3>1, <5>1 DEF Sound, HostingIn, ListsOnlyItsOwn
      <4>2. QED
        BY <4>1, DemandCongruence
    <3>3. CASE n # h
      BY <1>3, <3>1, <3>2, <3>3
    <3>4. CASE n = h
      <4>1. /\ IsFiniteSet(ns[h].running)
            /\ \A q \in ns[h].running \cup {p} : ps[q].request[r] \in Nat
        BY <1>2, ListedType DEF Sound, Process
      <4>2. /\ Demand(ps, ns[h].running \cup {p}, r)
                 = Demand(ps, ns[h].running, r) + ps[p].request[r]
            /\ Demand(ps, ns[h].running, r) \in Nat
        BY <1>1, <4>1, DemandJoins
      <4>3. /\ ps[p].request[r] \in Nat /\ ns[h].capacity[r] \in Nat
            /\ ns[h].capacity[r] - ns[h].allocated[r] >= ps[p].request[r]
        BY <1>2 DEF Node, Process, Fits
      <4>4. ms[h].allocated[r] = Demand(ps, ns[h].running \cup {p}, r)
        BY <1>3, <3>1, <3>4, <4>2
      <4>5. Demand(ps, ns[h].running \cup {p}, r) \in 0 .. ns[h].capacity[r]
        <5> DEFINE old == Demand(ps, ns[h].running, r)
                   new == Demand(ps, ns[h].running \cup {p}, r)
                   req == ps[p].request[r]
                   cap == ns[h].capacity[r]
        <5>1. /\ new = old + req /\ old \in Nat /\ req \in Nat /\ cap \in Nat
              /\ cap - old >= req
          BY <3>1, <3>4, <4>2, <4>3
        <5> HIDE DEF old, new, req, cap
        <5>2. new \in 0 .. cap
          BY <5>1
        <5>3. QED
          BY <5>2 DEF new, cap
      <4>6. QED
        BY <1>3, <3>2, <3>4, <4>4, <4>5
    <3>5. QED
      BY <3>3, <3>4
  <2>2. QED
    BY <2>1 DEF LedgerIn, WithinCapacity, CountersMatch
<1>7. HostsUpIn(ms)
  BY <1>3 DEF Sound, HostsUpIn, Fits
<1>8. QED
  BY <1>5, <1>6, <1>7 DEF Sound, ms, qs

\* A node loses all its work at once.
LEMMA EmptyingIsSound ==
  ASSUME NEW ns, NEW ps, NodesOK(ns), ProcsOK(ps), Sound(ns, ps),
         NEW h \in DOMAIN ns, NEW qs, DOMAIN qs = DOMAIN ps,
         \A q \in DOMAIN ps : q \notin ns[h].running => qs[q] = ps[q],
         \A q \in ns[h].running : qs[q].state # "RUNNING" /\ qs[q].node = NoNode
  PROVE  Sound([ns EXCEPT ![h] = Emptied(@)], qs)
<1> DEFINE ms == [ns EXCEPT ![h] = Emptied(@)]
<1>1. ns[h] \in Node
  BY DEF NodesOK
<1>2. /\ DOMAIN ms = DOMAIN ns
      /\ \A n \in DOMAIN ns : n # h => ms[n] = ns[n]
      /\ ms[h].running = {} /\ ms[h].allocated = Nothing
      /\ ms[h].capacity = ns[h].capacity
  BY <1>1 DEF Emptied, Node
<1> HIDE DEF ms
<1>3. \A n \in DOMAIN ns : n # h => \A q \in ns[n].running : q \notin ns[h].running
  BY DEF Sound, HostingIn, ListsOnlyItsOwn
<1>4. HostingIn(ms, qs)
  <2>1. ASSUME NEW n \in DOMAIN ms
        PROVE  ListsOnlyItsOwn(ms, qs, n)
    BY <1>2, <1>3 DEF Sound, HostingIn, ListsOnlyItsOwn
  <2>2. ASSUME NEW q \in DOMAIN qs
        PROVE  IF qs[q].state = "RUNNING"
                 THEN qs[q].node \in DOMAIN ms /\ q \in ms[qs[q].node].running
                 ELSE qs[q].node = NoNode
    BY <1>2 DEF Sound, HostingIn
  <2>3. QED
    BY <2>1, <2>2 DEF HostingIn
<1>5. ASSUME NEW n \in DOMAIN ms
      PROVE  WithinCapacity(ms[n]) /\ CountersMatch(ms, qs, n)
  <2>1. CASE n = h
    <3>1. \A r \in Resources : ms[n].allocated[r] = 0 /\ ms[n].capacity[r] \in Nat
      BY <1>1, <1>2, <2>1 DEF Node, Nothing
    <3>2. \A r \in Resources : Demand(qs, ms[n].running, r) = 0
      BY <1>2, <2>1, DemandOfNobody
    <3>3. QED
      BY <3>1, <3>2 DEF WithinCapacity, CountersMatch
  <2>2. CASE n # h
    <3>1. n \in DOMAIN ns /\ ms[n] = ns[n]
      BY <1>2, <2>2
    <3>2. \A q \in ns[n].running : qs[q].request = ps[q].request
      BY <1>3, <2>2, <3>1 DEF Sound, HostingIn, ListsOnlyItsOwn
    <3>3. \A r \in Resources :
            Demand(qs, ns[n].running, r) = Demand(ps, ns[n].running, r)
      BY <3>2, DemandCongruence
    <3>4. QED
      BY <3>1, <3>3 DEF Sound, LedgerIn, WithinCapacity, CountersMatch
  <2>3. QED
    BY <2>1, <2>2
<1>6. HostsUpIn(ms)
  BY <1>2 DEF Sound, HostsUpIn
<1>7. QED
  BY <1>4, <1>5, <1>6 DEF Sound, LedgerIn, ms

\* Sound bookkeeping passes the check at the end of a tick.
LEMMA SoundIsConsistent ==
  ASSUME NEW ns, NEW ps, NodesOK(ns), Sound(ns, ps)
  PROVE  Consistent(ns, ps)
<1>1. ASSUME NEW p \in DOMAIN ps, ps[p].state = "RUNNING"
      PROVE  /\ ps[p].node # NoNode
             /\ Cardinality({n \in DOMAIN ns : p \in ns[n].running}) = 1
  <2>1. ps[p].node \in DOMAIN ns /\ p \in ns[ps[p].node].running
    BY <1>1 DEF Sound, HostingIn
  <2>2. \A n \in DOMAIN ns : p \in ns[n].running => n = ps[p].node
    BY DEF Sound, HostingIn, ListsOnlyItsOwn
  <2>3. {n \in DOMAIN ns : p \in ns[n].running} = {ps[p].node}
    BY <2>1, <2>2
  <2>4. Cardinality({ps[p].node}) = 1
    BY FS_Singleton
  <2>5. ps[p].node # NoNode
    BY <2>1, IdsAssumption DEF NodesOK, NoNode
  <2>6. QED
    BY <2>3, <2>4, <2>5
<1>2. \A p \in DOMAIN ps : ps[p].state # "RUNNING" => ps[p].node = NoNode
  BY DEF Sound, HostingIn
<1>3. \A n \in DOMAIN ns : /\ WithinCapacity(ns[n])
                          /\ ListsOnlyItsOwn(ns, ps, n)
                          /\ CountersMatch(ns, ps, n)
  BY DEF Sound, HostingIn, LedgerIn
<1>4. QED
  BY <1>1, <1>2, <1>3 DEF Consistent

-----------------------------------------------------------------------------
(* The inductive invariant *)

\* The processes a phase has still to visit are as they were when it began:
\* this is why a placement never lists a process twice.
TodoIsFresh ==
  /\ phase = "place" => \A p \in todo : procs[p].state = "READY"
  /\ phase = "run"   => \A p \in todo : procs[p].state = "RUNNING"

\* The copy of the state a tick keeps is a whole one.
SavedIsWhole ==
  saved = [nodes |-> saved.nodes, procs |-> saved.procs, tick |-> saved.tick,
           status |-> saved.status, reason |-> saved.reason,
           pending |-> saved.pending, failures |-> saved.failures]

\* A failed tick returns to the copy, so the copy has to be sound too.
IInv ==
  /\ TypeOK
  /\ Sound(nodes, procs)
  /\ Sound(saved.nodes, saved.procs)
  /\ SavedIsWhole
  /\ TodoIsFresh

-----------------------------------------------------------------------------
(* Parts shared by commands and ticks *)

LEMMA SubmitLockedSound ==
  ASSUME IInv, NEW p, NEW def, SubmitLocked(p, def)
  PROVE  Sound(nodes, procs')
<1>1. DOMAIN procs' = DOMAIN procs \cup {p} /\ p \notin DOMAIN procs
  BY DEF SubmitLocked, CanSubmit
<1>2. \A q \in DOMAIN procs : procs'[q] = procs[q]
  BY <1>1 DEF SubmitLocked
<1>3. procs'[p].state # "RUNNING" /\ procs'[p].node = NoNode
  BY DEF SubmitLocked, NewProcess
<1>4. Sound(nodes, procs)
  BY DEF IInv
<1> HIDE DEF IInv, SubmitLocked
<1>5. QED
  BY <1>1, <1>2, <1>3, <1>4, StayingIsSound

LEMMA VacateSound ==
  ASSUME IInv, NEW p \in DOMAIN procs, NEW s \in ProcStates \ {"RUNNING"}, Vacate(p, s)
  PROVE  Sound(nodes', procs')
<1> DEFINE v == [Unplaced(procs[p]) EXCEPT !.state = s]
<1>1. procs[p] \in Process
  BY DEF IInv, TypeOK, ProcsOK
<1>2. v.state # "RUNNING" /\ v.node = NoNode
  BY <1>1 DEF Unplaced, Process
<1>3. /\ procs[p].state = "RUNNING"
      /\ nodes' = [nodes EXCEPT ![procs[p].node] = Released(@, p, procs[p])]
      /\ procs' = [procs EXCEPT ![p] = v]
  BY DEF Vacate, AfterRelease
<1>4. NodesOK(nodes) /\ ProcsOK(procs) /\ Sound(nodes, procs)
  BY DEF IInv, TypeOK
<1> HIDE DEF v
<1>5. QED
  BY <1>2, <1>3, <1>4, VacatingIsSound

LEMMA RequeueSound ==
  ASSUME IInv, NEW p \in DOMAIN procs, NEW s, s # "RUNNING", Requeue(p, s)
  PROVE  Sound(nodes', procs')
<1>1. procs[p] \in Process
  BY DEF IInv, TypeOK, ProcsOK
<1>2. /\ DOMAIN procs' = DOMAIN procs
      /\ \A q \in DOMAIN procs : q # p => procs'[q] = procs[q]
      /\ procs'[p].request = procs[p].request /\ procs'[p].node = procs[p].node
      /\ procs'[p].state = "READY" /\ procs[p].state # "RUNNING"
  BY <1>1 DEF Requeue, Process
<1>3. Sound(nodes, procs)
  BY DEF IInv
<1>4. Sound(nodes, procs')
  BY <1>2, <1>3, StayingIsSound
<1>5. QED
  BY <1>4 DEF Requeue

\* A failure leaves a process outside the cluster, restarted or not.
LEMMA FailureUnplaces ==
  ASSUME NEW proc \in Process, NEW now
  PROVE  /\ AfterFailure(proc, now).state # "RUNNING"
         /\ AfterFailure(proc, now).request = proc.request
         /\ AfterFailure(proc, now).node = proc.node
         /\ AfterFailure(Unplaced(proc), now).state # "RUNNING"
         /\ AfterFailure(Unplaced(proc), now).node = NoNode
<1>1. ASSUME NEW x \in Process
      PROVE  /\ AfterFailure(x, now).state # "RUNNING"
             /\ AfterFailure(x, now).request = x.request
             /\ AfterFailure(x, now).node = x.node
  <2>1. CASE CanRestart(x)
    BY <2>1 DEF AfterFailure, Process
  <2>2. CASE ~ CanRestart(x)
    BY <2>2 DEF AfterFailure, Process
  <2>3. QED
    BY <2>1, <2>2
<1>2. Unplaced(proc) \in Process /\ Unplaced(proc).node = NoNode
  BY DEF Unplaced, Process
<1>3. QED
  BY <1>1, <1>2

LEMMA FailProcessLockedSound ==
  ASSUME IInv, NEW p, FailProcessLocked(p)
  PROVE  Sound(nodes', procs')
<1>1. p \in DOMAIN procs /\ procs[p] \in Process
  BY DEF FailProcessLocked, CanFailProcess, IInv, TypeOK, ProcsOK
<1>2. NodesOK(nodes) /\ ProcsOK(procs) /\ Sound(nodes, procs)
  BY DEF IInv, TypeOK
<1>3. CASE procs[p].state = "RUNNING"
  <2> DEFINE v == AfterFailure(Unplaced(procs[p]), tick)
  <2>1. v.state # "RUNNING" /\ v.node = NoNode
    BY <1>1, FailureUnplaces
  <2>2. procs' = [procs EXCEPT ![p] = v]
    BY <1>3 DEF FailProcessLocked
  <2>3. OnLiveHost(p)
    BY <1>1, <1>2, <1>3 DEF OnLiveHost, Sound, HostingIn, HostsUpIn
  <2>4. nodes' = [nodes EXCEPT ![procs[p].node] = Released(@, p, procs[p])]
    BY <2>3 DEF FailProcessLocked, AfterRelease
  <2> HIDE DEF v
  <2>5. QED
    BY <1>1, <1>2, <1>3, <2>1, <2>2, <2>4, VacatingIsSound
<1>4. CASE procs[p].state # "RUNNING"
  <2>1. nodes' = nodes
    BY <1>4 DEF FailProcessLocked, OnLiveHost
  <2>2. procs' = [procs EXCEPT ![p] = AfterFailure(procs[p], tick)]
    BY <1>4 DEF FailProcessLocked
  <2>3. /\ DOMAIN procs' = DOMAIN procs
        /\ \A q \in DOMAIN procs : q # p => procs'[q] = procs[q]
        /\ procs'[p].request = procs[p].request /\ procs'[p].node = procs[p].node
        /\ procs'[p].state # "RUNNING"
    BY <1>1, <2>2, FailureUnplaces
  <2>4. Sound(nodes, procs')
    BY <1>2, <1>4, <2>3, StayingIsSound
  <2>5. QED
    BY <2>1, <2>4
<1>5. QED
  BY <1>3, <1>4

LEMMA FailNodeLockedSound ==
  ASSUME IInv, NEW n, FailNodeLocked(n)
  PROVE  Sound(nodes', procs')
<1>1. n \in DOMAIN nodes
  BY DEF FailNodeLocked, CanFailNode
<1>2. NodesOK(nodes) /\ ProcsOK(procs) /\ Sound(nodes, procs)
  BY DEF IInv, TypeOK
<1>3. /\ DOMAIN procs' = DOMAIN procs
      /\ \A q \in DOMAIN procs : q \notin nodes[n].running => procs'[q] = procs[q]
  BY DEF FailNodeLocked
<1>4. ASSUME NEW q \in nodes[n].running
      PROVE  procs'[q].state # "RUNNING" /\ procs'[q].node = NoNode
  <2>1. q \in DOMAIN procs /\ procs[q] \in Process
    BY <1>1, <1>2 DEF Sound, HostingIn, ListsOnlyItsOwn, ProcsOK
  <2>2. procs'[q] = AfterFailure(Unplaced(procs[q]), tick)
    BY <2>1 DEF FailNodeLocked
  <2>3. QED
    BY <2>1, <2>2, FailureUnplaces
<1>5. nodes' = [nodes EXCEPT ![n] = Emptied(@)]
  BY DEF FailNodeLocked
<1>6. \A q \in nodes[n].running : procs'[q].state # "RUNNING" /\ procs'[q].node = NoNode
  BY <1>4
<1>7. Sound([nodes EXCEPT ![n] = Emptied(@)], procs')
  BY <1>1, <1>2, <1>3, <1>6, EmptyingIsSound
<1>8. QED
  BY <1>5, <1>7

\* Steps outside the two visiting phases.
LEMMA FrameSound ==
  ASSUME IInv, TypeOK', Sound(nodes', procs'), phase \notin {"place", "run"},
         UNCHANGED stepVars
  PROVE  IInv'
<1>1. phase' = phase /\ saved' = saved
  BY DEF stepVars
<1>2. SavedIsWhole' /\ TodoIsFresh'
  BY <1>1 DEF IInv, SavedIsWhole, TodoIsFresh
<1>3. QED
  BY <1>1, <1>2 DEF IInv

-----------------------------------------------------------------------------
(* The commands *)

LEMMA NodeCommandSound ==
  ASSUME IInv, TypeOK', NEW n \in NodeIds, NodeCommand(n)
  PROVE  IInv'
<1> USE DEF Free
<1>1. NodesOK(nodes) /\ Sound(nodes, procs) /\ NodesOK(nodes')
  BY DEF IInv, TypeOK
<1>2. CASE FailNode(n)
  BY <1>2, FailNodeLockedSound, FrameSound DEF FailNode
<1>3. CASE RemoveNode(n)
  <2>1. /\ \A m \in DOMAIN nodes' : m \in DOMAIN nodes /\ nodes'[m] = nodes[m]
        /\ \A m \in DOMAIN nodes : nodes[m].running = {} \/ m \in DOMAIN nodes'
        /\ procs' = procs
    BY <1>3 DEF RemoveNode
  <2>2. \A m \in DOMAIN nodes' :
          nodes'[m].running # {} => nodes'[m].status \in {"ONLINE", "DRAINING"}
    BY <1>1, <2>1 DEF Sound, HostsUpIn
  <2>3. Sound(nodes', procs)
    BY <1>1, <2>1, <2>2, NodesChangeSoundly
  <2>4. QED
    BY <1>3, <2>1, <2>3, FrameSound DEF RemoveNode
<1>4. ASSUME n \in DOMAIN nodes, procs' = procs,
             NEW s, NEW h, s \in {"ONLINE", "DRAINING"} \/ nodes[n].running = {},
             nodes' = [nodes EXCEPT ![n].status = s, ![n].heartbeat = h]
      PROVE  Sound(nodes', procs')
  <2>1. nodes[n] \in Node
    BY <1>1, <1>4 DEF NodesOK
  <2>2. /\ DOMAIN nodes' = DOMAIN nodes
        /\ \A m \in DOMAIN nodes : m # n => nodes'[m] = nodes[m]
        /\ nodes'[n].running = nodes[n].running
        /\ nodes'[n].allocated = nodes[n].allocated
        /\ nodes'[n].capacity = nodes[n].capacity
        /\ nodes'[n].status = s
    BY <1>4, <2>1 DEF Node
  <2>3. \A m \in DOMAIN nodes' :
          nodes'[m].running # {} => nodes'[m].status \in {"ONLINE", "DRAINING"}
    BY <1>1, <1>4, <2>2 DEF Sound, HostsUpIn
  <2>4. \A m \in DOMAIN nodes' :
          /\ m \in DOMAIN nodes
          /\ nodes'[m].running = nodes[m].running
          /\ nodes'[m].allocated = nodes[m].allocated
          /\ nodes'[m].capacity = nodes[m].capacity
    BY <2>2
  <2>5. Sound(nodes', procs)
    BY <1>1, <2>2, <2>3, <2>4, NodesChangeSoundly
  <2>6. QED
    BY <1>4, <2>5
<1>5. CASE RecoverNode(n)
  <2>1. nodes[n].running = {}
    BY <1>1, <1>5 DEF RecoverNode, Sound, HostsUpIn
  <2>2. Sound(nodes', procs')
    BY <1>4, <1>5, <2>1 DEF RecoverNode
  <2>3. QED
    BY <1>5, <2>2, FrameSound DEF RecoverNode
<1>6. CASE Heartbeat(n)
  <2>1. nodes[n] \in Node
    BY <1>1, <1>6 DEF Heartbeat, NodesOK
  <2>2. nodes' = [nodes EXCEPT ![n].status = nodes[n].status, ![n].heartbeat = tick]
    BY <1>6, <2>1 DEF Heartbeat, Node
  <2>3. Sound(nodes', procs')
    BY <1>4, <1>6, <2>2 DEF Heartbeat
  <2>4. QED
    BY <1>6, <2>3, FrameSound DEF Heartbeat
<1>7. ASSUME NEW s \in NodeStatuses, ChangeNodeStatus(n, s)
      PROVE  IInv'
  <2>1. s \in {"ONLINE", "DRAINING"} \/ nodes[n].running = {}
    BY <1>1, <1>7 DEF ChangeNodeStatus, NodeTransitions, NodeStatuses, Sound, HostsUpIn
  <2>2. Sound(nodes', procs')
    BY <1>4, <1>7, <2>1 DEF ChangeNodeStatus
  <2>3. QED
    BY <1>7, <2>2, FrameSound DEF ChangeNodeStatus
<1>8. QED
  BY <1>2, <1>3, <1>5, <1>6, <1>7 DEF NodeCommand

LEMMA ProcessCommandSound ==
  ASSUME IInv, TypeOK', NEW p \in ProcIds, ProcessCommand(p)
  PROVE  IInv'
<1> USE DEF Free
<1>1. CASE PauseProcess(p)
  BY <1>1, VacateSound, FrameSound DEF PauseProcess, ProcStates
<1>2. CASE WaitProcess(p)
  BY <1>2, VacateSound, FrameSound DEF WaitProcess, ProcStates
<1>3. CASE ResumeProcess(p)
  BY <1>3, RequeueSound, FrameSound DEF ResumeProcess
<1>4. CASE WakeProcess(p)
  BY <1>4, RequeueSound, FrameSound DEF WakeProcess
<1>5. CASE FailProcess(p)
  BY <1>5, FailProcessLockedSound, FrameSound DEF FailProcess
<1>6. CASE KillProcess(p)
  <2>1. p \in DOMAIN procs /\ procs[p] \in Process
    BY <1>6 DEF KillProcess, IInv, TypeOK, ProcsOK
  <2>2. NodesOK(nodes) /\ ProcsOK(procs) /\ Sound(nodes, procs)
    BY DEF IInv, TypeOK
  <2>3. CASE procs[p].state = "RUNNING"
    <3> DEFINE v == [Unplaced(procs[p]) EXCEPT !.state = "KILLED", !.finished = tick]
    <3>1. v.state # "RUNNING" /\ v.node = NoNode
      BY <2>1 DEF Unplaced, Process
    <3>2. /\ nodes' = [nodes EXCEPT ![procs[p].node] = Released(@, p, procs[p])]
          /\ procs' = [procs EXCEPT ![p] = v]
      BY <1>6, <2>3 DEF KillProcess, AfterRelease
    <3> HIDE DEF v
    <3>3. Sound(nodes', procs')
      BY <2>1, <2>2, <2>3, <3>1, <3>2, VacatingIsSound
    <3>4. QED
      BY <1>6, <3>3, FrameSound DEF KillProcess
  <2>4. CASE procs[p].state # "RUNNING"
    <3>1. /\ DOMAIN procs' = DOMAIN procs
          /\ \A q \in DOMAIN procs : q # p => procs'[q] = procs[q]
          /\ procs'[p].request = procs[p].request /\ procs'[p].node = procs[p].node
          /\ procs'[p].state # "RUNNING"
      BY <1>6, <2>1, <2>4 DEF KillProcess, Process
    <3>2. Sound(nodes, procs')
      BY <2>2, <2>4, <3>1, StayingIsSound
    <3>3. Sound(nodes', procs')
      BY <1>6, <2>4, <3>2 DEF KillProcess
    <3>4. QED
      BY <1>6, <3>3, FrameSound DEF KillProcess
  <2>5. QED
    BY <2>3, <2>4
<1>7. QED
  BY <1>1, <1>2, <1>3, <1>4, <1>5, <1>6 DEF ProcessCommand

LEMMA RegisterNodeSound ==
  ASSUME IInv, TypeOK', NEW n \in NodeIds, NEW c \in Capacities, RegisterNode(n, c)
  PROVE  IInv'
<1>1. Sound(nodes, procs) /\ NodesOK(nodes')
  BY DEF IInv, TypeOK
<1>2. /\ DOMAIN nodes' = DOMAIN nodes \cup {n} /\ n \notin DOMAIN nodes
      /\ \A m \in DOMAIN nodes : nodes'[m] = nodes[m]
      /\ nodes'[n] = NewNode(c, tick) /\ procs' = procs
  BY DEF RegisterNode
<1>3. nodes'[n].running = {} /\ nodes'[n].allocated = Nothing
  BY <1>2 DEF NewNode
<1>4. \A m \in DOMAIN nodes' :
        nodes'[m].running # {} => nodes'[m].status \in {"ONLINE", "DRAINING"}
  BY <1>1, <1>2, <1>3 DEF Sound, HostsUpIn
<1>5. Sound(nodes', procs)
  BY <1>1, <1>2, <1>3, <1>4, NodesChangeSoundly
<1>6. QED
  BY <1>2, <1>5, FrameSound DEF RegisterNode, Free

LEMMA EmptyIsSound == Sound(NoNodes, NoProcs)
  BY FreshIsSound, NothingType DEF NoNodes, NoProcs

LEMMA LoadScenarioSound ==
  ASSUME IInv, TypeOK', NEW s \in Scenarios, LoadScenario(s)
  PROVE  IInv'
<1>1. NodesOK(nodes')
  BY DEF TypeOK
<1>2. \A n \in DOMAIN nodes' : nodes'[n].running = {} /\ nodes'[n].allocated = Nothing
  BY DEF LoadScenario, LoadedNodes, NewNode
<1>3. \A p \in DOMAIN procs' : procs'[p].state # "RUNNING" /\ procs'[p].node = NoNode
  BY DEF LoadScenario, LoadedProcesses, NewProcess
<1>4. Sound(nodes', procs')
  BY <1>1, <1>2, <1>3, FreshIsSound
<1>5. QED
  BY <1>4, FrameSound DEF LoadScenario, Free

LEMMA CommandSound ==
  ASSUME IInv, TypeOK', Command
  PROVE  IInv'
<1> USE DEF Free
<1>1. ASSUME NEW n \in NodeIds, NEW c \in Capacities, RegisterNode(n, c)
      PROVE  IInv'
  BY <1>1, RegisterNodeSound
<1>2. ASSUME NEW n \in NodeIds, NodeCommand(n)
      PROVE  IInv'
  BY <1>2, NodeCommandSound
<1>3. ASSUME NEW p \in ProcIds, NEW def \in Definitions, SubmitProcess(p, def)
      PROVE  IInv'
  BY <1>3, SubmitLockedSound, FrameSound DEF SubmitProcess
<1>4. ASSUME NEW p \in ProcIds, ProcessCommand(p)
      PROVE  IInv'
  BY <1>4, ProcessCommandSound
<1>5. ASSUME NEW s \in Scenarios, LoadScenario(s)
      PROVE  IInv'
  BY <1>5, LoadScenarioSound
<1>6. CASE Reset
  BY <1>6, EmptyIsSound, FrameSound DEF Reset
<1>7. ASSUME Free, nodes' = nodes, procs' = procs
      PROVE  IInv'
  BY <1>7, FrameSound DEF IInv
<1>8. ASSUME NEW a \in Algorithms, SetScheduler(a)
      PROVE  IInv'
  BY <1>7, <1>8 DEF SetScheduler, clusterVars
<1>9. CASE Start \/ PauseSimulation \/ Finish
  BY <1>7, <1>9 DEF Start, PauseSimulation, Finish
<1>10. QED
  BY <1>1, <1>2, <1>3, <1>4, <1>5, <1>6, <1>8, <1>9 DEF Command

-----------------------------------------------------------------------------
(* The tick *)

LEMMA RollbackSound ==
  ASSUME IInv, TypeOK', Rollback
  PROVE  IInv'
<1>1. Sound(nodes', procs') /\ TodoIsFresh'
  BY DEF IInv, Rollback, TodoIsFresh
<1>2. Sound(saved'.nodes, saved'.procs) /\ SavedIsWhole'
  BY EmptyIsSound DEF Rollback, NothingSaved, SavedIsWhole
<1>3. QED
  BY <1>1, <1>2 DEF IInv

LEMMA PlaceSound ==
  ASSUME IInv, TypeOK', NEW p \in ProcIds, Place(p)
  PROVE  IInv'
<1>1. p \in DOMAIN procs /\ procs[p] \in Process /\ procs[p].state = "READY"
  BY DEF Place, NextReady, IInv, TypeOK, ProcsOK, TodoIsFresh
<1>2. NodesOK(nodes) /\ ProcsOK(procs) /\ Sound(nodes, procs)
  BY DEF IInv, TypeOK
<1>3. PICK n \in DOMAIN snaps : PlaceOn(p, n)
  BY DEF Place
<1>4. n \in DOMAIN nodes
  BY DEF Place, IInv, TypeOK
<1>5. /\ Sound(nodes', procs')
      /\ \A q \in DOMAIN procs : q # p => procs'[q] = procs[q]
  <2>1. CASE Fits(nodes[n], procs[p]) /\ p \notin nodes[n].running
    <3> DEFINE v == Started(procs[p], n)
    <3>1. v.state = "RUNNING" /\ v.node = n /\ v.request = procs[p].request
      BY <1>1 DEF Started, Process
    <3>2. /\ nodes' = [nodes EXCEPT ![n] = Allocated(@, p, procs[p])]
          /\ procs' = [procs EXCEPT ![p] = v]
      BY <1>3, <2>1 DEF PlaceOn
    <3> HIDE DEF v
    <3>3. procs[p].state # "RUNNING"
      BY <1>1
    <3>4. Sound([nodes EXCEPT ![n] = Allocated(@, p, procs[p])], [procs EXCEPT ![p] = v])
      BY <1>1, <1>2, <1>4, <2>1, <3>1, <3>3, PlacingIsSound
    <3>5. QED
      BY <3>2, <3>4
  <2>2. CASE ~ (Fits(nodes[n], procs[p]) /\ p \notin nodes[n].running)
    BY <1>2, <1>3, <2>2 DEF PlaceOn
  <2>3. QED
    BY <2>1, <2>2
<1>6. /\ phase = "place" /\ phase' = "place"
      /\ todo' = todo \ {p} /\ saved' = saved
  BY DEF Place
<1>7. TodoIsFresh'
  BY <1>5, <1>6 DEF TodoIsFresh, IInv, TypeOK
<1>8. QED
  BY <1>5, <1>6, <1>7 DEF IInv, SavedIsWhole

LEMMA ExecuteSound ==
  ASSUME IInv, TypeOK', NEW p \in ProcIds, Execute(p)
  PROVE  IInv'
<1>1. p \in DOMAIN procs /\ procs[p] \in Process /\ procs[p].state = "RUNNING"
  BY DEF Execute, IInv, TypeOK, ProcsOK, TodoIsFresh
<1>2. NodesOK(nodes) /\ ProcsOK(procs) /\ Sound(nodes, procs)
  BY DEF IInv, TypeOK
<1>3. /\ Sound(nodes', procs')
      /\ \A q \in DOMAIN procs : q # p => procs'[q] = procs[q]
  <2>1. CASE Worked(procs[p]).remaining <= 0 /\ CanRelease(p)
    <3> DEFINE v == [Unplaced(Worked(procs[p]))
                       EXCEPT !.state = "TERMINATED", !.finished = tick]
    <3>1. v.state # "RUNNING" /\ v.node = NoNode
      BY <1>1 DEF Unplaced, Worked, Process
    <3>2. /\ nodes' = [nodes EXCEPT ![procs[p].node] = Released(@, p, procs[p])]
          /\ procs' = [procs EXCEPT ![p] = v]
      BY <2>1 DEF Execute, AfterRelease
    <3> HIDE DEF v
    <3>3. QED
      BY <1>1, <1>2, <3>1, <3>2, VacatingIsSound
  <2>2. CASE ~ (Worked(procs[p]).remaining <= 0 /\ CanRelease(p))
    <3>1. nodes' = nodes /\ procs' = [procs EXCEPT ![p] = Worked(procs[p])]
      BY <2>2 DEF Execute
    <3>2. /\ DOMAIN procs' = DOMAIN procs
          /\ \A q \in DOMAIN procs : q # p => procs'[q] = procs[q]
          /\ procs'[p].request = procs[p].request /\ procs'[p].node = procs[p].node
          /\ procs'[p].state = procs[p].state
      BY <1>1, <3>1 DEF Worked, Process
    <3>3. Sound(nodes, procs')
      BY <1>2, <3>2, StayingIsSound
    <3>4. QED
      BY <3>1, <3>2, <3>3
  <2>3. QED
    BY <2>1, <2>2
<1>4. /\ phase = "run" /\ phase' = "run"
      /\ todo' = todo \ {p} /\ saved' = saved
  BY DEF Execute
<1>5. TodoIsFresh'
  BY <1>3, <1>4 DEF TodoIsFresh, IInv, TypeOK
<1>6. QED
  BY <1>3, <1>4, <1>5 DEF IInv, SavedIsWhole

LEMMA InsideStepSound ==
  ASSUME IInv, TypeOK', InsideStep
  PROVE  IInv'
<1>1. ASSUME NEW d \in pending, ApplySubmission(d)
      PROVE  IInv'
  <2>1. CASE CanSubmit(d.id, d.def)
    BY <1>1, <2>1, SubmitLockedSound, FrameSound DEF ApplySubmission
  <2>2. CASE ~ CanSubmit(d.id, d.def)
    BY <1>1, <2>2, RollbackSound DEF ApplySubmission
  <2>3. QED
    BY <2>1, <2>2
<1>2. ASSUME NEW f \in failures, ApplyFailure(f)
      PROVE  IInv'
  BY <1>2, FailNodeLockedSound, FailProcessLockedSound, FrameSound DEF ApplyFailure
<1>3. ASSUME NEW f \in failures, RejectFailure(f)
      PROVE  IInv'
  BY <1>3, RollbackSound DEF RejectFailure
<1>4. ASSUME NEW n \in NodeIds, DetectMissedHeartbeat(n)
      PROVE  IInv'
  BY <1>4, FailNodeLockedSound, FrameSound DEF DetectMissedHeartbeat
<1>5. ASSUME NEW p \in ProcIds, Place(p)
      PROVE  IInv'
  BY <1>5, PlaceSound
<1>6. ASSUME NEW p \in ProcIds, Execute(p)
      PROVE  IInv'
  BY <1>6, ExecuteSound
<1>7. ASSUME UNCHANGED <<nodes, procs, saved>>, TodoIsFresh'
      PROVE  IInv'
  BY <1>7 DEF IInv, SavedIsWhole
<1>8. ASSUME NEW p \in ProcIds, Defer(p)
      PROVE  IInv'
  BY <1>7, <1>8 DEF Defer, IInv, TodoIsFresh, clusterVars
<1>9. CASE EndApply
  BY <1>7, <1>9 DEF EndApply, TodoIsFresh, clusterVars
<1>10. CASE EndBeat
  BY <1>7, <1>10 DEF EndBeat, TodoIsFresh, InState, clusterVars
<1>11. CASE EndPlace
  BY <1>7, <1>11 DEF EndPlace, TodoIsFresh, InState, clusterVars
<1>12. CASE EndRun
  BY <1>7, <1>12 DEF EndRun, TodoIsFresh, clusterVars
<1>13. CASE EndStep
  <2>1. CASE Consistent(nodes, procs)
    <3>1. Sound(saved'.nodes, saved'.procs) /\ SavedIsWhole'
      <4>1. saved' = NothingSaved
        BY <1>13, <2>1 DEF EndStep
      <4>2. QED
        BY <4>1, EmptyIsSound DEF NothingSaved, SavedIsWhole
    <3>2. Sound(nodes', procs') /\ TodoIsFresh'
      BY <1>13, <2>1 DEF EndStep, IInv, TodoIsFresh
    <3>3. QED
      BY <3>1, <3>2 DEF IInv
  <2>2. CASE ~ Consistent(nodes, procs)
    BY <1>13, <2>2, RollbackSound DEF EndStep
  <2>3. QED
    BY <2>1, <2>2
<1>14. QED
  BY <1>1, <1>2, <1>3, <1>4, <1>5, <1>6, <1>8, <1>9, <1>10, <1>11, <1>12, <1>13
  DEF InsideStep

LEMMA NextSound ==
  ASSUME IInv, [Next]_vars
  PROVE  IInv'
<1>1. TypeOK'
  BY NextType DEF IInv
<1>2. CASE Command
  BY <1>1, <1>2, CommandSound
<1>3. CASE BeginStep
  <2>1. Sound(saved'.nodes, saved'.procs) /\ SavedIsWhole'
    BY <1>3 DEF BeginStep, Current, SavedIsWhole, IInv
  <2>2. Sound(nodes', procs') /\ TodoIsFresh'
    BY <1>3 DEF BeginStep, IInv, TodoIsFresh
  <2>3. QED
    BY <1>1, <2>1, <2>2 DEF IInv
<1>4. CASE InsideStep
  BY <1>1, <1>4, InsideStepSound
<1>5. CASE UNCHANGED vars
  BY <1>1, <1>5 DEF vars, clusterVars, stepVars, IInv, SavedIsWhole, TodoIsFresh
<1>6. QED
  BY <1>2, <1>3, <1>4, <1>5 DEF Next

-----------------------------------------------------------------------------
(* What follows *)

LEMMA InitSound ==
  ASSUME Init
  PROVE  IInv
<1>1. TypeOK
  BY InitType
<1>2. Sound(nodes, procs) /\ Sound(saved.nodes, saved.procs)
  BY EmptyIsSound DEF Init, NothingSaved
<1>3. SavedIsWhole /\ TodoIsFresh
  BY DEF Init, NothingSaved, SavedIsWhole, TodoIsFresh
<1>4. QED
  BY <1>1, <1>2, <1>3 DEF IInv

LEMMA InvariantHolds == Spec => []IInv
<1>1. Init => IInv
  BY InitSound
<1>2. IInv /\ [Next]_vars => IInv'
  BY NextSound
<1>3. QED
  BY <1>1, <1>2, PTL DEF Spec

\* The counters of every node are exact, whatever is commanded and whenever a
\* tick is looked at.
THEOREM LedgerCorrect == Spec => []LedgerExact
<1>1. IInv => LedgerExact
  BY DEF IInv, Sound, LedgerExact
<1>2. QED
  BY <1>1, InvariantHolds, PTL

\* The lists of the nodes and the node names of the processes always agree.
THEOREM HostingCorrect == Spec => []Hosting
<1>1. IInv => Hosting
  BY DEF IInv, Sound, Hosting
<1>2. QED
  BY <1>1, InvariantHolds, PTL

\* A node that is neither ONLINE nor DRAINING never has work.
THEOREM HostsAreUpCorrect == Spec => []HostsAreUp
<1>1. IInv => HostsAreUp
  BY DEF IInv, Sound, HostsAreUp
<1>2. QED
  BY <1>1, InvariantHolds, PTL

\* The consistency check of a tick never fails.
THEOREM ChecksSucceed == Spec => []TickIsConsistent
<1>1. IInv => TickIsConsistent
  BY SoundIsConsistent DEF IInv, TypeOK, TickIsConsistent
<1>2. QED
  BY <1>1, InvariantHolds, PTL

\* While a tick is under way no command runs.
LEMMA CommandNeedsMutex == Command => phase = "idle"
<1>1. \A n \in NodeIds : NodeCommand(n) => phase = "idle"
  BY DEF NodeCommand, RemoveNode, FailNode, RecoverNode, Heartbeat, ChangeNodeStatus, Free
<1>2. \A p \in ProcIds : ProcessCommand(p) => phase = "idle"
  BY DEF ProcessCommand, PauseProcess, ResumeProcess, WaitProcess, WakeProcess,
         KillProcess, FailProcess, Free
<1>3. QED
  BY <1>1, <1>2
  DEF Command, RegisterNode, SubmitProcess, SetScheduler, LoadScenario, Start,
      PauseSimulation, Reset, Finish, Free

\* A tick that is undone fails in its first phase and leaves nothing behind.
THEOREM FailureIsInvisible == Spec => FailedTickIsInvisible
<1> DEFINE A == (phase # "idle" /\ phase' = "idle" /\ tick' < tick) =>
                   Seen' = Seen /\ phase = "apply"
<1>1. IInv /\ [Next]_vars => A
  <2> SUFFICES ASSUME IInv, Next, phase # "idle", phase' = "idle", tick' < tick
               PROVE  Seen' = Seen /\ phase = "apply"
    BY DEF vars, stepVars
  <2>1. tick \in Nat /\ Consistent(nodes, procs)
    BY SoundIsConsistent DEF IInv, TypeOK
  <2>2. InsideStep
    BY CommandNeedsMutex DEF Next, BeginStep
  <2>3. Rollback /\ phase = "apply"
    <3>1. ASSUME NEW d \in pending, ApplySubmission(d)
          PROVE  Rollback /\ phase = "apply"
      BY <3>1 DEF ApplySubmission, stepVars
    <3>2. ASSUME NEW f \in failures, ApplyFailure(f) \/ RejectFailure(f)
          PROVE  Rollback /\ phase = "apply"
      BY <3>2 DEF ApplyFailure, RejectFailure, stepVars
    <3>3. ~ \E n \in NodeIds : DetectMissedHeartbeat(n)
      BY DEF DetectMissedHeartbeat, stepVars
    <3>4. ~ \E p \in ProcIds : Place(p) \/ Defer(p) \/ Execute(p)
      BY DEF Place, Defer, Execute
    <3>5. ~ (EndApply \/ EndBeat \/ EndPlace \/ EndRun)
      BY DEF EndApply, EndBeat, EndPlace, EndRun
    <3>6. ~ EndStep
      <4>1. EndStep => tick' = tick
        BY <2>1 DEF EndStep
      <4>2. QED
        BY <2>1, <4>1
    <3>7. QED
      BY <2>2, <3>1, <3>2, <3>3, <3>4, <3>5, <3>6 DEF InsideStep
  <2>4. Seen' = Seen
    BY <2>3 DEF Rollback, Seen, Current, IInv, SavedIsWhole
  <2>5. QED
    BY <2>3, <2>4
<1>2. QED
  BY <1>1, InvariantHolds, PTL DEF Spec, FailedTickIsInvisible

-----------------------------------------------------------------------------
(* What a step may make of a process *)

Vacated(old, new) ==
  /\ old.state = "RUNNING"
  /\ \E s \in {"PAUSED", "WAITING"} : new = [Unplaced(old) EXCEPT !.state = s]

Requeued(old, new) ==
  /\ old.state \in {"PAUSED", "WAITING"}
  /\ new = [old EXCEPT !.state = "READY", !.lastReady = tick]

Killed(old, new) ==
  /\ old.state \notin Terminal
  /\ new = [Unplaced(old) EXCEPT !.state = "KILLED", !.finished = tick]

FailedNow(old, new) ==
  /\ old.state \notin Terminal
  /\ new = AfterFailure(Unplaced(old), tick)

Begun(old, new) ==
  /\ old.state = "READY"
  /\ \E n \in NodeIds : new = Started(old, n)

Served(old, new) ==
  /\ old.state = "RUNNING"
  /\ new = IF old.remaining > 1
             THEN Worked(old)
             ELSE [Unplaced(Worked(old)) EXCEPT !.state = "TERMINATED", !.finished = tick]

\* Each in the phases that may do it.
Evolves(old, new) ==
  \/ new = old
  \/ phase = "idle" /\ (Vacated(old, new) \/ Requeued(old, new) \/ Killed(old, new))
  \/ phase \in {"idle", "apply", "beat"} /\ FailedNow(old, new)
  \/ phase = "place" /\ Begun(old, new)
  \/ phase = "run" /\ Served(old, new)

JustSubmitted(proc) ==
  /\ proc.state = "READY" /\ proc.node = NoNode
  /\ proc.remaining = proc.total /\ proc.restarts = 0 /\ proc.waiting = 0
  /\ proc.submitted = tick /\ proc.lastReady = tick
  /\ proc.started = NoTick /\ proc.finished = NoTick

\* No step but a replacement or a rollback loses a process.
ProcsEvolve ==
  /\ DOMAIN procs \subseteq DOMAIN procs'
  /\ \A p \in DOMAIN procs : Evolves(procs[p], procs'[p])
  /\ \A p \in DOMAIN procs' \ DOMAIN procs : JustSubmitted(procs'[p])
  /\ phase \notin {"idle", "apply"} => DOMAIN procs' = DOMAIN procs

-----------------------------------------------------------------------------
(* The invariant *)

\* A process that was accepted has left the state NEW for good, and restarts
\* only as often as its policy lets it.
WithinBudget(proc) ==
  proc.restarts <= IF proc.policy = "NEVER" THEN 0 ELSE proc.maxRestarts

RecordRight(proc, now) ==
  Timed(proc, now) /\ proc.state # "NEW" /\ WithinBudget(proc)

Lived(ps, now) == \A p \in DOMAIN ps : RecordRight(ps[p], now)

StatusRight ==
  /\ ReasonIffCompleted
  /\ saved.status = "COMPLETED" <=> saved.reason # ""
  /\ phase # "idle" => /\ status = "RUNNING" /\ saved.status # "COMPLETED"
                       /\ tick = saved.tick + 1

\* At tick now no ONLINE node of ns has been silent for more than most ticks.
Young(ns, now, most) ==
  \A n \in DOMAIN ns : ns[n].status = "ONLINE" => now - ns[n].heartbeat <= most

\* The tick that has begun counts before the heartbeats are looked at.
Patience == HeartbeatTimeout + (IF phase \in {"apply", "beat"} THEN 1 ELSE 0)

HeartbeatRight ==
  HeartbeatTimeout > 0 => /\ Young(nodes, tick, Patience)
                          /\ phase # "idle" => Young(saved.nodes, saved.tick, HeartbeatTimeout)

PInv ==
  /\ IInv
  /\ StatusRight
  /\ Lived(procs, tick) /\ Lived(saved.procs, saved.tick)
  /\ HeartbeatRight
  /\ SnapshotsCurrent
  /\ WorkConserving

-----------------------------------------------------------------------------
(* Every action evolves the processes *)

\* What a running process holds can always be released: releaseLocked never
\* fails for want of counters.
LEMMA RunningIsReleasable ==
  ASSUME NEW ns, NEW ps, NodesOK(ns), ProcsOK(ps), Sound(ns, ps),
         NEW p \in DOMAIN ps, ps[p].state = "RUNNING"
  PROVE  ps[p].node \in DOMAIN ns /\ Releasable(ns[ps[p].node], p, ps[p])
<1> DEFINE h == ps[p].node
<1>1. h \in DOMAIN ns /\ p \in ns[h].running
  BY DEF Sound, HostingIn
<1> HIDE DEF h
<1>2. ASSUME NEW r \in Resources
      PROVE  ns[h].allocated[r] >= ps[p].request[r]
  <2> DEFINE rest == Demand(ps, ns[h].running \ {p}, r)
             all  == Demand(ps, ns[h].running, r)
             req  == ps[p].request[r]
  <2>1. /\ IsFiniteSet(ns[h].running)
        /\ \A q \in ns[h].running : ps[q].request[r] \in Nat
    BY <1>1, ListedType DEF Sound
  <2>2. rest = all - req /\ rest \in Nat
    BY <1>1, <2>1, DemandLeaves
  <2>3. ns[h].allocated[r] = all /\ all \in Int
    BY <1>1 DEF Sound, LedgerIn, CountersMatch, WithinCapacity
  <2>4. req \in Nat
    BY <1>1, <2>1
  <2> HIDE DEF rest, all, req
  <2>5. all >= req
    BY <2>2, <2>3, <2>4
  <2>6. QED
    BY <2>3, <2>5 DEF req
<1>3. QED
  BY <1>1, <1>2 DEF Releasable, h

LEMMA SubmitEvolves ==
  ASSUME NEW p, NEW def, SubmitLocked(p, def), phase \in {"idle", "apply"}
  PROVE  ProcsEvolve
<1>1. /\ DOMAIN procs' = DOMAIN procs \cup {p} /\ p \notin DOMAIN procs
      /\ \A q \in DOMAIN procs : procs'[q] = procs[q]
      /\ procs'[p] = [NewProcess(def, tick) EXCEPT !.state = "READY"]
  BY DEF SubmitLocked, CanSubmit
<1>2. JustSubmitted(procs'[p])
  BY <1>1 DEF JustSubmitted, NewProcess
<1>3. QED
  BY <1>1, <1>2 DEF ProcsEvolve, Evolves

\* One process changes.
LEMMA OneEvolves ==
  ASSUME NEW p \in DOMAIN procs, NEW v, procs' = [procs EXCEPT ![p] = v],
         Evolves(procs[p], v)
  PROVE  ProcsEvolve
<1>1. DOMAIN procs' = DOMAIN procs
  OBVIOUS
<1>2. \A q \in DOMAIN procs : procs'[q] = IF q = p THEN v ELSE procs[q]
  OBVIOUS
<1>3. QED
  BY <1>1, <1>2 DEF ProcsEvolve, Evolves

LEMMA NoneEvolves ==
  ASSUME procs' = procs
  PROVE  ProcsEvolve
  BY DEF ProcsEvolve, Evolves

\* Outside the cluster a process names no node, so nothing is lost by forgetting it.
LEMMA UnplacedAlready ==
  ASSUME IInv, NEW p \in DOMAIN procs, procs[p].state # "RUNNING"
  PROVE  Unplaced(procs[p]) = procs[p]
<1>1. procs[p] \in Process /\ procs[p].node = NoNode
  BY DEF IInv, TypeOK, ProcsOK, Sound, HostingIn
<1>2. QED
  BY <1>1 DEF Unplaced, Process

LEMMA FailProcessLockedEvolves ==
  ASSUME IInv, NEW p, FailProcessLocked(p), phase \in {"idle", "apply", "beat"}
  PROVE  ProcsEvolve
<1> DEFINE v == AfterFailure(Unplaced(procs[p]), tick)
<1>1. p \in DOMAIN procs /\ procs[p].state \notin Terminal
  BY DEF FailProcessLocked, CanFailProcess, Alive
<1>2. procs' = [procs EXCEPT ![p] = v]
  <2>1. CASE procs[p].state = "RUNNING"
    BY <2>1 DEF FailProcessLocked
  <2>2. CASE procs[p].state # "RUNNING"
    BY <1>1, <2>2, UnplacedAlready DEF FailProcessLocked
  <2>3. QED
    BY <2>1, <2>2
<1>3. Evolves(procs[p], v)
  BY <1>1 DEF Evolves, FailedNow
<1> HIDE DEF v
<1>4. QED
  BY <1>1, <1>2, <1>3, OneEvolves

LEMMA FailNodeLockedEvolves ==
  ASSUME IInv, NEW n, FailNodeLocked(n), phase \in {"idle", "apply", "beat"}
  PROVE  ProcsEvolve
<1>1. DOMAIN procs' = DOMAIN procs
  BY DEF FailNodeLocked
<1>2. ASSUME NEW p \in DOMAIN procs
      PROVE  Evolves(procs[p], procs'[p])
  <2>1. CASE p \in nodes[n].running
    <3>1. procs[p].state = "RUNNING"
      BY <2>1 DEF FailNodeLocked, CanFailNode, IInv, Sound, HostingIn, ListsOnlyItsOwn
    <3>2. procs'[p] = AfterFailure(Unplaced(procs[p]), tick)
      BY <2>1 DEF FailNodeLocked
    <3>3. QED
      BY <3>1, <3>2 DEF Evolves, FailedNow, Terminal
  <2>2. CASE p \notin nodes[n].running
    BY <2>2 DEF FailNodeLocked, Evolves
  <2>3. QED
    BY <2>1, <2>2
<1>3. QED
  BY <1>1, <1>2 DEF ProcsEvolve

LEMMA ProcessCommandEvolves ==
  ASSUME IInv, NEW p \in ProcIds, ProcessCommand(p)
  PROVE  ProcsEvolve
<1> USE DEF Free
<1>1. ASSUME NEW s \in {"PAUSED", "WAITING"}, p \in DOMAIN procs, Vacate(p, s), phase = "idle"
      PROVE  ProcsEvolve
  <2>1. Evolves(procs[p], [Unplaced(procs[p]) EXCEPT !.state = s])
    BY <1>1 DEF Evolves, Vacated, Vacate
  <2>2. QED
    BY <1>1, <2>1, OneEvolves DEF Vacate
<1>2. ASSUME NEW s \in {"PAUSED", "WAITING"}, p \in DOMAIN procs, Requeue(p, s), phase = "idle"
      PROVE  ProcsEvolve
  <2>1. Evolves(procs[p], [procs[p] EXCEPT !.state = "READY", !.lastReady = tick])
    BY <1>2 DEF Evolves, Requeued, Requeue
  <2>2. QED
    BY <1>2, <2>1, OneEvolves DEF Requeue
<1>3. CASE PauseProcess(p)
  BY <1>1, <1>3 DEF PauseProcess
<1>4. CASE WaitProcess(p)
  BY <1>1, <1>4 DEF WaitProcess
<1>5. CASE ResumeProcess(p)
  BY <1>2, <1>5 DEF ResumeProcess
<1>6. CASE WakeProcess(p)
  BY <1>2, <1>6 DEF WakeProcess
<1>7. CASE KillProcess(p)
  <2> DEFINE v == [Unplaced(procs[p]) EXCEPT !.state = "KILLED", !.finished = tick]
  <2>1. p \in DOMAIN procs /\ procs[p].state \notin Terminal /\ phase = "idle"
    BY <1>7 DEF KillProcess, Alive
  <2>2. procs' = [procs EXCEPT ![p] = v]
    <3>1. CASE procs[p].state = "RUNNING"
      BY <1>7, <3>1 DEF KillProcess
    <3>2. CASE procs[p].state # "RUNNING"
      BY <1>7, <2>1, <3>2, UnplacedAlready DEF KillProcess
    <3>3. QED
      BY <3>1, <3>2
  <2>3. Evolves(procs[p], v)
    BY <2>1 DEF Evolves, Killed
  <2> HIDE DEF v
  <2>4. QED
    BY <2>1, <2>2, <2>3, OneEvolves
<1>8. CASE FailProcess(p)
  BY <1>8, FailProcessLockedEvolves DEF FailProcess
<1>9. QED
  BY <1>3, <1>4, <1>5, <1>6, <1>7, <1>8 DEF ProcessCommand

\* What PlaceOn does in the phase it is called in: SelectNode looked at a snapshot
\* of the node, which is current, so Allocate never refuses.
LEMMA PlaceOnSucceeds ==
  ASSUME IInv, SnapshotsCurrent, NEW p, Place(p)
  PROVE  /\ p \in DOMAIN procs /\ procs[p].state = "READY" /\ p \in todo
         /\ \E n \in DOMAIN nodes :
              /\ Fits(nodes[n], procs[p])
              /\ PlaceOn(p, n)
              /\ nodes' = [nodes EXCEPT ![n] = Allocated(@, p, procs[p])]
              /\ procs' = [procs EXCEPT ![p] = Started(@, n)]
              /\ snaps' = [snaps EXCEPT ![n] = Snapshot(nodes'[n])]
<1>1. phase = "place" /\ p \in todo /\ p \in DOMAIN procs /\ procs[p].state = "READY"
  BY DEF Place, NextReady, IInv, TypeOK, TodoIsFresh
<1>2. PICK n \in DOMAIN snaps : PlaceOn(p, n)
  BY DEF Place
<1>3. n \in DOMAIN nodes /\ snaps[n] = Snapshot(nodes[n])
  BY <1>1 DEF SnapshotsCurrent
<1>4. Fits(snaps[n], procs[p])
  BY <1>2 DEF PlaceOn, Selects, NextInTurn, LeastLoaded, Fitting
<1>5. Fits(nodes[n], procs[p])
  BY <1>3, <1>4 DEF Fits, Snapshot
<1>6. p \notin nodes[n].running
  BY <1>1, <1>3 DEF IInv, Sound, HostingIn, ListsOnlyItsOwn
<1>7. QED
  BY <1>1, <1>2, <1>3, <1>5, <1>6 DEF PlaceOn

LEMMA ExecuteServes ==
  ASSUME IInv, Lived(procs, tick), NEW p, Execute(p)
  PROVE  /\ p \in DOMAIN procs /\ p \in todo /\ procs[p].state = "RUNNING"
         /\ \E v : Served(procs[p], v) /\ procs' = [procs EXCEPT ![p] = v]
<1>1. phase = "run" /\ p \in todo /\ p \in DOMAIN procs /\ procs[p].state = "RUNNING"
  BY DEF Execute, IInv, TypeOK, TodoIsFresh
<1>2. CanRelease(p)
  BY <1>1, RunningIsReleasable DEF CanRelease, IInv, TypeOK
<1>3. procs[p] \in Process /\ procs[p].remaining \in Int
  BY <1>1 DEF IInv, TypeOK, ProcsOK, Process
<1>4. Worked(procs[p]).remaining = procs[p].remaining - 1
  BY <1>3 DEF Worked, Process
<1>5. CASE procs[p].remaining > 1
  BY <1>1, <1>3, <1>4, <1>5 DEF Execute, Served
<1>6. CASE ~ (procs[p].remaining > 1)
  BY <1>1, <1>2, <1>3, <1>4, <1>6 DEF Execute, Served
<1>7. QED
  BY <1>1, <1>5, <1>6

LEMMA InsideStepEvolves ==
  ASSUME PInv, InsideStep
  PROVE  ProcsEvolve \/ Rollback
<1>1. ASSUME NEW d \in pending, ApplySubmission(d)
      PROVE  ProcsEvolve \/ Rollback
  BY <1>1, SubmitEvolves DEF ApplySubmission
<1>2. ASSUME NEW f \in failures, ApplyFailure(f)
      PROVE  ProcsEvolve
  BY <1>2, FailNodeLockedEvolves, FailProcessLockedEvolves DEF ApplyFailure, PInv
<1>3. ASSUME NEW f \in failures, RejectFailure(f)
      PROVE  Rollback
  BY <1>3 DEF RejectFailure
<1>4. ASSUME NEW n \in NodeIds, DetectMissedHeartbeat(n)
      PROVE  ProcsEvolve
  BY <1>4, FailNodeLockedEvolves DEF DetectMissedHeartbeat, PInv
<1>5. ASSUME NEW p \in ProcIds, Place(p)
      PROVE  ProcsEvolve
  <2>1. PICK n \in DOMAIN nodes : procs' = [procs EXCEPT ![p] = Started(procs[p], n)]
    BY <1>5, PlaceOnSucceeds DEF PInv
  <2>2. p \in DOMAIN procs /\ procs[p].state = "READY" /\ phase = "place"
    BY <1>5, PlaceOnSucceeds DEF PInv, Place
  <2>3. n \in NodeIds
    BY DEF PInv, IInv, TypeOK, NodesOK
  <2>4. Evolves(procs[p], Started(procs[p], n))
    BY <2>2, <2>3 DEF Evolves, Begun
  <2>5. QED
    BY <2>1, <2>2, <2>4, OneEvolves
<1>6. ASSUME NEW p \in ProcIds, Execute(p)
      PROVE  ProcsEvolve
  <2>1. PICK v : Served(procs[p], v) /\ procs' = [procs EXCEPT ![p] = v]
    BY <1>6, ExecuteServes DEF PInv
  <2>2. p \in DOMAIN procs /\ phase = "run"
    BY <1>6, ExecuteServes DEF PInv, Execute
  <2>3. Evolves(procs[p], v)
    BY <2>1, <2>2 DEF Evolves
  <2>4. QED
    BY <2>1, <2>2, <2>3, OneEvolves
<1>7. ASSUME NEW p \in ProcIds, Defer(p)
      PROVE  ProcsEvolve
  BY <1>7, NoneEvolves DEF Defer, clusterVars
<1>8. CASE EndApply \/ EndBeat \/ EndPlace \/ EndRun
  BY <1>8, NoneEvolves DEF EndApply, EndBeat, EndPlace, EndRun, clusterVars
<1>9. CASE EndStep
  BY <1>9, NoneEvolves DEF EndStep
<1>10. QED
  BY <1>1, <1>2, <1>3, <1>4, <1>5, <1>6, <1>7, <1>8, <1>9 DEF InsideStep

LEMMA CommandEvolves ==
  ASSUME IInv, Command
  PROVE  ProcsEvolve \/ Replace
<1> USE DEF Free
<1>1. ASSUME NEW n \in NodeIds, NodeCommand(n)
      PROVE  ProcsEvolve
  BY <1>1, FailNodeLockedEvolves, NoneEvolves
  DEF NodeCommand, RemoveNode, FailNode, RecoverNode, Heartbeat, ChangeNodeStatus
<1>2. ASSUME NEW p \in ProcIds, NEW def \in Definitions, SubmitProcess(p, def)
      PROVE  ProcsEvolve
  BY <1>2, SubmitEvolves DEF SubmitProcess
<1>3. ASSUME NEW p \in ProcIds, ProcessCommand(p)
      PROVE  ProcsEvolve
  BY <1>3, ProcessCommandEvolves
<1>4. CASE Start \/ PauseSimulation \/ Finish
  BY <1>4, NoneEvolves DEF Start, PauseSimulation, Finish
<1>5. ASSUME NEW a \in Algorithms, SetScheduler(a)
      PROVE  ProcsEvolve
  BY <1>5, NoneEvolves DEF SetScheduler, clusterVars
<1>6. ASSUME NEW n \in NodeIds, NEW c \in Capacities, RegisterNode(n, c)
      PROVE  ProcsEvolve
  BY <1>6, NoneEvolves DEF RegisterNode
<1>7. QED
  BY <1>1, <1>2, <1>3, <1>4, <1>5, <1>6 DEF Command, Replace

\* Every step but the replacement of the cluster and the rollback of a tick.
LEMMA NextEvolves ==
  ASSUME PInv, [Next]_vars
  PROVE  \/ ProcsEvolve
         \/ phase = "idle" /\ Replace
         \/ phase # "idle" /\ Rollback
<1>1. CASE Command
  BY <1>1, CommandEvolves, CommandNeedsMutex DEF PInv
<1>2. CASE BeginStep
  BY <1>2, NoneEvolves DEF BeginStep
<1>3. CASE InsideStep
  <2>1. phase # "idle"
    BY <1>3 DEF InsideStep, ApplySubmission, ApplyFailure, RejectFailure,
       DetectMissedHeartbeat, Place, Defer, Execute, EndApply, EndBeat, EndPlace,
       EndRun, EndStep
  <2>2. QED
    BY <1>3, <2>1, InsideStepEvolves
<1>4. CASE UNCHANGED vars
  BY <1>4, NoneEvolves DEF vars, clusterVars
<1>5. QED
  BY <1>1, <1>2, <1>3, <1>4 DEF Next

-----------------------------------------------------------------------------
(* The records of the processes *)

\* Time passes without harm.
LEMMA RecordAges ==
  ASSUME NEW proc \in Process, NEW now \in Nat, RecordRight(proc, now)
  PROVE  RecordRight(proc, now + 1)
  BY DEF RecordRight, Timed, Process, Ticks, NoTick

LEMMA FreshIsRight ==
  ASSUME NEW proc \in Process, tick \in Nat, JustSubmitted(proc)
  PROVE  RecordRight(proc, tick)
  BY DEF RecordRight, Timed, WithinBudget, JustSubmitted, Process, NoTick, Terminal

LEMMA FailureIsRight ==
  ASSUME NEW old \in Process, tick \in Nat, RecordRight(old, tick), NEW new,
         FailedNow(old, new)
  PROVE  RecordRight(new, tick)
<1>1. old.state \in ProcStates \ Terminal
  BY DEF FailedNow, Process
<1>2. CASE CanRestart(old)
  <2>1. new = [old EXCEPT !.node = NoNode, !.state = "READY", !.restarts = @ + 1,
                          !.remaining = old.total, !.finished = NoTick,
                          !.lastReady = tick]
    BY <1>2 DEF FailedNow, AfterFailure, CanRestart, Unplaced, Process
  <2>2. Timed(new, tick)
    BY <1>1, <2>1 DEF RecordRight, Timed, Process, Ticks, NoTick, Terminal
  <2>3. WithinBudget(new)
    BY <1>2, <2>1 DEF WithinBudget, CanRestart, Process
  <2>4. QED
    BY <2>1, <2>2, <2>3 DEF RecordRight, Process
<1>3. CASE ~ CanRestart(old)
  <2>1. new = [old EXCEPT !.node = NoNode, !.state = "FAILED", !.finished = tick]
    BY <1>3 DEF FailedNow, AfterFailure, CanRestart, Unplaced, Process
  <2>2. Timed(new, tick)
    BY <1>1, <2>1 DEF RecordRight, Timed, Process, Ticks, NoTick, Terminal, ProcStates
  <2>3. QED
    BY <2>1, <2>2 DEF RecordRight, WithinBudget, Process
<1>4. QED
  BY <1>2, <1>3

LEMMA EvolvedIsRight ==
  ASSUME NEW old \in Process, tick \in Nat, RecordRight(old, tick), NEW new,
         Evolves(old, new)
  PROVE  RecordRight(new, tick)
<1> USE DEF RecordRight, Timed, WithinBudget, Process, Ticks, NoTick, Terminal
<1>1. CASE Vacated(old, new)
  BY <1>1 DEF Vacated, Unplaced
<1>2. CASE Requeued(old, new)
  BY <1>2 DEF Requeued
<1>3. CASE Killed(old, new)
  BY <1>3 DEF Killed, Unplaced, ProcStates
<1>4. CASE Begun(old, new)
  BY <1>4 DEF Begun, Started
<1>5. CASE Served(old, new)
  BY <1>5 DEF Served, Worked, Unplaced
<1>6. CASE FailedNow(old, new)
  BY <1>6, FailureIsRight
<1>7. QED
  BY <1>1, <1>2, <1>3, <1>4, <1>5, <1>6 DEF Evolves

LEMMA NothingLived == Lived(NoProcs, 0) /\ Lived(NothingSaved.procs, NothingSaved.tick)
  BY NothingType DEF Lived, NothingSaved

\* What a command or a rollback puts in the place of the processes.
LEMMA ReplacedLived ==
  ASSUME TypeOK', Replace
  PROVE  Lived(procs', tick')
<1>1. CASE Reset
  BY <1>1, NothingLived DEF Reset
<1>2. ASSUME NEW s \in Scenarios, LoadScenario(s)
      PROVE  Lived(procs', tick')
  <2>1. ASSUME NEW p \in DOMAIN procs'
        PROVE  RecordRight(procs'[p], 0)
    <3>1. procs'[p] = [NewProcess(DefinitionOf(s.processes, p).def, 0)
                         EXCEPT !.state = "READY"]
      BY <1>2 DEF LoadScenario, LoadedProcesses
    <3>2. procs'[p] \in Process
      BY DEF TypeOK, ProcsOK
    <3>3. QED
      BY <3>1, <3>2 DEF NewProcess, RecordRight, Timed, WithinBudget, Process, NoTick, Terminal
  <2>2. tick' = 0
    BY <1>2 DEF LoadScenario
  <2>3. QED
    BY <2>1, <2>2 DEF Lived
<1>3. QED
  BY <1>1, <1>2 DEF Replace

\* The clock stands still but for the first step of a tick.
LEMMA ClockStands ==
  ASSUME Next
  PROVE  \/ BeginStep /\ tick' = tick + 1 /\ procs' = procs
         \/ Replace
         \/ phase # "idle" /\ Rollback
         \/ tick' = tick
<1> USE DEF Free, clusterVars
<1>1. ASSUME NEW n \in NodeIds, NodeCommand(n)
      PROVE  tick' = tick
  BY <1>1 DEF NodeCommand, RemoveNode, FailNode, RecoverNode, Heartbeat, ChangeNodeStatus
<1>2. ASSUME NEW p \in ProcIds, ProcessCommand(p)
      PROVE  tick' = tick
  BY <1>2 DEF ProcessCommand, PauseProcess, ResumeProcess, WaitProcess, WakeProcess,
              KillProcess, FailProcess
<1>3. CASE Command
  BY <1>1, <1>2, <1>3
  DEF Command, Replace, RegisterNode, SubmitProcess, SetScheduler, Start,
      PauseSimulation, Finish
<1>4. CASE BeginStep
  BY <1>4 DEF BeginStep
<1>5. CASE InsideStep
  <2>1. phase # "idle"
    BY <1>5 DEF InsideStep, ApplySubmission, ApplyFailure, RejectFailure,
       DetectMissedHeartbeat, Place, Defer, Execute, EndApply, EndBeat, EndPlace,
       EndRun, EndStep
  <2>2. tick' = tick \/ Rollback
    BY <1>5
    DEF InsideStep, ApplySubmission, ApplyFailure, RejectFailure, DetectMissedHeartbeat,
        Place, Defer, Execute, EndApply, EndBeat, EndPlace, EndRun, EndStep
  <2>3. QED
    BY <2>1, <2>2
<1>6. QED
  BY <1>3, <1>4, <1>5 DEF Next

\* The copy of the state is made when a tick begins and given up when it ends.
LEMMA CopyStands ==
  ASSUME Next
  PROVE  \/ BeginStep
         \/ saved' = NothingSaved
         \/ saved' = saved
<1> USE DEF Free, stepVars
<1>1. ASSUME NEW n \in NodeIds, NodeCommand(n)
      PROVE  saved' = saved
  BY <1>1 DEF NodeCommand, RemoveNode, FailNode, RecoverNode, Heartbeat, ChangeNodeStatus
<1>2. ASSUME NEW p \in ProcIds, ProcessCommand(p)
      PROVE  saved' = saved
  BY <1>2 DEF ProcessCommand, PauseProcess, ResumeProcess, WaitProcess, WakeProcess,
              KillProcess, FailProcess
<1>3. CASE Command
  BY <1>1, <1>2, <1>3
  DEF Command, RegisterNode, SubmitProcess, SetScheduler, LoadScenario, Start,
      PauseSimulation, Reset, Finish
<1>4. CASE InsideStep
  BY <1>4
  DEF InsideStep, ApplySubmission, ApplyFailure, RejectFailure, DetectMissedHeartbeat,
      Place, Defer, Execute, EndApply, EndBeat, EndPlace, EndRun, EndStep, Rollback
<1>5. QED
  BY <1>3, <1>4 DEF Next

LEMMA NextLived ==
  ASSUME PInv, TypeOK', [Next]_vars
  PROVE  Lived(procs', tick') /\ Lived(saved'.procs, saved'.tick)
<1>1. /\ TypeOK /\ tick \in Nat /\ ProcsOK(procs) /\ ProcsOK(procs')
      /\ Lived(procs, tick) /\ Lived(saved.procs, saved.tick)
  BY DEF PInv, IInv, TypeOK
<1>2. CASE UNCHANGED vars
  BY <1>1, <1>2 DEF vars, clusterVars, stepVars
<1>3. CASE BeginStep
  <2>1. \A p \in DOMAIN procs : procs[p] \in Process /\ RecordRight(procs[p], tick)
    BY <1>1 DEF ProcsOK, Lived
  <2>2. \A p \in DOMAIN procs : RecordRight(procs[p], tick + 1)
    BY <1>1, <2>1, RecordAges
  <2>3. procs' = procs /\ tick' = tick + 1 /\ saved' = Current
    BY <1>3 DEF BeginStep
  <2>4. QED
    BY <1>1, <2>2, <2>3 DEF Lived, Current
<1>4. CASE Next /\ ~ BeginStep
  <2>1. Lived(saved'.procs, saved'.tick)
    BY <1>1, <1>4, CopyStands, NothingLived
  <2>2. CASE Replace
    BY <2>1, <2>2, ReplacedLived
  <2>3. CASE Rollback
    BY <1>1, <2>1, <2>3 DEF Rollback
  <2>4. CASE ~ Replace /\ ~ Rollback
    <3>1. ProcsEvolve /\ tick' = tick
      BY <1>4, <2>4, NextEvolves, ClockStands
    <3>2. ASSUME NEW p \in DOMAIN procs'
          PROVE  RecordRight(procs'[p], tick)
      <4>1. procs'[p] \in Process
        BY <1>1 DEF ProcsOK
      <4>2. CASE p \in DOMAIN procs
        <5>1. Evolves(procs[p], procs'[p])
          BY <3>1, <4>2 DEF ProcsEvolve
        <5>2. procs[p] \in Process /\ RecordRight(procs[p], tick)
          BY <1>1, <4>2 DEF ProcsOK, Lived
        <5>3. QED
          BY <1>1, <5>1, <5>2, EvolvedIsRight
      <4>3. CASE p \notin DOMAIN procs
        <5>1. JustSubmitted(procs'[p])
          BY <3>1, <4>3 DEF ProcsEvolve
        <5>2. QED
          BY <1>1, <4>1, <5>1, FreshIsRight
      <4>4. QED
        BY <4>2, <4>3
    <3>3. QED
      BY <2>1, <3>1, <3>2 DEF Lived
  <2>5. QED
    BY <2>2, <2>3, <2>4
<1>5. QED
  BY <1>2, <1>3, <1>4

-----------------------------------------------------------------------------
(* Status and reason *)

LEMMA CommandStatus ==
  ASSUME StatusRight, Command
  PROVE  StatusRight'
<1> USE DEF Free, stepVars, StatusRight, ReasonIffCompleted
<1>1. ASSUME UNCHANGED <<status, reason, phase, saved>>, phase = "idle"
      PROVE  StatusRight'
  BY <1>1
<1>2. ASSUME NEW n \in NodeIds, NodeCommand(n)
      PROVE  StatusRight'
  BY <1>1, <1>2 DEF NodeCommand, RemoveNode, FailNode, RecoverNode, Heartbeat, ChangeNodeStatus
<1>3. ASSUME NEW p \in ProcIds, ProcessCommand(p)
      PROVE  StatusRight'
  BY <1>1, <1>3 DEF ProcessCommand, PauseProcess, ResumeProcess, WaitProcess, WakeProcess,
              KillProcess, FailProcess
<1>4. ASSUME NEW n \in NodeIds, NEW c \in Capacities, RegisterNode(n, c)
      PROVE  StatusRight'
  BY <1>1, <1>4 DEF RegisterNode
<1>5. ASSUME NEW a \in Algorithms, SetScheduler(a)
      PROVE  StatusRight'
  BY <1>1, <1>5 DEF SetScheduler, clusterVars
<1>6. ASSUME NEW p \in ProcIds, NEW def \in Definitions, SubmitProcess(p, def)
      PROVE  StatusRight'
  BY <1>6 DEF SubmitProcess, SubmitLocked
<1>7. CASE Start \/ PauseSimulation \/ Finish \/ Reset
  BY <1>7 DEF Start, PauseSimulation, Finish, Reset
<1>8. ASSUME NEW s \in Scenarios, LoadScenario(s)
      PROVE  StatusRight'
  BY <1>8 DEF LoadScenario
<1>9. QED
  BY <1>2, <1>3, <1>4, <1>5, <1>6, <1>7, <1>8 DEF Command

LEMMA RollbackStatus ==
  ASSUME StatusRight, Rollback
  PROVE  StatusRight'
  BY DEF StatusRight, ReasonIffCompleted, Rollback, NothingSaved

LEMMA NextStatus ==
  ASSUME TypeOK, StatusRight, [Next]_vars
  PROVE  StatusRight'
<1> USE DEF StatusRight, ReasonIffCompleted
<1>1. ASSUME phase # "idle", UNCHANGED <<status, reason, tick, saved>>
      PROVE  StatusRight'
  BY <1>1
<1>2. CASE InsideStep
  <2>1. ASSUME NEW d \in pending, ApplySubmission(d)
        PROVE  StatusRight'
    BY <2>1, RollbackStatus DEF ApplySubmission, SubmitLocked, stepVars
  <2>2. ASSUME NEW f \in failures, ApplyFailure(f) \/ RejectFailure(f)
        PROVE  StatusRight'
    BY <1>1, <2>2, RollbackStatus DEF ApplyFailure, RejectFailure, stepVars
  <2>3. ASSUME NEW n \in NodeIds, DetectMissedHeartbeat(n)
        PROVE  StatusRight'
    BY <1>1, <2>3 DEF DetectMissedHeartbeat, stepVars
  <2>4. ASSUME NEW p \in ProcIds, Place(p) \/ Defer(p) \/ Execute(p)
        PROVE  StatusRight'
    BY <1>1, <2>4 DEF Place, Defer, Execute, clusterVars
  <2>5. CASE EndApply \/ EndBeat \/ EndPlace \/ EndRun
    BY <1>1, <2>5 DEF EndApply, EndBeat, EndPlace, EndRun, clusterVars
  <2>6. CASE EndStep
    <3>1. CASE Consistent(nodes, procs)
      <4>1. /\ phase' = "idle" /\ saved' = NothingSaved /\ status = "RUNNING" /\ reason = ""
            /\ status' = IF FinishReason = "" THEN status ELSE "COMPLETED"
            /\ reason' = IF FinishReason = "" THEN reason ELSE FinishReason
        BY <2>6, <3>1 DEF EndStep
      <4> HIDE DEF StatusRight
      <4>2. ReasonIffCompleted'
        BY <4>1, Zenon
      <4>3. QED
        BY <4>1, <4>2 DEF StatusRight, NothingSaved
    <3>2. CASE ~ Consistent(nodes, procs)
      BY <2>6, <3>2, RollbackStatus DEF EndStep
    <3>3. QED
      BY <3>1, <3>2
  <2>7. QED
    BY <1>2, <2>1, <2>2, <2>3, <2>4, <2>5, <2>6 DEF InsideStep
<1>3. CASE BeginStep
  BY <1>3 DEF BeginStep, Current
<1>4. CASE UNCHANGED vars
  BY <1>4 DEF vars, clusterVars, stepVars
<1>5. QED
  BY <1>2, <1>3, <1>4, CommandStatus DEF Next

-----------------------------------------------------------------------------
(* What commands and ticks do to the copy *)

\* A command needs the mutex and gives it back.
LEMMA CommandIsFree ==
  ASSUME Command
  PROVE  phase = "idle" /\ phase' = "idle" /\ saved' = saved
<1>1. Free
  BY DEF Command, NodeCommand, RemoveNode, FailNode, RecoverNode, Heartbeat,
       ChangeNodeStatus, ProcessCommand, PauseProcess, ResumeProcess, WaitProcess,
       WakeProcess, KillProcess, FailProcess, RegisterNode, SubmitProcess, SetScheduler,
       LoadScenario, Start, PauseSimulation, Reset, Finish
<1>2. QED
  BY <1>1 DEF Free, stepVars

\* A step inside a tick goes on, ends the tick or goes back.
LEMMA TickGoesOn ==
  ASSUME PInv, InsideStep
  PROVE  /\ phase # "idle"
         /\ \/ Rollback /\ tick' < tick /\ phase' = "idle"
            \/ /\ tick' = tick /\ ProcsEvolve
               /\ \/ phase' = "idle" /\ procs' = procs
                  \/ phase' # "idle" /\ saved' = saved
<1>1. phase # "idle"
  BY DEF InsideStep, ApplySubmission, ApplyFailure, RejectFailure,
         DetectMissedHeartbeat, Place, Defer, Execute, EndApply, EndBeat, EndPlace,
         EndRun, EndStep
<1>2. tick = saved.tick + 1 /\ saved.tick \in Nat
  BY <1>1 DEF PInv, StatusRight, IInv, TypeOK
<1>3. CASE Rollback
  <2>1. tick' = saved.tick /\ phase' = "idle"
    BY <1>3 DEF Rollback
  <2>2. QED
    BY <1>1, <1>2, <1>3, <2>1
<1>4. CASE ~ Rollback
  <2>1. ProcsEvolve
    BY <1>1, <1>4, NextEvolves DEF Next
  <2>2. /\ tick' = tick
        /\ \/ phase' = "idle" /\ procs' = procs
           \/ phase' # "idle" /\ saved' = saved
    BY <1>1, <1>4
    DEF InsideStep, ApplySubmission, ApplyFailure, RejectFailure,
        DetectMissedHeartbeat, Place, Defer, Execute, EndApply, EndBeat, EndPlace,
        EndRun, EndStep, stepVars, clusterVars
  <2>3. QED
    BY <1>1, <2>1, <2>2
<1>5. QED
  BY <1>3, <1>4

-----------------------------------------------------------------------------
(* Nodes after the heartbeats were looked at *)

\* Placing and running processes touches the counters and lists of nodes only.
SameHosts ==
  /\ DOMAIN nodes' = DOMAIN nodes
  /\ \A n \in DOMAIN nodes : /\ nodes'[n].status = nodes[n].status
                             /\ nodes'[n].heartbeat = nodes[n].heartbeat
                             /\ nodes'[n].capacity = nodes[n].capacity

LEMMA LateStepsKeepHosts ==
  ASSUME PInv, [Next]_vars, phase \in {"place", "run", "close"}, phase' # "idle"
  PROVE  SameHosts /\ tick' = tick
<1>1. CASE nodes' = nodes /\ tick' = tick
  BY <1>1 DEF SameHosts
<1>2. ASSUME NEW p \in ProcIds, Place(p)
      PROVE  SameHosts /\ tick' = tick
  <2>1. PICK n \in DOMAIN nodes : nodes' = [nodes EXCEPT ![n] = Allocated(nodes[n], p, procs[p])]
    BY <1>2, PlaceOnSucceeds DEF PInv
  <2>2. nodes[n] \in Node
    BY DEF PInv, IInv, TypeOK, NodesOK
  <2>3. SameHosts
    BY <2>1, <2>2 DEF SameHosts, Allocated, Node
  <2>4. QED
    BY <1>2, <2>3 DEF Place
<1>3. ASSUME NEW p \in ProcIds, Execute(p)
      PROVE  SameHosts /\ tick' = tick
  <2>1. CASE nodes' = nodes
    BY <1>3, <2>1, <1>1 DEF Execute
  <2>2. CASE nodes' = AfterRelease(p) /\ CanRelease(p)
    <3>1. procs[p].node \in DOMAIN nodes /\ nodes[procs[p].node] \in Node
      BY <2>2 DEF CanRelease, PInv, IInv, TypeOK, NodesOK
    <3>2. SameHosts
      BY <2>2, <3>1 DEF SameHosts, AfterRelease, Released, Node
    <3>3. QED
      BY <1>3, <3>2 DEF Execute
  <2>3. QED
    BY <1>3, <2>1, <2>2 DEF Execute
<1>4. CASE \E p \in ProcIds : Defer(p)
  BY <1>1, <1>4 DEF Defer, clusterVars
<1>5. CASE EndPlace \/ EndRun
  BY <1>1, <1>5 DEF EndPlace, EndRun, clusterVars
<1>6. CASE UNCHANGED vars
  BY <1>1, <1>6 DEF vars, clusterVars
<1>7. ~ (Command \/ BeginStep)
  BY CommandNeedsMutex DEF BeginStep
<1>8. ~ \E d \in pending : ApplySubmission(d)
  BY DEF ApplySubmission
<1>9. ~ \E f \in failures : ApplyFailure(f) \/ RejectFailure(f)
  BY DEF ApplyFailure, RejectFailure
<1>10. ~ (EndApply \/ EndBeat \/ EndStep)
  BY DEF EndApply, EndBeat, EndStep, Rollback
<1>11. ~ \E n \in NodeIds : DetectMissedHeartbeat(n)
  BY DEF DetectMissedHeartbeat
<1>12. QED
  BY <1>2, <1>3, <1>4, <1>5, <1>6, <1>7, <1>8, <1>9, <1>10, <1>11 DEF Next, InsideStep

\* The late phases are entered through EndBeat.
LEMMA PhaseOrder ==
  ASSUME [Next]_vars, phase \notin {"place", "run", "close"},
         phase' \in {"place", "run", "close"}
  PROVE  EndBeat
<1> USE DEF Free, stepVars
<1>1. ~ \E n \in NodeIds : NodeCommand(n)
  BY DEF NodeCommand, RemoveNode, FailNode, RecoverNode, Heartbeat, ChangeNodeStatus
<1>2. ~ \E p \in ProcIds : ProcessCommand(p)
  BY DEF ProcessCommand, PauseProcess, ResumeProcess, WaitProcess, WakeProcess,
         KillProcess, FailProcess
<1>3. ~ Command
  BY <1>1, <1>2
  DEF Command, RegisterNode, SubmitProcess, SetScheduler, LoadScenario, Start,
      PauseSimulation, Reset, Finish
<1>4. InsideStep => EndBeat
  BY DEF InsideStep, ApplySubmission, ApplyFailure, RejectFailure, DetectMissedHeartbeat,
      Place, Defer, Execute, EndApply, EndPlace, EndRun, EndStep, Rollback
<1>5. QED
  BY <1>3, <1>4 DEF Next, BeginStep, vars

\* A node that is ONLINE after a step was so before with the same heartbeat, or it has
\* given a sign of life now.
HostsAge ==
  \A n \in DOMAIN nodes' : nodes'[n].status = "ONLINE" =>
    \/ nodes'[n].heartbeat = tick'
    \/ /\ n \in DOMAIN nodes /\ nodes[n].status = "ONLINE"
       /\ nodes'[n].heartbeat = nodes[n].heartbeat

LEMMA ReleaseAges ==
  ASSUME TypeOK, NEW p, CanRelease(p), nodes' = AfterRelease(p)
  PROVE  HostsAge
<1> DEFINE h == procs[p].node
<1>1. h \in DOMAIN nodes /\ nodes[h] \in Node
  BY DEF CanRelease, TypeOK, NodesOK
<1>2. nodes' = [nodes EXCEPT ![h] = Released(nodes[h], p, procs[p])]
  BY DEF AfterRelease
<1>3. /\ Released(nodes[h], p, procs[p]).status = nodes[h].status
      /\ Released(nodes[h], p, procs[p]).heartbeat = nodes[h].heartbeat
  BY <1>1 DEF Released, Node
<1> HIDE DEF h
<1>4. QED
  BY <1>1, <1>2, <1>3 DEF HostsAge

LEMMA FailNodeAges ==
  ASSUME TypeOK, NEW n, FailNodeLocked(n)
  PROVE  HostsAge
<1>1. n \in DOMAIN nodes /\ nodes[n] \in Node /\ nodes' = [nodes EXCEPT ![n] = Emptied(nodes[n])]
  BY DEF FailNodeLocked, CanFailNode, TypeOK, NodesOK
<1>2. Emptied(nodes[n]).status = "FAILED"
  BY <1>1 DEF Emptied, Node
<1>3. QED
  BY <1>1, <1>2 DEF HostsAge

LEMMA FailProcessAges ==
  ASSUME TypeOK, NEW p, FailProcessLocked(p)
  PROVE  HostsAge
<1>1. CASE nodes' = nodes
  BY <1>1 DEF HostsAge
<1>2. CASE CanRelease(p) /\ nodes' = AfterRelease(p)
  BY <1>2, ReleaseAges
<1>3. QED
  BY <1>1, <1>2 DEF FailProcessLocked, CanFailProcess

LEMMA CommandAges ==
  ASSUME TypeOK, Command
  PROVE  HostsAge
<1>1. ASSUME nodes' = nodes
      PROVE  HostsAge
  BY <1>1 DEF HostsAge
<1>2. ASSUME NEW n \in NodeIds, NodeCommand(n)
      PROVE  HostsAge
  <2>1. n \in DOMAIN nodes /\ nodes[n] \in Node /\ NodesOK(nodes)
    BY <1>2 DEF NodeCommand, RemoveNode, FailNode, FailNodeLocked, CanFailNode, RecoverNode,
                Heartbeat, ChangeNodeStatus, TypeOK, NodesOK
  <2>2. CASE RemoveNode(n)
    BY <2>2 DEF RemoveNode, HostsAge
  <2>3. CASE FailNode(n)
    BY <2>3, FailNodeAges DEF FailNode
  <2>4. CASE RecoverNode(n) \/ Heartbeat(n)
    <3>1. /\ tick' = tick
          /\ \A m \in DOMAIN nodes' : m \in DOMAIN nodes /\ (m # n => nodes'[m] = nodes[m])
          /\ nodes'[n].heartbeat = tick
      BY <2>1, <2>4 DEF RecoverNode, Heartbeat, Node
    <3>2. QED
      BY <3>1 DEF HostsAge
  <2>5. ASSUME NEW st \in NodeStatuses, ChangeNodeStatus(n, st)
        PROVE  HostsAge
    <3>1. /\ tick' = tick
          /\ \A m \in DOMAIN nodes' : m \in DOMAIN nodes /\ (m # n => nodes'[m] = nodes[m])
          /\ nodes'[n].status = st
          /\ st = "ONLINE" => nodes'[n].heartbeat = tick
      BY <2>1, <2>5 DEF ChangeNodeStatus, Node
    <3>2. QED
      BY <3>1 DEF HostsAge
  <2>6. QED
    BY <1>2, <2>2, <2>3, <2>4, <2>5 DEF NodeCommand
<1>3. ASSUME NEW n \in NodeIds, NEW c \in Capacities, RegisterNode(n, c)
      PROVE  HostsAge
  <2>1. /\ tick' = tick /\ NewNode(c, tick).heartbeat = tick
        /\ nodes' = [m \in DOMAIN nodes \cup {n} |->
                       IF m = n THEN NewNode(c, tick) ELSE nodes[m]]
    BY <1>3 DEF RegisterNode, NewNode
  <2>2. QED
    BY <2>1 DEF HostsAge
<1>4. ASSUME NEW p \in ProcIds, ProcessCommand(p)
      PROVE  HostsAge
  <2>1. nodes' = nodes \/ (CanRelease(p) /\ nodes' = AfterRelease(p)) \/ FailProcessLocked(p)
    BY <1>4 DEF ProcessCommand, PauseProcess, ResumeProcess, WaitProcess, WakeProcess,
                KillProcess, FailProcess, Vacate, Requeue
  <2>2. QED
    BY <1>1, <2>1, ReleaseAges, FailProcessAges
<1>5. CASE Reset
  BY <1>5 DEF Reset, NoNodes, HostsAge
<1>6. ASSUME NEW sc \in Scenarios, LoadScenario(sc)
      PROVE  HostsAge
  <2>1. tick' = 0 /\ nodes' = LoadedNodes(sc)
    BY <1>6 DEF LoadScenario
  <2>2. \A n \in DOMAIN nodes' : nodes'[n].heartbeat = 0
    BY <2>1 DEF LoadedNodes, NewNode
  <2>3. QED
    BY <2>1, <2>2 DEF HostsAge
<1>7. CASE \/ \E p \in ProcIds, def \in Definitions : SubmitProcess(p, def)
           \/ \E a \in Algorithms : SetScheduler(a)
           \/ Start \/ PauseSimulation \/ Finish
  BY <1>1, <1>7 DEF SubmitProcess, SetScheduler, Start, PauseSimulation, Finish, clusterVars
<1>8. QED
  BY <1>2, <1>3, <1>4, <1>5, <1>6, <1>7 DEF Command

\* Nodes that age by no more than the tick that passes, while most is raised by as much.
LEMMA StaysYoung ==
  ASSUME TypeOK, TypeOK', HostsAge, NEW most \in Nat, NEW more \in Nat,
         Young(nodes, tick, most), tick' <= tick + (more - most), most <= more
  PROVE  Young(nodes, tick, more)'
<1> SUFFICES ASSUME NEW n \in DOMAIN nodes', nodes'[n].status = "ONLINE"
             PROVE  tick' - nodes'[n].heartbeat <= more
  BY DEF Young
<1>1. tick' \in Nat /\ tick \in Nat
  BY DEF TypeOK
<1>2. CASE nodes'[n].heartbeat = tick'
  <2>1. tick' - tick' = 0 /\ 0 <= more
    BY <1>1
  <2>2. QED
    BY <1>2, <2>1
<1>3. CASE /\ n \in DOMAIN nodes /\ nodes[n].status = "ONLINE"
           /\ nodes'[n].heartbeat = nodes[n].heartbeat
  <2>1. tick - nodes[n].heartbeat <= most
    BY <1>3 DEF Young
  <2>2. nodes[n].heartbeat \in Nat
    BY <1>3 DEF TypeOK, NodesOK, Node
  <2>3. QED
    BY <1>1, <1>3, <2>1, <2>2
<1>4. QED
  BY <1>2, <1>3 DEF HostsAge

LEMMA NextFresh ==
  ASSUME PInv, TypeOK', [Next]_vars
  PROVE  HeartbeatRight'
<1> SUFFICES ASSUME HeartbeatTimeout > 0
             PROVE  /\ Young(nodes, tick, Patience)'
                    /\ phase' # "idle" => Young(saved.nodes, saved.tick, HeartbeatTimeout)'
  BY DEF HeartbeatRight
<1>1. /\ Young(nodes, tick, Patience) /\ TypeOK /\ tick \in Nat /\ HeartbeatTimeout \in Nat
      /\ phase # "idle" => Young(saved.nodes, saved.tick, HeartbeatTimeout)
  BY ConfigAssumption DEF PInv, HeartbeatRight, IInv, TypeOK
<1>2. CASE UNCHANGED vars
  BY <1>1, <1>2 DEF vars, clusterVars, stepVars, Young, Patience
<1>3. CASE Command
  <2>1. phase = "idle" /\ phase' = "idle"
    BY <1>3, CommandIsFree
  <2>2. HostsAge
    BY <1>1, <1>3, CommandAges
  <2>3. tick' <= tick
    <3>1. tick' = tick \/ tick' = 0
      BY <1>3 DEF Command, NodeCommand, RemoveNode, FailNode, RecoverNode, Heartbeat,
           ChangeNodeStatus, ProcessCommand, PauseProcess, ResumeProcess, WaitProcess,
           WakeProcess, KillProcess, FailProcess, RegisterNode, SubmitProcess, SetScheduler,
           LoadScenario, Start, PauseSimulation, Reset, Finish, clusterVars
    <3>2. QED
      BY <1>1, <3>1
  <2>4. Patience = HeartbeatTimeout /\ Patience' = HeartbeatTimeout
    BY <1>1, <2>1 DEF Patience
  <2>5. Young(nodes, tick, HeartbeatTimeout)'
    BY <1>1, <2>2, <2>3, <2>4, StaysYoung
  <2>6. QED
    BY <2>1, <2>4, <2>5
<1>4. CASE BeginStep
  <2>1. /\ nodes' = nodes /\ tick' = tick + 1 /\ phase = "idle" /\ phase' = "apply"
        /\ saved'.nodes = nodes /\ saved'.tick = tick
    BY <1>4 DEF BeginStep, Current
  <2>2. Patience = HeartbeatTimeout /\ Patience' = HeartbeatTimeout + 1
    BY <1>1, <2>1 DEF Patience
  <2>3. HostsAge
    BY <2>1 DEF HostsAge
  <2>4. Young(nodes, tick, HeartbeatTimeout + 1)'
    BY <1>1, <2>1, <2>2, <2>3, StaysYoung
  <2>5. Young(saved.nodes, saved.tick, HeartbeatTimeout)'
    BY <1>1, <2>1, <2>2 DEF Young
  <2>6. QED
    BY <2>2, <2>4, <2>5
<1>5. CASE Rollback /\ phase # "idle"
  <2>1. nodes' = saved.nodes /\ tick' = saved.tick /\ phase' = "idle"
    BY <1>5 DEF Rollback
  <2>2. Patience' = HeartbeatTimeout
    BY <1>1, <2>1 DEF Patience
  <2>3. QED
    BY <1>1, <1>5, <2>1, <2>2 DEF Young
<1>6. CASE InsideStep /\ ~ Rollback
  <2>1. phase # "idle" /\ tick' = tick /\ (phase' # "idle" => saved' = saved)
    BY <1>6, TickGoesOn
  <2>2. phase' # "idle" => Young(saved.nodes, saved.tick, HeartbeatTimeout)'
    BY <1>1, <2>1 DEF Young
  <2>3. ASSUME HostsAge, Patience' = Patience
        PROVE  Young(nodes, tick, Patience)'
    <3>1. Patience \in Nat
      BY <1>1 DEF Patience
    <3>2. PICK most \in Nat : most = Patience
      BY <3>1
    <3>3. Young(nodes, tick, most)'
      BY <1>1, <2>1, <2>3, <3>2, StaysYoung
    <3>4. QED
      BY <2>3, <3>2, <3>3
  <2>4. ASSUME \E d \in pending : ApplySubmission(d)
        PROVE  Young(nodes, tick, Patience)'
    <3>1. nodes' = nodes /\ phase' = phase
      BY <1>6, <2>4 DEF ApplySubmission, stepVars
    <3>2. HostsAge /\ Patience' = Patience
      BY <3>1 DEF HostsAge, Patience
    <3>3. QED
      BY <2>3, <3>2
  <2>5. ASSUME NEW f \in failures, ApplyFailure(f) \/ RejectFailure(f)
        PROVE  Young(nodes, tick, Patience)'
    <3>1. (FailNodeLocked(f.id) \/ FailProcessLocked(f.id)) /\ phase' = phase
      BY <1>6, <2>5 DEF ApplyFailure, RejectFailure, stepVars
    <3>2. HostsAge
      BY <1>1, <3>1, FailNodeAges, FailProcessAges
    <3>3. QED
      BY <2>3, <3>1, <3>2 DEF Patience
  <2>6. ASSUME NEW n \in NodeIds, DetectMissedHeartbeat(n)
        PROVE  Young(nodes, tick, Patience)'
    <3>1. FailNodeLocked(n) /\ phase' = phase
      BY <2>6 DEF DetectMissedHeartbeat, stepVars
    <3>2. QED
      BY <1>1, <2>3, <3>1, FailNodeAges DEF Patience
  <2>7. ASSUME EndApply
        PROVE  Young(nodes, tick, Patience)'
    <3>1. nodes' = nodes /\ phase = "apply" /\ phase' = "beat"
      BY <2>7 DEF EndApply, clusterVars
    <3>2. HostsAge
      BY <3>1 DEF HostsAge
    <3>3. Patience' = Patience
      BY <3>1 DEF Patience
    <3>4. QED
      BY <2>3, <3>2, <3>3
  <2>8. ASSUME EndBeat
        PROVE  Young(nodes, tick, Patience)'
    <3>1. nodes' = nodes /\ phase' = "place" /\ Overdue = {}
      BY <2>8 DEF EndBeat, clusterVars
    <3>2. Patience' = HeartbeatTimeout
      BY <1>1, <3>1 DEF Patience
    <3>3. ASSUME NEW n \in DOMAIN nodes, nodes[n].status = "ONLINE"
          PROVE  tick - nodes[n].heartbeat <= HeartbeatTimeout
      <4>1. nodes[n].heartbeat \in Nat
        BY <1>1 DEF TypeOK, NodesOK, Node
      <4>2. ~ (tick - nodes[n].heartbeat > HeartbeatTimeout)
        BY <3>1, <3>3 DEF Overdue
      <4>3. QED
        BY <1>1, <4>1, <4>2
    <3>4. QED
      BY <2>1, <3>1, <3>2, <3>3 DEF Young
  <2>9. ASSUME phase \in {"place", "run", "close"}
        PROVE  Young(nodes, tick, Patience)'
    <3>1. Patience = HeartbeatTimeout /\ Patience' = HeartbeatTimeout
      <4>1. phase' \notin {"apply", "beat"}
        BY <1>6, <2>9
        DEF InsideStep, ApplySubmission, ApplyFailure, RejectFailure, DetectMissedHeartbeat,
            Place, Defer, Execute, EndApply, EndBeat, EndPlace, EndRun, EndStep
      <4>2. QED
        BY <1>1, <2>9, <4>1 DEF Patience
    <3>2. CASE phase' = "idle"
      <4>1. nodes' = nodes
        BY <1>6, <2>1, <2>9, <3>2
        DEF InsideStep, ApplySubmission, ApplyFailure, RejectFailure, DetectMissedHeartbeat,
            Place, Defer, Execute, EndApply, EndBeat, EndPlace, EndRun, EndStep
      <4>2. QED
        BY <2>3, <3>1, <4>1 DEF HostsAge
    <3>3. CASE phase' # "idle"
      <4>1. SameHosts
        BY <2>9, <3>3, LateStepsKeepHosts
      <4>2. HostsAge
        BY <4>1 DEF SameHosts, HostsAge
      <4>3. QED
        BY <2>3, <3>1, <4>2
    <3>4. QED
      BY <3>2, <3>3
  <2>10. QED
    BY <1>6, <2>2, <2>4, <2>5, <2>6, <2>7, <2>8, <2>9
    DEF InsideStep, Place, Defer, Execute, EndPlace, EndRun, EndStep
<1>7. Rollback => phase # "idle" \/ ~ InsideStep
  BY DEF InsideStep, ApplySubmission, ApplyFailure, RejectFailure, DetectMissedHeartbeat,
         Place, Defer, Execute, EndApply, EndBeat, EndPlace, EndRun, EndStep
<1>8. QED
  BY <1>2, <1>3, <1>4, <1>5, <1>6, <1>7 DEF Next

-----------------------------------------------------------------------------
(* The snapshots, and the processes that were deferred *)

LEMMA PlacePhase ==
  ASSUME [Next]_vars, phase' = "place"
  PROVE  \/ EndBeat
         \/ phase = "place" /\ \E p \in ProcIds : Place(p) \/ Defer(p)
         \/ UNCHANGED vars
<1> USE DEF Free, stepVars
<1>1. CASE phase \in {"place", "run", "close"}
  <2>1. ~ (Command \/ BeginStep)
    BY <1>1, CommandNeedsMutex DEF BeginStep
  <2>2. InsideStep => phase = "place" /\ \E p \in ProcIds : Place(p) \/ Defer(p)
    BY <1>1
    DEF InsideStep, ApplySubmission, ApplyFailure, RejectFailure, DetectMissedHeartbeat,
        Place, Defer, Execute, EndApply, EndBeat, EndPlace, EndRun, EndStep, Rollback
  <2>3. QED
    BY <2>1, <2>2 DEF Next
<1>2. CASE phase \notin {"place", "run", "close"}
  BY <1>2, PhaseOrder
<1>3. QED
  BY <1>1, <1>2

LEMMA SnapshotsTaken ==
  ASSUME EndBeat
  PROVE  SnapshotsCurrent' /\ WorkConserving'
<1>1. snaps' = [n \in DOMAIN nodes' |-> Snapshot(nodes'[n])]
  BY DEF EndBeat, clusterVars
<1>2. todo' = InState("READY")'
  BY DEF EndBeat, clusterVars, InState
<1>3. QED
  BY <1>1, <1>2 DEF SnapshotsCurrent, WorkConserving

\* A node that takes one process has less room for every other.
LEMMA AllocatedFitsLess ==
  ASSUME NEW node \in Node, NEW p, NEW proc \in Process, NEW other \in Process,
         Fits(Allocated(node, p, proc), other)
  PROVE  Fits(node, other)
<1> DEFINE after == Allocated(node, p, proc)
<1>1. /\ after.status = node.status /\ after.capacity = node.capacity
      /\ \A r \in Resources : after.allocated[r] = node.allocated[r] + proc.request[r]
  BY DEF Allocated, Node
<1>2. after.status = "ONLINE"
      /\ \A r \in Resources : after.capacity[r] - after.allocated[r] >= other.request[r]
  BY DEF Fits
<1> HIDE DEF after
<1>3. ASSUME NEW r \in Resources
      PROVE  node.capacity[r] - node.allocated[r] >= other.request[r]
  <2>1. /\ node.capacity[r] \in Int /\ node.allocated[r] \in Int
        /\ proc.request[r] \in Nat /\ other.request[r] \in Int
    BY DEF Node, Process
  <2>2. QED
    BY <1>1, <1>2, <2>1
<1>4. QED
  BY <1>1, <1>2, <1>3 DEF Fits

LEMMA PlaceConserves ==
  ASSUME PInv, NEW p \in ProcIds, Place(p)
  PROVE  SnapshotsCurrent' /\ WorkConserving'
<1>1. /\ p \in DOMAIN procs /\ procs[p].state = "READY" /\ phase = "place" /\ phase' = "place"
      /\ todo' = todo \ {p}
  BY PlaceOnSucceeds DEF PInv, Place
<1>2. PICK n \in DOMAIN nodes :
        /\ nodes' = [nodes EXCEPT ![n] = Allocated(nodes[n], p, procs[p])]
        /\ procs' = [procs EXCEPT ![p] = Started(procs[p], n)]
        /\ snaps' = [snaps EXCEPT ![n] = Snapshot(nodes'[n])]
  BY PlaceOnSucceeds DEF PInv
<1>3. /\ snaps = [m \in DOMAIN nodes |-> Snapshot(nodes[m])]
      /\ \A q \in InState("READY") \ todo, m \in DOMAIN nodes : ~ Fits(nodes[m], procs[q])
  BY <1>1 DEF PInv, SnapshotsCurrent, WorkConserving
<1>4. /\ \A m \in DOMAIN nodes : nodes[m] \in Node
      /\ \A q \in DOMAIN procs : procs[q] \in Process
  BY DEF PInv, IInv, TypeOK, NodesOK, ProcsOK
<1>5. /\ DOMAIN nodes' = DOMAIN nodes /\ DOMAIN procs' = DOMAIN procs
      /\ \A m \in DOMAIN nodes : m # n => nodes'[m] = nodes[m]
      /\ nodes'[n] = Allocated(nodes[n], p, procs[p])
      /\ \A q \in DOMAIN procs : q # p => procs'[q] = procs[q]
      /\ procs'[p].state = "RUNNING"
  BY <1>1, <1>2, <1>4 DEF Started, Process
<1>6. SnapshotsCurrent'
  <2>1. snaps' = [m \in DOMAIN nodes' |-> Snapshot(nodes'[m])]
    BY <1>2, <1>3, <1>5
  <2>2. QED
    BY <2>1 DEF SnapshotsCurrent
<1>7. ASSUME NEW q \in InState("READY")' \ todo', NEW m \in DOMAIN nodes'
      PROVE  ~ Fits(nodes'[m], procs'[q])
  <2>1. q # p /\ q \in DOMAIN procs /\ procs'[q] = procs[q]
    BY <1>5, <1>7 DEF InState
  <2>2. q \in InState("READY") \ todo
    BY <1>1, <1>7, <2>1 DEF InState
  <2>3. ~ Fits(nodes[m], procs[q])
    BY <1>3, <1>5, <2>2
  <2>4. CASE m = n
    BY <1>1, <1>4, <1>5, <2>1, <2>3, <2>4, AllocatedFitsLess
  <2>5. CASE m # n
    BY <1>5, <2>1, <2>3, <2>5
  <2>6. QED
    BY <2>4, <2>5
<1>8. QED
  BY <1>6, <1>7 DEF WorkConserving

LEMMA DeferConserves ==
  ASSUME PInv, NEW p \in ProcIds, Defer(p)
  PROVE  SnapshotsCurrent' /\ WorkConserving'
<1>1. /\ phase = "place" /\ UNCHANGED <<nodes, procs, phase, snaps>>
      /\ todo' = todo \ {p} /\ Fitting(snaps, procs[p]) = {}
  BY DEF Defer, clusterVars
<1>2. SnapshotsCurrent'
  BY <1>1 DEF PInv, SnapshotsCurrent
<1>3. \A n \in DOMAIN nodes : ~ Fits(nodes[n], procs[p])
  BY <1>1 DEF Fitting, PInv, SnapshotsCurrent, Fits, Snapshot
<1>4. WorkConserving'
  BY <1>1, <1>3 DEF PInv, WorkConserving, InState
<1>5. QED
  BY <1>2, <1>4

-----------------------------------------------------------------------------
(* All of it *)

LEMMA NextPInv ==
  ASSUME PInv, [Next]_vars
  PROVE  PInv'
<1>1. IInv'
  BY NextSound DEF PInv
<1>2. StatusRight'
  BY NextStatus DEF PInv, IInv
<1>3. TypeOK'
  BY <1>1 DEF IInv
<1>4. Lived(procs, tick)' /\ Lived(saved.procs, saved.tick)'
  BY <1>3, NextLived
<1>5. HeartbeatRight'
  BY <1>3, NextFresh
<1>6. SnapshotsCurrent' /\ WorkConserving'
  <2>1. CASE phase' # "place"
    BY <2>1 DEF SnapshotsCurrent, WorkConserving
  <2>2. CASE UNCHANGED vars
    BY <2>2 DEF PInv, SnapshotsCurrent, WorkConserving, InState, vars, clusterVars, stepVars
  <2>3. QED
    BY <2>1, <2>2, PlacePhase, SnapshotsTaken, PlaceConserves, DeferConserves
<1>7. QED
  BY <1>1, <1>2, <1>4, <1>5, <1>6 DEF PInv

LEMMA InitPInv ==
  ASSUME Init
  PROVE  PInv
<1>1. phase = "idle" /\ status = "IDLE" /\ reason = "" /\ saved = NothingSaved
  BY DEF Init
<1>2. saved.status = "IDLE" /\ saved.reason = ""
  BY <1>1 DEF NothingSaved
<1>3. StatusRight /\ SnapshotsCurrent /\ WorkConserving
  BY <1>1, <1>2 DEF StatusRight, ReasonIffCompleted, SnapshotsCurrent, WorkConserving
<1>4. Lived(procs, tick) /\ Lived(saved.procs, saved.tick)
  BY NothingLived DEF Init
<1>5. IInv
  BY InitSound
<1>6. HeartbeatRight
  BY <1>1 DEF Init, NoNodes, HeartbeatRight, Young
<1>7. QED
  BY <1>3, <1>4, <1>5, <1>6 DEF PInv

LEMMA ProgressInvariant == Spec => []PInv
<1>1. Init => PInv
  BY InitPInv
<1>2. PInv /\ [Next]_vars => PInv'
  BY NextPInv
<1>3. QED
  BY <1>1, <1>2, PTL DEF Spec

\* The dates and the work of every process are in order.
THEOREM TimelineCorrect == Spec => []Timeline
<1>1. PInv => Timeline
  BY DEF PInv, Lived, RecordRight, Timeline
<1>2. QED
  BY <1>1, ProgressInvariant, PTL

\* A reason is shown exactly while the simulation is COMPLETED.
THEOREM ReasonCorrect == Spec => []ReasonIffCompleted
<1>1. PInv => ReasonIffCompleted
  BY DEF PInv, StatusRight
<1>2. QED
  BY <1>1, ProgressInvariant, PTL

\* Whatever the timeout and whatever clients do with the nodes, whoever looks sees no
\* ONLINE node that has been silent for longer: each way back to ONLINE counts as a sign
\* of life, and a tick that fails takes back the time it let pass.
THEOREM HeartbeatsCorrect == Spec => []HeartbeatFresh
<1>1. PInv => HeartbeatFresh
  <2> SUFFICES ASSUME PInv, HeartbeatTimeout > 0
               PROVE  Young(Seen.nodes, Seen.tick, HeartbeatTimeout)
    BY DEF HeartbeatFresh, Young
  <2>1. CASE phase = "idle"
    <3>1. Seen.nodes = nodes /\ Seen.tick = tick
      BY <2>1 DEF Seen, Current
    <3>2. Patience = HeartbeatTimeout
      BY <2>1, ConfigAssumption DEF Patience
    <3>3. Young(nodes, tick, Patience)
      BY DEF PInv, HeartbeatRight
    <3>4. QED
      BY <3>1, <3>2, <3>3 DEF Young
  <2>2. CASE phase # "idle"
    BY <2>2 DEF PInv, HeartbeatRight, Seen
  <2>3. QED
    BY <2>1, <2>2
<1>2. QED
  BY <1>1, ProgressInvariant, PTL

\* A node is failed for its silence in the first tick beyond the timeout, neither sooner
\* nor later.
THEOREM SilenceIsNoticed == Spec => SilentNodesFailInTime
<1> DEFINE A == phase = "beat" =>
                  \A n \in DOMAIN nodes : nodes'[n].status # nodes[n].status =>
                    tick - nodes[n].heartbeat = HeartbeatTimeout + 1
<1>1. PInv /\ [Next]_vars => A
  <2> SUFFICES ASSUME PInv, [Next]_vars, phase = "beat", NEW n \in DOMAIN nodes,
                      nodes'[n].status # nodes[n].status
               PROVE  tick - nodes[n].heartbeat = HeartbeatTimeout + 1
    OBVIOUS
  <2>1. nodes' # nodes
    OBVIOUS
  <2>2. PICK m \in NodeIds : DetectMissedHeartbeat(m)
    <3>1. ~ (Command \/ BeginStep \/ UNCHANGED vars)
      BY <2>1, CommandNeedsMutex DEF BeginStep, vars, clusterVars
    <3>2. QED
      BY <2>1, <3>1
      DEF Next, InsideStep, ApplySubmission, ApplyFailure, RejectFailure, Place, Defer,
          Execute, EndApply, EndBeat, EndPlace, EndRun, EndStep, clusterVars
  <2>3. m \in Overdue /\ nodes' = [nodes EXCEPT ![m] = Emptied(nodes[m])]
    BY <2>2 DEF DetectMissedHeartbeat, FailNodeLocked
  <2>4. n = m
    BY <2>3
  <2>5. /\ HeartbeatTimeout > 0 /\ nodes[n].status = "ONLINE"
        /\ tick - nodes[n].heartbeat > HeartbeatTimeout
    BY <2>3, <2>4 DEF Overdue
  <2>6. tick - nodes[n].heartbeat <= HeartbeatTimeout + 1
    BY <2>5 DEF PInv, HeartbeatRight, Young, Patience
  <2>7. tick \in Nat /\ nodes[n].heartbeat \in Nat /\ HeartbeatTimeout \in Int
    BY <2>5, ConfigAssumption DEF PInv, IInv, TypeOK, NodesOK, Node
  <2>8. QED
    BY <2>5, <2>6, <2>7
<1>2. QED
  BY <1>1, ProgressInvariant, PTL DEF Spec, SilentNodesFailInTime

\* No process that was passed over fits anywhere.
THEOREM NothingIsPassedOver == Spec => []WorkConserving
<1>1. PInv => WorkConserving
  BY DEF PInv
<1>2. QED
  BY <1>1, ProgressInvariant, PTL

-----------------------------------------------------------------------------
(* When a tick completes the simulation *)

\* FinishReason, read in one go, in the states a tick can end in.
LEMMA WhenFinished ==
  ASSUME TypeOK, Lived(procs, tick)
  PROVE  FinishReason # "" <=> OutOfTicks \/ (DOMAIN procs # {} /\ ~ CanProgress)
<1> DEFINE fit == \E p \in InState("READY"), n \in DOMAIN nodes : Fits(nodes[n], procs[p])
           free == pending = {} /\ failures = {} /\ InState("RUNNING") = {} /\ ~ fit
           queued == InState("READY") # {}
           out == InState("WAITING") \cup InState("PAUSED") # {}
<1>1. \A p \in DOMAIN procs :
        procs[p].state \in {"READY", "RUNNING", "WAITING", "PAUSED"} \cup Terminal
  BY DEF TypeOK, ProcsOK, Process, ProcStates, Terminal, Lived, RecordRight
<1>2. ProgressBlockReason # "" <=> free /\ (queued \/ out)
  <2>1. CASE ~ free
    BY <2>1 DEF ProgressBlockReason
  <2>2. CASE free /\ queued
    BY <2>2 DEF ProgressBlockReason
  <2>3. CASE free /\ ~ queued /\ out
    BY <2>3 DEF ProgressBlockReason
  <2>4. CASE free /\ ~ queued /\ ~ out
    BY <2>4 DEF ProgressBlockReason
  <2>5. QED
    BY <2>1, <2>2, <2>3, <2>4
<1>3. FinishReason # "" <=> AllTerminal \/ OutOfTicks \/ (free /\ (queued \/ out))
  BY <1>2 DEF FinishReason
<1>4. AllTerminal => DOMAIN procs # {} /\ ~ CanProgress
  BY DEF AllTerminal, CanProgress, InState, Terminal
<1>5. free /\ (queued \/ out) => DOMAIN procs # {} /\ ~ CanProgress
  BY DEF CanProgress, InState
<1>6. DOMAIN procs # {} /\ ~ CanProgress => AllTerminal \/ (free /\ (queued \/ out))
  <2>1. SUFFICES ASSUME ~ CanProgress, DOMAIN procs # {}, ~ AllTerminal
                 PROVE  free /\ (queued \/ out)
    OBVIOUS
  <2>2. pending = {} /\ InState("RUNNING") = {} /\ ~ fit
    BY <2>1 DEF CanProgress
  <2>3. PICK p \in DOMAIN procs : procs[p].state \notin Terminal
    BY <2>1, <2>2 DEF AllTerminal
  <2>4. failures = {}
    BY <2>1, <2>3 DEF CanProgress
  <2>5. procs[p].state \in {"READY", "WAITING", "PAUSED"}
    BY <1>1, <2>2, <2>3 DEF InState
  <2>6. queued \/ out
    BY <2>5 DEF InState
  <2>7. QED
    BY <2>2, <2>4, <2>6
<1>7. QED
  BY <1>3, <1>4, <1>5, <1>6

\* The reason that FinishReason finds is the right one.
LEMMA ReasonExplains ==
  ASSUME TypeOK, Lived(procs, tick), FinishReason # ""
  PROVE  Explains(FinishReason)
<1>1. AllTerminal <=> Over
  BY DEF AllTerminal, Over
<1>2. CASE AllTerminal
  BY <1>1, <1>2 DEF FinishReason, Explains
<1>3. CASE ~ AllTerminal /\ OutOfTicks
  BY <1>1, <1>3 DEF FinishReason, Explains
<1>4. CASE ~ AllTerminal /\ ~ OutOfTicks
  <2>1. FinishReason = ProgressBlockReason /\ ProgressBlockReason # ""
    BY <1>4 DEF FinishReason
  <2>2. Stuck
    BY <1>4, WhenFinished DEF Stuck
  <2>3. \/ ProgressBlockReason = "NO_ONLINE_CAPACITY" /\ InState("READY") # {}
        \/ /\ ProgressBlockReason = "EXTERNALLY_BLOCKED" /\ InState("READY") = {}
           /\ InState("WAITING") \cup InState("PAUSED") # {}
    BY <2>1 DEF ProgressBlockReason
  <2> HIDE DEF Stuck
  <2>4. QED
    BY <1>1, <1>4, <2>1, <2>2, <2>3 DEF Explains
<1>5. QED
  BY <1>2, <1>3, <1>4

\* A tick completes the simulation exactly when the budget is used up or nothing
\* can move again, for every cluster and every schedule, and the reason it gives tells
\* which of the two it is and what is left.
THEOREM StopsWhenStuck == Spec => StopsExactlyWhenStuck
<1> DEFINE A == (phase = "close" /\ phase' = "idle" /\ tick' = tick) =>
                  /\ status' = "COMPLETED" <=> OutOfTicks \/ Stuck
                  /\ status' = "COMPLETED" => reason' # "" /\ Explains(reason')
<1>1. PInv /\ [Next]_vars => A
  <2> SUFFICES ASSUME PInv, Next, phase = "close", phase' = "idle", tick' = tick
               PROVE  /\ status' = "COMPLETED" <=> OutOfTicks \/ Stuck
                      /\ status' = "COMPLETED" => reason' # "" /\ Explains(reason')
    BY DEF vars, stepVars
  <2>1. Consistent(nodes, procs)
    BY SoundIsConsistent DEF PInv, IInv, TypeOK
  <2>2. EndStep
    <3>1. ~ (Command \/ BeginStep)
      BY CommandNeedsMutex DEF BeginStep
    <3>2. InsideStep => EndStep
      BY DEF InsideStep, ApplySubmission, ApplyFailure, RejectFailure, DetectMissedHeartbeat,
             Place, Defer, Execute, EndApply, EndBeat, EndPlace, EndRun
    <3>3. QED
      BY <3>1, <3>2 DEF Next
  <2>3. /\ status = "RUNNING" /\ status' = IF FinishReason = "" THEN status ELSE "COMPLETED"
        /\ reason' = IF FinishReason = "" THEN reason ELSE FinishReason
    BY <2>1, <2>2 DEF EndStep, PInv, StatusRight
  <2>4. FinishReason # "" <=> OutOfTicks \/ Stuck
    BY WhenFinished DEF PInv, IInv, Stuck
  <2>5. FinishReason # "" => Explains(FinishReason)
    BY ReasonExplains DEF PInv, IInv
  <2>6. status' = "COMPLETED" <=> FinishReason # ""
    BY <2>3
  <2>7. QED
    BY <2>3, <2>4, <2>5, <2>6
<1>2. QED
  BY <1>1, ProgressInvariant, PTL DEF Spec, StopsExactlyWhenStuck

-----------------------------------------------------------------------------
(* What the scheduler is offered has one answer *)

LEMMA OneWayToSchedule ==
  ASSUME PInv
  PROVE  ScheduleIsDetermined
<1> SUFFICES ASSUME phase = "place"
             PROVE  /\ Cardinality({p \in todo : NextReady(p)})
                         = (IF todo = {} THEN 0 ELSE 1)
                    /\ \A p \in todo : LET fits == Fitting(snaps, procs[p]) IN
                         Cardinality({n \in fits :
                             Selects(algorithm, snaps, cursor, procs[p], n)})
                           = (IF fits = {} THEN 0 ELSE 1)
  BY DEF ScheduleIsDetermined
<1>1. /\ todo \subseteq DOMAIN procs /\ DOMAIN procs \subseteq ProcIds
      /\ \A p \in DOMAIN procs : procs[p] \in Process
      /\ DOMAIN nodes \subseteq NodeIds
      /\ \A n \in DOMAIN nodes : nodes[n] \in Node
      /\ tick \in Nat /\ cursor \in Nat
  BY DEF PInv, IInv, TypeOK, ProcsOK, NodesOK
<1>2. IsFiniteSet(todo) /\ IsFiniteSet(DOMAIN nodes)
  BY <1>1, IdsAssumption, FS_Subset
<1>3. Cardinality({p \in todo : NextReady(p)}) = (IF todo = {} THEN 0 ELSE 1)
  <2>1. CASE todo = {}
    <3>1. {p \in todo : NextReady(p)} = {}
      BY <2>1
    <3>2. QED
      BY <2>1, <3>1, FS_EmptySet
  <2>2. CASE todo # {}
    <3>1. {p \in todo : NextReady(p)}
            = {p \in todo : \A q \in todo \ {p} : Before(algorithm, procs, tick, p, q)}
      BY DEF NextReady
    <3>2. Cardinality({p \in todo :
              \A q \in todo \ {p} : Before(algorithm, procs, tick, p, q)}) = 1
      BY <1>1, <1>2, <2>2, OneIsNext
    <3>3. QED
      BY <2>2, <3>1, <3>2
  <2>3. QED
    BY <2>1, <2>2
<1>4. ASSUME NEW p \in todo
      PROVE  Cardinality({n \in Fitting(snaps, procs[p]) :
                 Selects(algorithm, snaps, cursor, procs[p], n)})
               = (IF Fitting(snaps, procs[p]) = {} THEN 0 ELSE 1)
  <2> DEFINE fits == Fitting(snaps, procs[p])
  <2>1. CASE fits = {}
    <3>1. {n \in fits : Selects(algorithm, snaps, cursor, procs[p], n)} = {}
      BY <2>1
    <3>2. QED
      BY <2>1, <3>1, FS_EmptySet
  <2>2. CASE fits # {} /\ algorithm = "round-robin"
    <3>1. {n \in fits : Selects(algorithm, snaps, cursor, procs[p], n)}
            = {n \in fits : NextInTurn(snaps, cursor, procs[p], n)}
      BY <2>2 DEF Selects
    <3>2. DOMAIN snaps = DOMAIN nodes
      BY DEF PInv, SnapshotsCurrent
    <3>3. DOMAIN snaps \subseteq Nat
      BY <1>1, <3>2, IdsAssumption
    <3>4. Cardinality({n \in fits : NextInTurn(snaps, cursor, procs[p], n)}) = 1
      BY <1>1, <1>2, <2>2, <3>2, <3>3, OneIsNextInTurn
    <3>5. QED
      BY <2>2, <3>1, <3>4
  <2>3. CASE fits # {} /\ algorithm # "round-robin"
    <3>1. {n \in fits : Selects(algorithm, snaps, cursor, procs[p], n)}
            = {n \in fits : LeastLoaded(snaps, procs[p], n)}
      BY <2>3 DEF Selects
    <3>2. snaps = [n \in DOMAIN nodes |-> Snapshot(nodes[n])]
      BY DEF PInv, SnapshotsCurrent
    <3>3. Cardinality({n \in fits : LeastLoaded(snaps, procs[p], n)}) = 1
      BY <1>1, <1>2, <2>3, <3>2, OneIsLeastLoaded
    <3>4. QED
      BY <2>3, <3>1, <3>3
  <2>4. QED
    BY <2>1, <2>2, <2>3
<1>5. QED
  BY <1>3, <1>4

\* Whatever the cluster, one process is next and one node is selected for it:
\* ties are broken by ID in the queue and among the nodes, so that a tick is a
\* function of the state it begins in.
THEOREM ScheduleDetermined == Spec => []ScheduleIsDetermined
<1>1. PInv => ScheduleIsDetermined
  BY OneWayToSchedule
<1>2. QED
  BY <1>1, ProgressInvariant, PTL
=============================================================================
